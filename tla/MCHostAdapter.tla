---------------------------- MODULE MCHostAdapter ----------------------------
(***************************************************************************)
(* The adapter with any host that answers what it was told, in any order   *)
(* and with any delay: it remembers every announcement and may answer it,  *)
(* also after a reset or a restore has made it stale.                      *)
(***************************************************************************)
EXTENDS HostAdapter

CONSTANT OnTheWire   \* bound: commands on the way to the adapter

------------------------------------------------------------------------------
(* Scenarios.  The host's part: the requests it makes, how it decides calls *)
(* and, a bound, the commands it sends.                                     *)

Quiet == [originations |-> {}, forwardings |-> {}, second_calls |-> FALSE,
          faults |-> {}, frames |-> 0, requests |-> 2,
          ingress |-> {}, outcomes |-> {"connect"}, commands |-> 2]

SafetyScenarios ==
    {[Quiet EXCEPT !.originations = {"call"}, !.faults = {"restore"},
                   !.requests = 1],
     [Quiet EXCEPT !.originations = {"call"}, !.faults = {"link"},
                   !.outcomes = {"connect", "busy"}],
     [Quiet EXCEPT !.originations = {"sms"}, !.ingress = {"incoming_sms"},
                   !.faults = {"disconnect", "reset"}],
     [Quiet EXCEPT !.originations = {"ussd"}, !.ingress = {"incoming_ussd"},
                   !.faults = {"reset"}],
     [Quiet EXCEPT !.ingress = {"incoming_call"}, !.faults = {"restore"}],
     [Quiet EXCEPT !.ingress = {"incoming_sms"}, !.commands = 3]}

QueueScenarios ==
    {[Quiet EXCEPT
        !.ingress = {"incoming_call", "incoming_sms", "incoming_ussd"},
        !.forwardings = {"busy", "no_reply"}],
     [Quiet EXCEPT !.ingress = {"incoming_call"},
                   !.forwardings = {"unconditional", "not_reachable"}]}

DivertedScenarios ==
    {[Quiet EXCEPT !.ingress = {"incoming_call"},
                   !.forwardings = {"unconditional"}]}
UnpagedScenarios ==
    {[Quiet EXCEPT !.ingress = {"incoming_call", "incoming_sms"}]}
UnservedScenarios ==
    {[Quiet EXCEPT !.ingress = {"incoming_sms", "incoming_ussd"}]}
UnarmedScenarios == {[Quiet EXCEPT !.ingress = {"incoming_ussd"}]}
SecondCallScenarios ==
    {[Quiet EXCEPT !.originations = {"call"}, !.second_calls = TRUE]}

------------------------------------------------------------------------------
VARIABLES host, tick

hostVars == <<adapterVars, host, tick>>

Announcements ==
    {"outgoing_call", "outgoing_sms", "outgoing_ussd",
     "incoming_call", "incoming_ussd"}

HostInit == host = [epoch |-> 0, known |-> {}, open |-> {}, sent |-> 0, next |-> 1]

Direction(event) ==
    IF event.type = "incoming_call_state" THEN "incoming" ELSE "outgoing"
IsState(event) == event.type \in {"incoming_call_state", "outgoing_call_state"}

HostReads ==
    /\ events # <<>>
    /\ events' = Tail(events)
    /\ LET event == Head(events)
           call == <<Direction(event), event.id>>
       IN host' =
         CASE event.type = "call_adapter_ready" ->
                [host EXCEPT !.epoch = event.epoch, !.open = {}]
           [] event.type \in Announcements ->
                [host EXCEPT !.known =
                   @ \cup {<<event.type, event.epoch, event.id>>}]
           [] IsState(event) /\ event.phase = "connected" ->
                [host EXCEPT !.open = @ \cup {call}]
           [] IsState(event) /\ event.phase \in {"media_closed", "ended"} ->
                [host EXCEPT !.open = @ \ {call}]
           [] OTHER -> host
    /\ UNCHANGED <<devices, commands>>

Replies(known) ==
    LET answer(type, content) == Command(type, known[2], known[3], content)
    IN  CASE known[1] = "outgoing_call" ->
               {answer("outgoing_call_decision", outcome) : outcome \in scenario.outcomes}
               \cup {answer("outgoing_call_terminate", "cause")}
          [] known[1] = "outgoing_sms" ->
               {answer("outgoing_sms_decision", "accept")}
          [] known[1] = "outgoing_ussd" ->
               {answer("outgoing_ussd_response", "result")}
          [] known[1] = "incoming_call" ->
               {answer("incoming_call_terminate", "cause")}
          [] OTHER -> {answer("incoming_ussd_terminate", "")}

HostSends ==
    /\ host.sent < scenario.commands /\ Len(commands) < OnTheWire
    /\ host.epoch # 0 /\ adapter.connected
    /\ \/ \E known \in host.known : \E answer \in Replies(known) :
            /\ commands' = Append(commands, answer)
            /\ host' = [host EXCEPT !.sent = @ + 1]
       \/ \E type \in scenario.ingress, content \in {"request", "notify"} :
            /\ content = "request" => type = "incoming_ussd"
            /\ commands' = Append(commands,
                                  Command(type, host.epoch, host.next, content))
            /\ host' = [host EXCEPT !.sent = @ + 1, !.next = @ + 1,
                          !.known = IF type = "incoming_sms" THEN @ ELSE
                            @ \cup {<<type, host.epoch, host.next>>}]
    /\ UNCHANGED <<devices, events>>

Polls == Poll /\ UNCHANGED host
Others ==
    \/ Handset \/ LinkFails \/ MachineReset \/ Save \/ Restore
    \/ Receive \/ Connect \/ Disconnect
Environment == Others /\ UNCHANGED host

MCInit == AdapterInit /\ HostInit /\ tick = FALSE
MCNext ==
    /\ Polls \/ Environment \/ HostReads \/ HostSends
    /\ UNCHANGED <<tick, scenario>>
MCSpec == MCInit /\ [][MCNext]_hostVars

\* The timer fires every 10 ms whatever else happens, and what is published is
\* read.  A poll always changes tick, so that weak fairness of a poll, enabled
\* whenever there is room for its events, can be written without ENABLED.
LiveNext ==
    /\ \/ Polls /\ tick' = ~tick
       \/ (Environment \/ HostReads \/ HostSends) /\ UNCHANGED tick
    /\ UNCHANGED scenario
LiveSpec ==
    /\ MCInit /\ [][LiveNext]_hostVars
    /\ []<>(Len(events) >= MaxEvents) \/ []<><<tick' # tick>>_hostVars
    /\ WF_hostVars(HostReads /\ UNCHANGED <<tick, scenario>>)

\* The session takes an answer only from a host that was told of that very
\* request, in this epoch: stale answers change nothing.
Told(type, id) == <<type, adapter.epoch, id>> \in host.known
AnswersAreCurrent ==
    [][adapter'.epoch = adapter.epoch =>
       /\ phone.call.decision = "none" /\ phone'.call.decision # "none" =>
            Told("outgoing_call", phone.call.id)
       /\ ~phone.call.terminated /\ phone'.call.terminated =>
            Told("outgoing_call", phone.call.id)
       /\ ~phone.sms.decided /\ phone'.sms.decided =>
            Told("outgoing_sms", phone.sms.id)]_<<phone, adapter>>

\* The host learns that the media of a call is closed before it learns that
\* the call has ended, and of the closure of no other call.
MediaClosesFirst ==
    [][events # <<>> /\ events' = Tail(events) /\ IsState(Head(events)) =>
         LET call == <<Direction(Head(events)), Head(events).id>> IN
         /\ Head(events).phase = "media_closed" => call \in host.open
         /\ Head(events).phase = "ended" => call \notin host.open]_events
==============================================================================
