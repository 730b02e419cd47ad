-------------------------- MODULE LoopbackTelephony --------------------------
(***************************************************************************)
(* The handset and its adapter with tools/dct3_call_bridge.py as their     *)
(* host: one process that accepts every request, sends every frame it gets *)
(* back, may make one request of its own on each connection, and connects  *)
(* again whenever a connection ends.  It is run without --once.            *)
(*                                                                         *)
(* A turn of connected_session, from one message to the next, is an        *)
(* action: the replies are on the way before it waits again.               *)
(***************************************************************************)
EXTENDS HostAdapter

\* ingress: its own request, --incoming-caller, -sms, -ussd, or none;
\* hangs_up: --hangup-after
ASSUME LoopbackAssumption ==
    \A s \in Scenarios :
      /\ s.ingress \in {"none", "incoming_call", "incoming_sms", "incoming_ussd"}
      /\ s.hangs_up \in BOOLEAN

VARIABLES
    protocol,   \* LoopbackProtocol, which outlives a connection
    session,    \* the locals of connected_session
    tick        \* changes with every poll of the timer

loopVars == <<adapterVars, protocol, session, tick>>

\* id 0 is no request; incoming_request's default is 1.
IngressId == 1
ProtocolStarts ==
    [epoch |-> 0, id |-> 0, phase |-> "idle", direction |-> "outgoing",
     downlink |-> 0, registered |-> FALSE]
SessionStarts == [open |-> TRUE, ingress_sent |-> FALSE, hangup |-> FALSE]
SessionEnds == [SessionStarts EXCEPT !.open = FALSE]

Matches(p, event) == event.epoch = p.epoch /\ event.id = p.id

------------------------------------------------------------------------------
(* LoopbackProtocol.handle *)

Reply(type, event, content) == <<Command(type, event.epoch, event.id, content)>>

\* _request leaves the direction of the last request.
Requested(p, event) ==
    [p EXCEPT !.epoch = event.epoch, !.id = event.id, !.phase = "requested",
              !.downlink = 0]

\* Mutant of TakesState: the cursor of a snapshot is not taken.
TakesPhase(p, event) ==
    IF Matches(p, event) /\ event.phase \in {"alerting", "connected", "ended"}
    THEN [p EXCEPT !.phase = event.phase] ELSE p

Known == {"queued", "paging", "alerting", "connected", "ended"}
TakesState(p, event) ==
    IF Matches(p, event) /\ event.phase \in Known
    THEN [p EXCEPT !.phase = event.phase,
                   !.downlink = IF event.phase = "connected" THEN event.content
                                ELSE @]
    ELSE p

Echoes(p, event) == p.phase = "connected" /\ Matches(p, event)
EchoType(p) ==
    IF p.direction = "incoming" THEN "incoming_call_media_downlink"
    ELSE "outgoing_call_media_downlink"

Calls == {"outgoing_call_state", "incoming_call_state"}
Frames == {"outgoing_call_media_uplink", "incoming_call_media_uplink"}

\* What it remembers of a message
Hears(p, event) ==
    CASE event.type = "call_adapter_ready" -> [p EXCEPT !.epoch = event.epoch]
      [] event.type = "network_state" /\ event.epoch = p.epoch ->
           [p EXCEPT !.registered = (event.phase = "registered")]
      [] event.type = "outgoing_call" -> Requested(p, event)
      [] event.type \in Calls -> TakesState(p, event)
      [] event.type \in Frames /\ Echoes(p, event) ->
           [p EXCEPT !.downlink = @ + 1]
      [] OTHER -> p

\* What it says to it
Says(p, event) ==
    CASE event.type = "outgoing_call" ->
           Reply("outgoing_call_decision", event, "connect")
      [] event.type = "outgoing_sms" ->
           Reply("outgoing_sms_decision", event, "accept")
      [] event.type = "outgoing_ussd" ->
           Reply("outgoing_ussd_response", event, "result")
      [] event.type \in Frames /\ Echoes(p, event) ->
           Reply(EchoType(p), event, p.downlink)
      [] OTHER -> <<>>

------------------------------------------------------------------------------
(* connected_session *)

\* incoming_request forgets the call the protocol was in.
Ingresses(p) ==
    IF scenario.ingress = "incoming_call"
    THEN [p EXCEPT !.direction = "incoming", !.id = IngressId,
                   !.phase = "requested", !.downlink = 0]
    ELSE p

Makes(p) == scenario.ingress # "none" /\ p.registered /\ ~session.ingress_sent

\* Only then is the rest of the turn not skipped.
Finished(before, p, event) ==
    \/ event.type \in {"incoming_sms_state", "incoming_ussd_state"}
       /\ event.phase = "delivered"
    \/ p.phase # before.phase /\ p.phase = "ended"

LoopReads ==
    /\ session.open /\ events # <<>> /\ commands = <<>>
    /\ LET event == Head(events)
           heard == Hears(protocol, event)
           said == Says(protocol, event)
       IN
       \/ /\ Makes(heard)
          /\ protocol' = Ingresses(heard)
          /\ commands' = Append(said, Command(scenario.ingress, heard.epoch, IngressId,
                                              "notify"))
          /\ session' = [session EXCEPT !.ingress_sent = TRUE]
          /\ events' = Tail(events) /\ UNCHANGED adapter
       \/ /\ ~Makes(heard) /\ ~Finished(protocol, heard, event)
          /\ protocol' = heard /\ commands' = said
          /\ session' = [session EXCEPT
                !.hangup = @ \/ (scenario.hangs_up /\ heard.phase = "connected"
                                 /\ protocol.phase # "connected")]
          /\ events' = Tail(events) /\ UNCHANGED adapter
       \/ /\ ~Makes(heard) /\ Finished(protocol, heard, event)
          /\ protocol' = heard /\ session' = SessionEnds
          /\ adapter' = [adapter EXCEPT !.connected = FALSE]
          /\ commands' = <<>> /\ events' = <<>>
    /\ UNCHANGED <<phone, peer, voice, history, tick>>

\* The deadline passes: one termination, in the direction of the protocol.
HangsUpCall ==
    /\ session.open /\ session.hangup /\ commands = <<>>
    /\ session' = [session EXCEPT !.hangup = FALSE]
    /\ commands' =
         IF protocol.id = 0 \/ protocol.phase = "ended" THEN <<>>
         ELSE <<Command(IF protocol.direction = "incoming"
                        THEN "incoming_call_terminate"
                        ELSE "outgoing_call_terminate",
                        protocol.epoch, protocol.id, "cause")>>
    /\ UNCHANGED <<devices, events, protocol, tick>>

LoopConnects ==
    /\ Connect /\ ~session.open
    /\ session' = SessionStarts
    /\ UNCHANGED <<protocol, tick>>

LoopDrops ==
    /\ Disconnect
    /\ session' = SessionEnds
    /\ UNCHANGED <<protocol, tick>>

------------------------------------------------------------------------------
(* The whole *)

LoopPolls == Poll /\ tick' = ~tick /\ UNCHANGED <<protocol, session>>

LoopDevice ==
    /\ Handset \/ LinkFails \/ Save \/ Restore \/ Receive
    /\ UNCHANGED <<protocol, session, tick>>

LoopInit ==
    /\ AdapterInit
    /\ protocol = ProtocolStarts /\ session = SessionEnds /\ tick = FALSE

LoopNext ==
    /\ \/ LoopPolls \/ LoopDevice \/ LoopReads \/ HangsUpCall
       \/ LoopConnects \/ LoopDrops
    /\ UNCHANGED scenario

LoopSpec == LoopInit /\ [][LoopNext]_loopVars

\* The timer polls, both ends read what they are sent, the bridge connects
\* again, and connections last long enough for a message and its answer: from
\* some time on no fault ends one.
LiveLoopSpec ==
    /\ LoopSpec
    /\ []<>(Len(events) >= MaxEvents) \/ []<><<tick' # tick>>_loopVars
    /\ \/ []<>~(session.open /\ events # <<>> /\ commands = <<>>)
       \/ []<><<Len(events') < Len(events)>>_loopVars
    /\ []<>(commands = <<>>) /\ []<>session.open
    /\ <>[][~LoopDrops]_loopVars

------------------------------------------------------------------------------
(* Properties *)

SentNow(types) ==
    {commands'[n] : n \in {m \in DOMAIN commands' \ DOMAIN commands :
                             commands'[m].type \in types}}

\* What the handset asks is answered, or no longer asked, even when its
\* announcement or the answer is lost with a connection.
RequestsAreAnswered ==
    /\ (phone.call.pending /\ phone.call.decision = "none")
         ~> ~(phone.call.pending /\ phone.call.decision = "none")
    /\ (phone.sms.pending /\ ~phone.sms.decided)
         ~> ~(phone.sms.pending /\ ~phone.sms.decided)
    /\ (phone.ussd.pending /\ phone.ussd.asking)
         ~> ~(phone.ussd.pending /\ phone.ussd.asking)

\* While no frame of a call was refused for want of room, the bridge counts
\* frames as the handset's peer does, also on a new connection in mid-call and
\* after frames were lost with the old one.
EchoesInStep ==
    /\ session.open /\ ~adapter.republish
    /\ commands = <<>> /\ events = <<>> /\ adapter.queue = <<>>
    /\ protocol.phase = "connected" /\ protocol.epoch = adapter.epoch
    /\ voice.request # 0 /\ protocol.id = voice.request
    => protocol.downlink = voice.downlink

\* A request the adapter has taken is not sent again
\* (docs/external_call_bridge.md).
NeverResends ==
    [][\A command \in SentNow({"incoming_call"}) :
         <<adapter.epoch, adapter.call.id>> # <<command.epoch, command.id>>]_commands

\* What the host says of the handset's own call has the direction of that call.
OwnDirection ==
    [][\A command \in SentNow({"incoming_call_terminate",
                               "incoming_call_media_downlink"}) :
         adapter.call.id = 0 => ~OutgoingCallConnected(phone)]_commands
==============================================================================
