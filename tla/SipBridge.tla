------------------------------ MODULE SipBridge ------------------------------
(***************************************************************************)
(* tools/dct3_sip_bridge.py run without --once or --calls: one process,    *)
(* one loop, one SIP dialog at a time.  A turn of the loop reads at most   *)
(* one event of the handset's adapter, then everything the SIP callbacks   *)
(* have queued, then one frame of the dialog's speech.  The SIP stack and  *)
(* its peer are external: they act between two turns, which is when the    *)
(* loop polls them.                                                        *)
(***************************************************************************)
EXTENDS Naturals, Sequences, SequencesExt

Answer == {"answers", "busy", "fails"}
Caller == {"numbered", "anonymous"}

VARIABLES
    bridge,     \* the locals of bridge()
    endpoint,   \* SipEndpoint, with the native dialog of its call
    events,     \* from the adapter
    commands,   \* to the adapter
    scenario    \* destinations: what a dialled peer does, a subset of Answer;
                \* callers: who calls from the SIP side, a subset of Caller;
                \* calls, speech: bounds on those calls, per process, and on
                \* the speech frames of the dialog

sipVars == <<bridge, endpoint>>

Identity(epoch, id) == <<epoch, id>>
None == <<0, 0>>

\* running is FALSE once an exception has left the loop.
BridgeStarts ==
    [running |-> TRUE, epoch |-> 0, identity |-> None, direction |-> "outgoing",
     decision |-> FALSE, connected |-> FALSE, blocked |-> FALSE,
     restored |-> None, restored_direction |-> "none", registered |-> FALSE,
     downlink |-> 0, uplink |-> 0]

DialogState ==
    {"none", "calling", "cancelling", "ringing", "answered", "confirmed",
     "closing", "closed"}

\* answered and failed are history: the dialled dialogs the peer answered, and
\* those it refused.
EndpointStarts ==
    [dialog |-> "none", owner |-> None, enabled |-> FALSE, next |-> 1,
     events |-> <<>>, downlink |-> 0, received |-> 0,
     answered |-> {}, failed |-> {}]

BridgeStops == [BridgeStarts EXCEPT !.running = FALSE]

\* pj.Call.isActive
Active(e) == e.dialog \in DialogState \ {"none", "closed"}

\* _new_call, and the release of the one before
NewCall(e, identity, dialog) ==
    [e EXCEPT !.dialog = dialog, !.owner = identity, !.downlink = 0, !.received = 0]
Release(e, identity) ==
    IF identity = e.owner
    THEN [e EXCEPT !.dialog = "none", !.owner = None, !.downlink = 0]
    ELSE e
Hangup(e) ==
    CASE e.dialog = "calling" -> [e EXCEPT !.dialog = "cancelling"]
      [] e.dialog \in {"ringing", "answered", "confirmed"} ->
           [e EXCEPT !.dialog = "closing"]
      [] OTHER -> e

SipEvent(identity, phase, status) ==
    [identity |-> identity, phase |-> phase, status |-> status]
Notify(e, phase, status) ==
    [e EXCEPT !.events = Append(@, SipEvent(e.owner, phase, status))]

------------------------------------------------------------------------------
(* What the peer and the stack do while the loop polls them *)

Callback(next) ==
    /\ bridge.running
    /\ endpoint' = next
    /\ UNCHANGED <<bridge, events, commands>>

\* The answer may cross the CANCEL of a hangup.
PeerAnswers ==
    /\ endpoint.dialog \in {"calling", "cancelling"} /\ "answers" \in scenario.destinations
    /\ LET next == IF endpoint.dialog = "calling" THEN "confirmed" ELSE "closing" IN
       Callback(Notify([endpoint EXCEPT !.dialog = next,
                                        !.answered = @ \cup {endpoint.owner}],
                       "confirmed", "ok"))

PeerRefuses ==
    /\ endpoint.dialog = "calling"
    /\ \E status \in scenario.destinations \ {"answers"} :
         Callback(Notify([endpoint EXCEPT !.dialog = "closed",
                                          !.failed = @ \cup {endpoint.owner}],
                         "disconnected", status))

\* BYE, CANCEL, or the end of a hangup
PeerEnds ==
    /\ endpoint.dialog \in DialogState \ {"none", "calling", "closed"}
    /\ Callback(Notify([endpoint EXCEPT !.dialog = "closed"],
                       "disconnected", "fails"))

\* ACK of the 200
PeerAcknowledges ==
    /\ endpoint.dialog = "answered"
    /\ Callback(Notify([endpoint EXCEPT !.dialog = "confirmed"], "confirmed", "ok"))

\* onIncomingCall.  A caller without a number gets 484; while the handset
\* cannot take the call it gets 486, which changes nothing here.
PeerCalls ==
    /\ endpoint.enabled /\ ~Active(endpoint) /\ endpoint.next <= scenario.calls
    /\ LET identity == Identity(bridge.epoch, endpoint.next) IN
       \/ /\ "anonymous" \in scenario.callers
          /\ endpoint.events = <<>>   \* bound: one such caller between turns
          /\ Callback(NewCall(endpoint, identity, "closing"))
       \/ /\ "numbered" \in scenario.callers
          /\ Callback(Notify([NewCall(endpoint, identity, "ringing") EXCEPT
                             !.next = @ + 1, !.enabled = FALSE],
                          "invite", "caller"))

PeerSpeaks ==
    /\ endpoint.dialog = "confirmed"
    /\ endpoint.downlink = 0 /\ endpoint.received < scenario.speech
    /\ Callback([endpoint EXCEPT !.downlink = 1, !.received = @ + 1])

------------------------------------------------------------------------------
(* A turn of the loop, on a state s of its locals, the endpoint and the    *)
(* messages sent so far                                                    *)

TurnStarts == [b |-> bridge, e |-> endpoint, sent |-> <<>>, skips |-> FALSE]

Send(s, type, identity, content) ==
    [s EXCEPT !.sent = Append(@, [type |-> type, epoch |-> identity[1],
                                  id |-> identity[2], content |-> content])]

Terminate(s, direction, identity) ==
    Send(s, IF direction = "outgoing" THEN "outgoing_call_terminate"
            ELSE "incoming_call_terminate", identity, "cause")

\* failure_messages: no_answer suppresses CONNECT but does not clear the call
Refuse(s, identity, status) ==
    IF status = "busy"
    THEN Send(s, "outgoing_call_decision", identity, "busy")
    ELSE Terminate(Send(s, "outgoing_call_decision", identity, "no_answer"),
                   "outgoing", identity)

Skip(s) == [s EXCEPT !.skips = TRUE]

\* The identity and what hangs on it
LetGo(b) == [b EXCEPT !.identity = None, !.connected = FALSE,
                      !.decision = FALSE, !.uplink = 0]

Admits(b) == b.registered /\ b.identity = None /\ ~b.blocked

\* Mutant of Frees: also while the bridge has another call.
FreesAlways(b, enabled) == b.registered /\ ~b.blocked

\* Whether callers are taken once a dialog is gone
Frees(b, enabled) == IF b.identity = None THEN Admits(b) ELSE enabled

\* Mutant of Blocks: only a first snapshot matters.
BlocksFirst(b, event) == b.epoch = 0 /\ event.phase # "calls_idle"

\* A restarted bridge, or one whose machine was restored, clears the calls it
\* has no dialog for.
Blocks(b, event) == event.phase # "calls_idle"

TakeReady(s, event) ==
    LET renewed == s.b.epoch # 0 /\ s.b.epoch # event.epoch
        known == IF renewed THEN [LetGo(s.b) EXCEPT !.restored = None] ELSE s.b
    IN  [s EXCEPT
           !.b = [known EXCEPT
                    !.epoch = event.epoch, !.registered = FALSE,
                    !.blocked = IF s.b.epoch # event.epoch
                                THEN Blocks(s.b, event) ELSE @],
           !.e = [IF renewed THEN Hangup(@) ELSE @ EXCEPT !.enabled = FALSE]]

TakeNetworkState(s, event) ==
    LET b == [s.b EXCEPT !.registered = (event.phase = "registered")]
    IN  [s EXCEPT !.b = b, !.e.enabled = Admits(b)]

Remember(s, identity, direction) ==
    [s EXCEPT !.b.restored = identity, !.b.restored_direction = direction]

TakeOutgoingCall(s, event) ==
    LET identity == Identity(event.epoch, event.id)
        restored == Remember(s, identity, "outgoing")
    IN  CASE s.b.blocked /\ s.b.restored # None -> Skip(s)
          [] s.b.blocked /\ s.b.restored = None ->
               IF event.phase = "undecided" THEN Refuse(restored, identity, "fails")
               ELSE Terminate(restored, "outgoing", identity)
          [] ~s.b.blocked /\ s.b.identity = None ->
               [s EXCEPT !.b.identity = identity, !.b.direction = "outgoing",
                         !.e = [NewCall(@, identity, "calling") EXCEPT
                                  !.enabled = FALSE]]
          [] OTHER -> s

\* Without a call object to answer the loop ends with an exception.  The stack
\* is taken to ignore the answer of a dialog its peer has just ended.
AnswerDialog(s) ==
    CASE s.e.dialog = "ringing" -> [s EXCEPT !.e.dialog = "answered"]
      [] s.e.dialog = "none" -> [s EXCEPT !.b.running = FALSE]
      [] OTHER -> s

TakeConnected(s, event) ==
    LET open == [s EXCEPT !.b.connected = TRUE, !.b.downlink = event.content]
    IN  IF s.b.direction = "incoming" /\ ~s.b.decision
        THEN AnswerDialog([open EXCEPT !.b.decision = TRUE])
        ELSE open

\* Mutant of TakeEnded: the other end is not told.
EndSilently(s) ==
    LET b == LetGo(s.b) IN [s EXCEPT !.b = b, !.e.enabled = Admits(b)]

TakeEnded(s) ==
    LET b == LetGo(s.b)
    IN  [s EXCEPT !.b = b, !.e = [Hangup(@) EXCEPT !.enabled = Admits(b)]]

OwnCall(b, identity, direction) == identity = b.identity /\ direction = b.direction

\* Mutant of ReleaseGuard: only the call is forgotten.
ForgetRestored(s) ==
    [s EXCEPT !.b.restored = None, !.b.restored_direction = "none"]

ReleaseGuard(s) ==
    LET b == [s.b EXCEPT !.blocked = FALSE, !.restored = None,
                         !.restored_direction = "none"]
    IN  [s EXCEPT !.b = b, !.e.enabled = Admits(b)]

Final(phase) == phase \in {"ended", "expired"}

\* Other phases, alerting, paging and forwarded among them, are not handled.
TakeCallState(s, event, direction) ==
    LET identity == Identity(event.epoch, event.id)
        ended == event.phase = "ended"
        taken ==
          CASE ~OwnCall(s.b, identity, direction) -> s
            [] event.phase = "connected" -> TakeConnected(s, event)
            [] event.phase = "media_closed" -> [s EXCEPT !.b.connected = FALSE]
            [] Final(event.phase) -> TakeEnded(s)
            [] OTHER -> s
    IN  CASE s.b.blocked /\ ~ended /\ s.b.restored # None -> Skip(s)
          [] s.b.blocked /\ ~ended /\ s.b.restored = None ->
               Terminate(Remember(s, identity, direction), direction, identity)
          [] s.b.blocked /\ ended /\ identity = s.b.restored
             /\ direction = s.b.restored_direction -> ReleaseGuard(taken)
          [] OTHER -> taken

TakeUplink(s, event, direction) ==
    IF /\ direction = s.b.direction /\ s.b.connected
       /\ Identity(event.epoch, event.id) = s.b.identity
       /\ event.content >= s.b.uplink
    THEN [s EXCEPT !.b.uplink = event.content + 1] ELSE s

TakeEvent(s, event) ==
    CASE event.type = "call_adapter_ready" -> TakeReady(s, event)
      [] event.type # "call_adapter_ready" /\ event.epoch # s.b.epoch -> s
      [] event.epoch = s.b.epoch /\ event.type = "network_state" ->
           TakeNetworkState(s, event)
      [] event.epoch = s.b.epoch /\ event.type = "outgoing_call" ->
           TakeOutgoingCall(s, event)
      [] event.epoch = s.b.epoch /\ event.type = "outgoing_call_state" ->
           TakeCallState(s, event, "outgoing")
      [] event.epoch = s.b.epoch /\ event.type = "incoming_call_state" ->
           TakeCallState(s, event, "incoming")
      [] event.epoch = s.b.epoch /\ event.type = "outgoing_call_media_uplink" ->
           TakeUplink(s, event, "outgoing")
      [] event.epoch = s.b.epoch /\ event.type = "incoming_call_media_uplink" ->
           TakeUplink(s, event, "incoming")
      [] OTHER -> s

\* What the callbacks queued
Invites(s, item) ==
    IF s.b.identity = None /\ ~s.b.blocked
    THEN Send([s EXCEPT !.b.identity = item.identity, !.b.direction = "incoming"],
              "incoming_call", item.identity, "caller")
    ELSE s

Confirms(s, item) ==
    IF s.b.direction = "incoming" \/ s.b.decision THEN s
    ELSE Send([s EXCEPT !.b.decision = TRUE],
              "outgoing_call_decision", s.b.identity, "connect")

Disconnects(s, item) ==
    LET closed == [s EXCEPT !.b.connected = FALSE]
    IN  IF s.b.decision \/ s.b.direction = "incoming"
        THEN Terminate(closed, s.b.direction, s.b.identity)
        ELSE Refuse([closed EXCEPT !.b.decision = TRUE], s.b.identity, item.status)

\* Mutant of ConcernsCall: of whichever call.
ConcernsAny(b, identity) == b.identity # None /\ ~b.blocked

ConcernsCall(b, identity) == identity = b.identity /\ ~b.blocked

TakeSipEvent(s, item) ==
    LET left == [s EXCEPT !.e = [Release(@, item.identity) EXCEPT
                                   !.enabled = Frees(s.b, @)]]
    IN  CASE item.phase = "invite" -> Invites(s, item)
          [] item.phase = "confirmed" ->
               IF ConcernsCall(s.b, item.identity) THEN Confirms(s, item) ELSE s
          [] item.phase = "disconnected" ->
               IF ConcernsCall(s.b, item.identity) THEN Disconnects(left, item)
               ELSE left

DrainSipEvents(s) ==
    IF s.skips \/ ~s.b.running THEN s
    ELSE FoldLeft(TakeSipEvent, [s EXCEPT !.e.events = <<>>], s.e.events)

SendMedia(s) ==
    IF s.skips \/ ~s.b.running \/ ~s.b.connected \/ s.e.downlink = 0 THEN s
    ELSE Send([s EXCEPT !.b.downlink = @ + 1, !.e.downlink = 0],
              IF s.b.direction = "outgoing" THEN "outgoing_call_media_downlink"
              ELSE "incoming_call_media_downlink", s.b.identity, s.b.downlink)

\* What the adapter sent may not have arrived when the turn asks for it.
\* Bound: a turn starts with nothing of the turn before on the wire.
TurnOf(read, rest) ==
    /\ bridge.running /\ commands = <<>>
    /\ LET s == SendMedia(DrainSipEvents(read)) IN
       bridge' = s.b /\ endpoint' = s.e /\ commands' = s.sent
    /\ events' = rest

Reads ==
    /\ events # <<>>
    /\ TurnOf(TakeEvent(TurnStarts, Head(events)), Tail(events))

Attends ==
    /\ endpoint.events # <<>> \/ (bridge.connected /\ endpoint.downlink # 0)
    /\ TurnOf(TurnStarts, events)

BridgeInit == bridge = BridgeStops /\ endpoint = EndpointStarts

Peer ==
    \/ PeerAnswers \/ PeerRefuses \/ PeerEnds \/ PeerAcknowledges
    \/ PeerCalls \/ PeerSpeaks

Turn == Reads \/ Attends
==============================================================================
