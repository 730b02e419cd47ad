----------------------------- MODULE HostAdapter -----------------------------
(***************************************************************************)
(* nokia_gsm_call_adapter_device with what it uses of the radio and voice  *)
(* peers, over the session HostSession promises: the websocket thread      *)
(* queues the host's commands, the 10 ms timer applies them all in one     *)
(* poll_host and publishes what changed.  The host itself is left to the   *)
(* modules that extend this one; they read events and append to commands.  *)
(*                                                                         *)
(* A poll is one action.  It is written as the composition, in the code's  *)
(* order, of steps on a cycle: a record of the devices' state and the      *)
(* events published so far.                                                *)
(***************************************************************************)
EXTENDS HostSession, SequencesExt

CONSTANTS
    Deadline,        \* host_queue_deadline_ticks
    QueueLimit,      \* MAXIMUM_QUEUED_EVENTS
    FrameDepth,      \* host_queue_depth of the voice peer
    Scenarios,       \* what handsets, hosts and faults may do: see Scenario
    MaxEpoch,        \* bound: resets and restores
    MaxEvents        \* bound: events on the way to the host

Request == {"call", "sms", "ussd"}
Forwarding == {"unconditional", "busy", "no_reply", "not_reachable"}
Fault == {"disconnect", "link", "reset", "restore"}

\* A scenario says what the handset asks for, which forwarding its user may
\* register, whether it makes a call during a call, which faults there are,
\* and bounds its requests of each kind and the speech frames of a call;
\* modules with a host add its part.
ScenarioOK(s) ==
    /\ s.originations \subseteq Request /\ s.forwardings \subseteq Forwarding
    /\ s.second_calls \in BOOLEAN /\ s.faults \subseteq Fault
    /\ s.requests \in RequestId /\ s.frames \in Nat

ASSUME AdapterAssumption ==
    /\ Deadline \in Nat \ {0} /\ QueueLimit \in Nat \ {0}
    /\ FrameDepth \in Nat \ {0}
    /\ \A s \in Scenarios : ScenarioOK(s)
    /\ MaxEpoch \in Nat \ {0} /\ MaxEvents \in Nat \ {0}

VARIABLES
    adapter,   \* nokia_gsm_call_adapter_device
    peer,      \* nokia_radio_peer_device, its host interface
    voice,     \* nokia_gsm_voice_peer_device, its host interface
    commands,  \* sent by the host, not yet received
    events,    \* published, not yet read by the host
    saved,     \* the save states taken: none, or one
    served,    \* history: host services paged, and served, since admitted
    settled,   \* history: a poll has seen the last release
    scenario   \* one of Scenarios, the same for ever

wires == <<commands, events>>
history == <<saved, served, settled>>
devices == <<phone, adapter, peer, voice, history>>
adapterVars == <<devices, wires, scenario>>

Epoch == 1 .. MaxEpoch
Message == {"sms", "ussd"}

\* content is a call decision, a USSD operation or a frame's sequence number.
Command(type, epoch, id, content) ==
    [type |-> type, epoch |-> epoch, id |-> id, content |-> content]

\* content is the media cursor or the sequence number, if there is one.
Event(type, epoch, id, phase, content) ==
    [type |-> type, epoch |-> epoch, id |-> id, phase |-> phase,
     content |-> content]

NoCall ==
    [id |-> 0, page_accepted |-> FALSE, started |-> FALSE,
     connected_once |-> FALSE, ticks |-> 0]
NoMessage == [id |-> 0, ticks |-> 0]
NoneSeen ==
    [connected |-> FALSE, alerting |-> FALSE,
     incoming_connected |-> FALSE, incoming_alerting |-> FALSE]

\* device_reset.  Connections outlive it and learn of the new epoch.
AdapterReset(epoch, connected) ==
    [epoch |-> epoch, connected |-> connected, queue |-> <<>>,
     republish |-> connected, ready_pending |-> connected,
     last_registered |-> FALSE,
     last_request |-> 0, last_sms |-> 0, last_ussd |-> 0, last |-> NoneSeen,
     call |-> NoCall, sms |-> NoMessage, ussd |-> NoMessage]

PeerReset ==
    [registered |-> FALSE, traffic |-> FALSE, forwarding |-> {},
     page_transmitted |-> FALSE, call_pending |-> FALSE,
     sms |-> [pending |-> FALSE, active |-> FALSE],
     ussd |-> [pending |-> FALSE, active |-> FALSE],
     ussd_request |-> FALSE, ussd_reply |-> "awaited"]

VoiceReset ==
    [request |-> 0, uplink |-> 0, unread |-> 0, downlink |-> 0, unplayed |-> 0]

Unserved == [paged |-> {}, served |-> {}]

------------------------------------------------------------------------------
(* The cycle of a poll *)

Cycle(radio) ==
    [a |-> [adapter EXCEPT !.queue = <<>>, !.republish = FALSE,
                           !.ready_pending = FALSE],
     r |-> peer, p |-> phone, v |-> voice, h |-> served,
     out |-> <<>>, seen |-> NoneSeen, forwarded |-> FALSE,
     again |-> adapter.republish, radio |-> radio]

Queued(types) == SelectSeq(adapter.queue, LAMBDA item : item.type \in types)

PublishIf(s, condition, type, id, phase, content) ==
    IF condition /\ s.a.connected
    THEN [s EXCEPT !.out =
            Append(@, Event(type, s.a.epoch, id, phase, content))]
    ELSE s
Publish(s, type, id, phase) == PublishIf(s, TRUE, type, id, phase, 0)

CallsIdle(s) ==
    /\ s.a.call.id = 0
    /\ ~s.p.call.pending
    /\ ~OutgoingCallConnected(s.p) /\ ~OutgoingCallAlerting(s.p)

MessageState(kind) ==
    IF kind = "sms" THEN "incoming_sms_state" ELSE "incoming_ussd_state"

Announce(s) ==
    LET registered == s.r.registered
        ready == PublishIf(s, adapter.ready_pending, "call_adapter_ready", 0,
                           IF CallsIdle(s) THEN "calls_idle" ELSE "calls_busy", 0)
        network == PublishIf(
            [ready EXCEPT !.a.last_registered = registered],
            s.again \/ registered # s.a.last_registered, "network_state", 0,
            IF registered THEN "registered" ELSE "unregistered", 0)
        again(t, kind) == PublishIf(t, s.again /\ s.a[kind].id # 0,
                                    MessageState(kind), s.a[kind].id, "queued", 0)
    IN  again(again(network, "sms"), "ussd")

------------------------------------------------------------------------------
(* Messages to the handset *)

\* queue_host_incoming_sms rearms the page latch; _ussd does not.
PeerAccepts(s, kind) ==
    /\ s.r.registered /\ Idle(s.p)
    /\ ~s.r[kind].pending /\ ~s.r[kind].active
PeerQueues(r, kind, content) ==
    IF kind = "sms"
    THEN [r EXCEPT !.sms.pending = TRUE, !.page_transmitted = FALSE]
    ELSE [r EXCEPT !.ussd.pending = TRUE, !.ussd_reply = "awaited",
                   !.ussd_request = (content = "request")]

AdmitMessage(s, kind, item) ==
    IF item.epoch = s.a.epoch /\ s.a[kind].id = 0 /\ PeerAccepts(s, kind)
    THEN Publish([s EXCEPT !.a[kind] = [id |-> item.id, ticks |-> 0],
                           !.r = PeerQueues(@, kind, item.content),
                           !.h = [paged |-> @.paged \ {kind},
                                  served |-> @.served \ {kind}]],
                 MessageState(kind), item.id, "queued")
    ELSE s

\* terminate_network_ussd, in awaiting_network_ussd_response
AwaitsReply(r, p) ==
    /\ r.ussd.active /\ r.ussd_request /\ r.ussd_reply = "awaited"
    /\ p.stage = "other" /\ p.service = "ussd_request"
TerminateUssd(s, item) ==
    IF /\ item.epoch = s.a.epoch /\ item.id = s.a.ussd.id
       /\ AwaitsReply(s.r, s.p) /\ s.radio.quiet
    THEN [s EXCEPT !.r.ussd_reply = "terminated"]
    ELSE s

TakeUssd(s, item) ==
    IF item.type = "incoming_ussd_terminate" THEN TerminateUssd(s, item)
    ELSE AdmitMessage(s, "ussd", item)
TakeSms(s, item) == AdmitMessage(s, "sms", item)

\* Mutant of Ticked: time does not count.
Untimed(record) == record

Ticked(record) == [record EXCEPT !.ticks = @ + 1]

FinishMessage(s, kind, phase) ==
    Publish([s EXCEPT !.a[kind] = NoMessage],
            MessageState(kind), s.a[kind].id, phase)

Delivered(s, kind) ==
    CASE kind = "sms" \/ ~s.r.ussd_request -> FinishMessage(s, kind, "delivered")
      [] s.r.ussd_reply = "valid" ->
           FinishMessage(Publish(s, "incoming_ussd_response", s.a.ussd.id, "reply"),
                         kind, "answered")
      [] OTHER -> FinishMessage(s, kind, "cancelled")

\* cancel_host_incoming_*, with the session's cancel_queued_incoming_service
CancelQueued(p) == IF p.stage \in {"idle", "paging"} THEN PageCancelled(p) ELSE p
\* Mutant of CancelMessage: the peer is not told.
CancelUnheard(s, kind) == [s EXCEPT !.p = CancelQueued(@)]

CancelMessage(s, kind) ==
    [s EXCEPT !.r[kind].pending = FALSE, !.p = CancelQueued(@)]

Served(r, kind) == ~r[kind].pending /\ ~r[kind].active

MessageProgress(s, kind) ==
    CASE s.a[kind].id = 0 -> s
      [] Served(s.r, kind) -> Delivered(s, kind)
      [] s.r[kind].pending /\ s.a[kind].ticks + 1 >= Deadline ->
           FinishMessage(CancelMessage(s, kind), kind, "expired")
      [] s.r[kind].pending -> [s EXCEPT !.a[kind] = Ticked(@)]
      [] OTHER -> s

------------------------------------------------------------------------------
(* Calls to the handset *)

PublishIncoming(s, phase) ==
    Publish(s, "incoming_call_state", s.a.call.id, phase)

TakeIncomingCall(s, item) ==
    IF /\ item.epoch = s.a.epoch /\ s.a.call.id = 0
       /\ s.p.call.pending => "busy" \in s.r.forwarding
    THEN PublishIncoming([s EXCEPT !.a.call = [NoCall EXCEPT !.id = item.id],
                                   !.h = [paged |-> @.paged \ {"call"},
                                          served |-> @.served \ {"call"}]],
                         "queued")
    ELSE s

Diverted(forwarding, engaged) ==
    \/ "unconditional" \in forwarding
    \/ engaged /\ "busy" \in forwarding

\* queue_host_incoming_call
Entrance(s) ==
    CASE ~s.r.registered \/ s.r.call_pending -> "rejected"
      [] /\ Idle(s.p) /\ ~s.radio.receivable
         /\ "not_reachable" \in s.r.forwarding -> "forwarded"
      [] Diverted(s.r.forwarding, s.radio.engaged) -> "forwarded"
      [] ~Idle(s.p) -> "rejected"
      [] OTHER -> "paging"

EndIncoming(s, phase) ==
    [PublishIncoming(s, phase) EXCEPT !.a.call = NoCall]

\* Mutant of AcceptCall: the page latch is left as the last page set it.
AcceptUnarmed(s) ==
    PublishIncoming([s EXCEPT !.a.call.page_accepted = TRUE,
                              !.a.call.ticks = 0,
                              !.r.call_pending = TRUE], "paging")

AcceptCall(s) ==
    PublishIncoming([s EXCEPT !.a.call.page_accepted = TRUE,
                              !.a.call.ticks = 0,
                              !.r.page_transmitted = FALSE,
                              !.r.call_pending = TRUE], "paging")

CallProgress(s) ==
    CASE s.a.call.id = 0 \/ s.a.call.page_accepted -> s
      [] s.a.call.ticks + 1 >= Deadline ->
           EndIncoming([s EXCEPT !.r.call_pending = FALSE,
                                 !.p = IF s.r.call_pending THEN CancelQueued(@)
                                       ELSE @],
                       "expired")
      [] Entrance(s) = "paging" -> AcceptCall(s)
      [] Entrance(s) = "forwarded" -> EndIncoming(s, "forwarded")
      [] OTHER -> [s EXCEPT !.a.call = Ticked(@)]

RepublishIncoming(s) ==
    IF s.again /\ s.a.call.id # 0 /\ ~s.a.call.started
    THEN PublishIncoming(s, IF s.a.call.page_accepted THEN "paging" ELSE "queued")
    ELSE s

------------------------------------------------------------------------------
(* The host's answers *)

\* Every answer is checked against the epoch, and by the session against its
\* pending request.
\* Mutant of Current: answers of an earlier epoch count.
Whenever(s, item) == TRUE

Current(s, item) == item.epoch = s.a.epoch

TakeDecision(s, item) ==
    IF Current(s, item) /\ AcceptsDecision(s.p, item.id)
    THEN [s EXCEPT !.p = Decide(@, item.content,
            CASE @.stage # "deciding" -> @.stage
              [] @.stage = "deciding" /\ item.content = "busy" -> "other"
              [] OTHER -> s.radio.channel)]
    ELSE s

TakeSmsDecision(s, item) ==
    IF Current(s, item) /\ AcceptsSmsDecision(s.p, item.id)
    THEN Publish([s EXCEPT !.p = DecideSms(@)],
                 "outgoing_sms_state", item.id,
                 IF item.content = "accept" THEN "accepted" ELSE "rejected")
    ELSE s

TakeUssdResponse(s, item) ==
    IF Current(s, item) /\ AcceptsUssdResponse(s.p, item.id)
    THEN Publish([s EXCEPT !.p = AnswerUssd(@)],
                 "outgoing_ussd_state", item.id, "accepted")
    ELSE s

TakeTermination(s, item) ==
    CASE ~Current(s, item) -> s
      [] /\ item.type = "incoming_call_terminate"
         /\ item.id = s.a.call.id /\ AcceptsIncomingTermination(s.p) ->
           [s EXCEPT !.p = TerminateIncoming(@)]
      [] /\ item.type = "outgoing_call_terminate"
         /\ AcceptsOutgoingTermination(s.p, item.id) ->
           [s EXCEPT !.p = TerminateOutgoing(@)]
      [] OTHER -> s

------------------------------------------------------------------------------
(* What the session shows, and the speech path it opens or closes *)

BeginMedia(v, request) ==
    IF request \in {0, v.request} THEN v ELSE [VoiceReset EXCEPT !.request = request]

Observe(s) ==
    LET owned == s.a.call.id # 0
        seen == [connected |-> OutgoingCallConnected(s.p),
                 alerting |-> OutgoingCallAlerting(s.p),
                 incoming_connected |-> owned /\ IncomingCallConnected(s.p),
                 incoming_alerting |-> owned /\ IncomingCallAlerting(s.p)]
        started == owned /\ s.a.call.page_accepted /\ ~Idle(s.p)
    IN  [s EXCEPT
           !.seen = seen,
           !.forwarded = owned /\ s.p.forwarded,
           !.p = IF owned THEN TakeForwarded(@) ELSE @,
           !.a.call.started = @ \/ started,
           !.a.call.connected_once = @ \/ seen.incoming_connected,
           !.v = CASE seen.connected -> BeginMedia(@, s.p.call.id)
                   [] seen.incoming_connected -> BeginMedia(@, s.a.call.id)
                   [] OTHER -> VoiceReset]

\* Mutant of CloseMedia: only while the connection lasts.
CloseMediaInCall(s) ==
    IF Idle(s.p) THEN s ELSE
    LET outgoing == PublishIf(s, s.a.last.connected /\ ~s.seen.connected,
                              "outgoing_call_state", s.p.call.id, "media_closed", 0)
    IN  PublishIf(outgoing,
                  s.a.last.incoming_connected /\ ~s.seen.incoming_connected,
                  "incoming_call_state", s.a.call.id, "media_closed", 0)

CloseMedia(s) ==
    LET outgoing == PublishIf(s, s.a.last.connected /\ ~s.seen.connected,
                              "outgoing_call_state", s.p.call.id, "media_closed", 0)
    IN  PublishIf(outgoing,
                  s.a.last.incoming_connected /\ ~s.seen.incoming_connected,
                  "incoming_call_state", s.a.call.id, "media_closed", 0)

\* submit_host_downlink: the next frame of this call, if there is room
TakeMedia(s, item) ==
    LET owner == IF item.type = "incoming_call_media_downlink"
                 THEN s.a.call.id ELSE s.p.call.id
    IN  IF /\ Current(s, item) /\ item.id = owner
           /\ s.v.request # 0 /\ item.id = s.v.request
           /\ item.content = s.v.downlink /\ s.v.unplayed < FrameDepth
        THEN [s EXCEPT !.v.downlink = @ + 1, !.v.unplayed = @ + 1]
        ELSE s

------------------------------------------------------------------------------
(* What is published of it *)

\* Mutant of PublishRequest: a new connection is not told of it.
PublishOnce(s) ==
    IF s.p.call.pending /\ s.p.call.id # s.a.last_request
    THEN Publish([s EXCEPT !.a.last_request = s.p.call.id],
                 "outgoing_call", s.p.call.id,
                 IF s.p.call.decision = "none" THEN "undecided" ELSE "decided")
    ELSE s

PublishRequest(s) ==
    IF s.p.call.pending /\ (s.again \/ s.p.call.id # s.a.last_request)
    THEN Publish([s EXCEPT !.a.last_request = s.p.call.id],
                 "outgoing_call", s.p.call.id,
                 IF s.p.call.decision = "none" THEN "undecided" ELSE "decided")
    ELSE s

PublishSms(s) ==
    CASE s.p.sms.pending /\ (s.again \/ s.p.sms.id # s.a.last_sms) ->
           Publish([s EXCEPT !.a.last_sms = s.p.sms.id],
                   "outgoing_sms", s.p.sms.id, "undecided")
      [] ~s.p.sms.pending /\ s.a.last_sms # 0 ->
           Publish([s EXCEPT !.a.last_sms = 0],
                   "outgoing_sms_state", s.p.sms.id, "ended")
      [] OTHER -> s

PublishUssd(s) ==
    CASE s.p.ussd.pending /\ (s.again \/ s.p.ussd.id # s.a.last_ussd) ->
           Publish([s EXCEPT !.a.last_ussd = s.p.ussd.id],
                   "outgoing_ussd", s.p.ussd.id, "undecided")
      [] ~s.p.ussd.pending /\ s.a.last_ussd # 0 ->
           Publish([s EXCEPT !.a.last_ussd = 0],
                   "outgoing_ussd_state", s.p.ussd.id, "ended")
      [] OTHER -> s

PublishOutgoing(s) ==
    LET news(now, before) == now /\ (~before \/ s.again)
        type == "outgoing_call_state"
        told == [s EXCEPT !.a.last.connected = s.seen.connected,
                          !.a.last.alerting = s.seen.alerting]
    IN  CASE news(s.seen.connected, s.a.last.connected) ->
               PublishIf(told, TRUE, type, s.p.call.id, "connected", s.v.downlink)
          [] ~news(s.seen.connected, s.a.last.connected)
             /\ news(s.seen.alerting, s.a.last.alerting) ->
               Publish(told, type, s.p.call.id, "alerting")
          [] /\ s.a.last_request # 0 /\ ~s.p.call.pending
             /\ ~s.seen.connected /\ ~s.seen.alerting ->
               Publish([told EXCEPT !.a.last_request = 0],
                       type, s.p.call.id, "ended")
          [] OTHER -> told

\* Mutants of IncomingEnded: without waiting for the call to start, or without
\* noticing that one that was never connected has ended.
EndedWhenIdle(s) ==
    /\ s.a.call.id # 0 /\ s.a.call.page_accepted
    /\ ~s.seen.incoming_connected /\ ~s.seen.incoming_alerting
    /\ Idle(s.p)
EndedAfterConnection(s) ==
    /\ s.a.call.id # 0 /\ s.a.call.started
    /\ ~s.seen.incoming_connected /\ ~s.seen.incoming_alerting
    /\ s.a.call.connected_once /\ ~s.r.traffic

IncomingEnded(s) ==
    /\ s.a.call.id # 0 /\ s.a.call.started
    /\ ~s.seen.incoming_connected /\ ~s.seen.incoming_alerting
    /\ \/ Idle(s.p)
       \/ s.a.call.connected_once /\ ~s.r.traffic

PublishIncomingCall(s) ==
    LET news(now, before) == now /\ (~before \/ s.again)
        told == [s EXCEPT
                   !.a.last.incoming_connected = s.seen.incoming_connected,
                   !.a.last.incoming_alerting = s.seen.incoming_alerting]
        connects == news(s.seen.incoming_connected, s.a.last.incoming_connected)
        alerts == news(s.seen.incoming_alerting, s.a.last.incoming_alerting)
    IN  CASE connects ->
               PublishIf(told, TRUE, "incoming_call_state", s.a.call.id,
                         "connected", s.v.downlink)
          [] ~connects /\ alerts -> PublishIncoming(told, "alerting")
          [] ~connects /\ ~alerts /\ s.forwarded -> EndIncoming(told, "forwarded")
          [] ~connects /\ ~alerts /\ ~s.forwarded /\ IncomingEnded(s) ->
               EndIncoming(told, "ended")
          [] OTHER -> told

PublishUplink(s) ==
    LET type == IF s.v.request = s.a.call.id THEN "incoming_call_media_uplink"
                ELSE "outgoing_call_media_uplink"
        frame(t, sequence) ==
            PublishIf(t, TRUE, type, s.v.request, "frame", sequence)
    IN  IF s.v.request = 0 THEN s
        ELSE [FoldLeft(frame, s, [n \in 1 .. s.v.unread |->
                                    s.v.uplink - s.v.unread + n - 1])
              EXCEPT !.v.unread = 0]

\* poll_host
Polled(radio) ==
    LET announced == Announce(Cycle(radio))
        ussd == MessageProgress(
            FoldLeft(TakeUssd, announced,
                     Queued({"incoming_ussd", "incoming_ussd_terminate"})), "ussd")
        sms == MessageProgress(
            FoldLeft(TakeSms, ussd, Queued({"incoming_sms"})), "sms")
        called == RepublishIncoming(CallProgress(
            FoldLeft(TakeIncomingCall, sms, Queued({"incoming_call"}))))
        decided == FoldLeft(TakeDecision, called,
                            Queued({"outgoing_call_decision"}))
        answered == FoldLeft(TakeUssdResponse,
            FoldLeft(TakeSmsDecision, decided, Queued({"outgoing_sms_decision"})),
            Queued({"outgoing_ussd_response"}))
        heard == FoldLeft(TakeMedia, CloseMedia(Observe(answered)),
            Queued({"incoming_call_media_downlink",
                    "outgoing_call_media_downlink"}))
        terminated == FoldLeft(TakeTermination, heard,
            Queued({"incoming_call_terminate", "outgoing_call_terminate"}))
    IN  PublishUplink(PublishIncomingCall(PublishOutgoing(
            PublishUssd(PublishSms(PublishRequest(terminated))))))

Radio ==
    [channel : IF scenario.second_calls THEN {"assigning", "outgoing_setup"}
               ELSE {"assigning"},
     engaged : IF "busy" \in scenario.forwardings THEN BOOLEAN ELSE {FALSE},
     receivable : IF "not_reachable" \in scenario.forwardings THEN BOOLEAN ELSE {TRUE},
     quiet : IF adapter.ussd.id # 0 THEN BOOLEAN ELSE {TRUE}]

Poll ==
    /\ Len(events) < MaxEvents
    /\ \E radio \in Radio :
         LET s == Polled(radio) IN
         /\ adapter' = s.a /\ peer' = s.r /\ phone' = s.p /\ voice' = s.v
         /\ served' = s.h /\ events' = events \o s.out
    /\ settled' = TRUE
    /\ UNCHANGED <<commands, saved>>

------------------------------------------------------------------------------
(* The websocket thread *)

\* Mutant of Receive: the limit is left to the sender.
ReceiveUnbounded ==
    /\ commands # <<>>
    /\ commands' = Tail(commands)
    /\ adapter' = [adapter EXCEPT !.queue = Append(@, Head(commands))]
    /\ UNCHANGED <<phone, peer, voice, events, history>>

Receive ==
    /\ commands # <<>>
    /\ commands' = Tail(commands)
    /\ adapter' = IF Len(adapter.queue) < QueueLimit
                  THEN [adapter EXCEPT !.queue = Append(@, Head(commands))]
                  ELSE adapter
    /\ UNCHANGED <<phone, peer, voice, events, history>>

Connect ==
    /\ ~adapter.connected
    /\ adapter' = [adapter EXCEPT !.connected = TRUE, !.republish = TRUE,
                                  !.ready_pending = TRUE]
    /\ UNCHANGED <<phone, peer, voice, wires, history>>

\* What is on the way is lost with the connection.
Drops ==
    /\ adapter.connected
    /\ adapter' = [adapter EXCEPT !.connected = FALSE]
    /\ commands' = <<>> /\ events' = <<>>
    /\ UNCHANGED <<phone, peer, voice, history>>

Disconnect == "disconnect" \in scenario.faults /\ Drops

------------------------------------------------------------------------------
(* The handset, the network and the radio peer *)

Registers ==
    /\ ~peer.registered /\ Idle(phone)
    /\ peer' = [peer EXCEPT !.registered = TRUE]
    /\ UNCHANGED <<phone, adapter, voice, wires, history>>

RegistersForwarding ==
    /\ \E condition \in scenario.forwardings \ peer.forwarding :
         peer' = [peer EXCEPT !.forwarding = @ \cup {condition}]
    /\ UNCHANGED <<phone, adapter, voice, wires, history>>

\* The next connection after a release takes signalling of a few hundred
\* milliseconds, in which the 10 ms timer polls: settled.

\* The service the next page is for
PageDue ==
    CASE peer.sms.pending -> {"sms"}
      [] ~peer.sms.pending /\ peer.ussd.pending ->
           {IF peer.ussd_request THEN "ussd_request" ELSE "ussd_notification"}
      [] ~peer.sms.pending /\ ~peer.ussd.pending /\ peer.call_pending -> {"call"}
      [] OTHER -> {}

\* A PCH block: the page of one service takes every pending one with it.
Pages ==
    /\ peer.registered /\ ~peer.page_transmitted /\ settled
    /\ \E service \in PageDue, radio \in Radio :
         LET diverted == service = "call"
                         /\ Diverted(peer.forwarding, radio.engaged)
             sent(queue) == [pending |-> FALSE,
                             active |-> queue.active \/ queue.pending]
         IN
         \/ /\ diverted
            /\ peer' = [peer EXCEPT !.page_transmitted = TRUE,
                                    !.call_pending = FALSE]
            /\ UNCHANGED <<phone, served>>
         \/ /\ ~diverted /\ Idle(phone)
            /\ phone' = Paged(phone, service)
            /\ peer' = [peer EXCEPT !.page_transmitted = TRUE,
                                    !.call_pending = FALSE,
                                    !.sms = sent(@), !.ussd = sent(@)]
            /\ served' = [served EXCEPT !.paged = @ \cup {service}]
    /\ UNCHANGED <<adapter, voice, wires, saved, settled>>

\* Bound: the handset makes few requests, so that no counter wraps.
Asks(request, last) ==
    phone.stage = "other" /\ request \in scenario.originations /\ last.id < scenario.requests

\* Steps of a connection the peer takes no part in, but for the traffic
\* channel it has at the end of an assignment.
CallStep ==
    /\ \/ phone.stage = "paging" /\ phone' = PageAnswered(phone)
       \/ /\ Idle(phone) /\ peer.registered /\ settled /\ scenario.originations # {}
          /\ phone' = Originates(phone, "call" \in scenario.originations)
       \/ /\ Asks("call", phone.call)
          /\ scenario.second_calls \/ (phone.originated /\ ~phone.call.pending)
          /\ phone' = AsksForCall(phone, "none")
       \/ /\ Asks("sms", phone.sms)
          /\ phone.service = "none" /\ ~phone.sms.pending
          /\ phone' = AsksForSms(phone)
       \/ /\ Asks("ussd", phone.ussd)
          /\ phone.service = "none" /\ ~phone.ussd.pending
          /\ phone' = AsksForUssd(phone)
       \/ CallActs
    /\ phone.stage = "other" /\ phone'.stage = "active" => peer.traffic
    /\ peer' = [peer EXCEPT !.traffic =
                  @ \/ (phone.stage = "assigning" /\ phone'.stage # "other")]
    /\ UNCHANGED <<adapter, voice, wires, history>>

DivertsNoReply ==
    /\ "no_reply" \in peer.forwarding
    /\ Reached(phone) /\ phone.ringing
    /\ phone' = DivertsUnanswered(phone)
    /\ UNCHANGED <<adapter, peer, voice, wires, history>>

RepliesToUssd ==
    /\ AwaitsReply(peer, phone)
    /\ peer' = [peer EXCEPT !.ussd_reply = "valid"]
    /\ UNCHANGED <<phone, adapter, voice, wires, history>>

\* The release of a connection.  When the channel goes before the Release is
\* acknowledged the peer only hears of its deconfiguration.
Releases ==
    LET completed == phone.service # "none"
        finished(queue) == [queue EXCEPT !.active = @ /\ ~completed]
        kind == CASE phone.service \in {"ussd_request", "ussd_notification"} -> "ussd"
                  [] OTHER -> phone.service
    IN
    /\ phone.stage = "other" /\ ~phone.ringing
    /\ phone' = Retired(phone, "none", completed)
    /\ \/ peer' = [peer EXCEPT !.sms = finished(@), !.ussd = finished(@),
                               !.page_transmitted = @ \/ completed]
       \/ /\ phone.service = "call" \/ phone.originated
          /\ peer' = [peer EXCEPT !.traffic = FALSE]
    /\ served' = [served EXCEPT !.served = @ \cup {kind}]
    /\ settled' = FALSE
    /\ UNCHANGED <<adapter, voice, wires, saved>>

ChannelReleased ==
    /\ peer.traffic /\ phone.stage \in {"idle", "other"}
    /\ peer' = [peer EXCEPT !.traffic = FALSE]
    /\ UNCHANGED <<phone, adapter, voice, wires, history>>

\* exchange, at each 20 ms block of the traffic channel
Exchange ==
    /\ peer.traffic /\ voice.request # 0 /\ voice.uplink < scenario.frames
    /\ voice' = LET full == voice.unread = FrameDepth IN
                [voice EXCEPT !.uplink = IF full THEN @ ELSE @ + 1,
                              !.unread = IF full THEN @ ELSE @ + 1,
                              !.unplayed = IF @ = 0 THEN 0 ELSE @ - 1]
    /\ UNCHANGED <<phone, adapter, peer, wires, history>>

------------------------------------------------------------------------------
(* Faults *)

\* radio_link_failed resets the session, and through its callback the adapter,
\* but of the peer only the traffic channel.
LinkFails ==
    /\ "link" \in scenario.faults /\ ~Idle(phone) /\ adapter.epoch < MaxEpoch
    /\ phone' = PhoneReset
    /\ adapter' = AdapterReset(adapter.epoch + 1, adapter.connected)
    /\ peer' = [peer EXCEPT !.traffic = FALSE]
    /\ settled' = FALSE
    /\ UNCHANGED <<voice, wires, saved, served>>

MachineReset ==
    /\ "reset" \in scenario.faults /\ adapter.epoch < MaxEpoch
    /\ phone' = PhoneReset
    /\ adapter' = AdapterReset(adapter.epoch + 1, adapter.connected)
    /\ peer' = PeerReset /\ voice' = VoiceReset /\ settled' = FALSE
    /\ UNCHANGED <<wires, saved, served>>

Save ==
    /\ "restore" \in scenario.faults /\ saved = {} /\ adapter.epoch < MaxEpoch
    /\ ~Idle(phone) \/ adapter.call.id # 0 \/ adapter.sms.id # 0
         \/ adapter.ussd.id # 0   \* bound: with nothing under way it is a reset
    /\ saved' = {[phone |-> phone, peer |-> peer, voice |-> voice,
                  adapter |-> adapter, served |-> served]}
    /\ UNCHANGED <<phone, adapter, peer, voice, wires, served, settled>>

\* The save state holds neither the epoch nor what the websocket shares.
Restore ==
    /\ adapter.epoch < MaxEpoch
    /\ \E state \in saved :
         /\ phone' = state.phone /\ peer' = state.peer /\ voice' = state.voice
         /\ served' = state.served
         /\ adapter' = [state.adapter EXCEPT
              !.epoch = adapter.epoch + 1, !.connected = adapter.connected,
              !.queue = <<>>, !.republish = TRUE, !.ready_pending = TRUE,
              !.last_request = 0, !.last_sms = 0, !.last_ussd = 0,
              !.last = NoneSeen]
    /\ settled' = FALSE
    /\ saved' = {}   \* bound: a save state is restored once
    /\ UNCHANGED wires

AdapterInit ==
    /\ phone = PhoneReset /\ peer = PeerReset /\ voice = VoiceReset
    /\ adapter = AdapterReset(1, FALSE)
    /\ commands = <<>> /\ events = <<>> /\ saved = {} /\ served = Unserved
    /\ settled = FALSE /\ scenario \in Scenarios

Handset ==
    \/ Registers \/ RegistersForwarding \/ Pages \/ CallStep \/ DivertsNoReply
    \/ RepliesToUssd \/ Releases \/ ChannelReleased \/ Exchange
------------------------------------------------------------------------------
(* Properties *)

Appended == SubSeq(events', Len(events) + 1, Len(events'))
Publishes(type, phase) ==
    /\ Len(events') > Len(events)
    /\ \E n \in DOMAIN Appended :
          Appended[n].type = type /\ Appended[n].phase = phase

\* Type invariant: what the adapter keeps between two polls.
AdapterTypeOK ==
    /\ TypeOK
    /\ adapter.epoch \in Epoch
    /\ {adapter.connected, adapter.republish, adapter.ready_pending} \subseteq BOOLEAN
    /\ Len(adapter.queue) \in 0 .. QueueLimit
    /\ adapter.call.ticks \in 0 .. Deadline
    /\ \A kind \in Message :
         /\ adapter[kind].ticks \in 0 .. Deadline
         /\ peer[kind] \in [pending : BOOLEAN, active : BOOLEAN]
    /\ voice.unread \in 0 .. FrameDepth /\ voice.unplayed \in 0 .. FrameDepth
    /\ voice.unread <= voice.uplink /\ voice.unplayed <= voice.downlink

\* The adapter and the peer agree on who owns the host's services: nothing is
\* pending or on the air that the adapter would not answer for.
ServicesHaveOwner ==
    /\ peer.call_pending =>
         adapter.call.id # 0 /\ adapter.call.page_accepted
    /\ \A kind \in Message :
         peer[kind].pending \/ peer[kind].active => adapter[kind].id # 0

\* A call the peer took is waiting for its page, or was paged, until the
\* adapter sees it start.
AcceptedCallIsPaged ==
    adapter.call.page_accepted =>
        peer.call_pending \/ "call" \in served.paged

\* A call or a message the peer holds for its page can be paged, whatever was
\* paged and released before it.
CallsAndMessagesAreArmed ==
    peer.call_pending \/ peer.sms.pending => ~peer.page_transmitted

\* What the peer took of the host is paged.
AcceptedIsPaged == AcceptedCallIsPaged /\ CallsAndMessagesAreArmed

\* A service the peer holds for its page can be paged: the page latch is not
\* that of the service before it (nokia_radio_peer.cpp: a fresh host
\* transaction rearms paging).
PendingServiceIsArmed ==
    peer.call_pending \/ peer.sms.pending \/ peer.ussd.pending =>
        ~peer.page_transmitted

\* A call ends for the host only after the handset was paged for it
\* (docs/external_call_bridge.md: one that was not is reported expired).
EndedWasPaged ==
    [][Publishes("incoming_call_state", "ended") => "call" \in served.paged]_events

\* delivered is said of a message that was released after its own service.
DeliveredWasServed ==
    [][/\ Publishes("incoming_sms_state", "delivered") => "sms" \in served.served
       /\ Publishes("incoming_ussd_state", "delivered") => "ussd" \in served.served]_events

\* What is reported of a service happened to that service.
ReportsOwnService == EndedWasPaged /\ DeliveredWasServed

\* Whatever the host queues leaves the queue: paged, refused or expired.
QueuedServicesLeave ==
    /\ (adapter.call.id # 0 /\ ~adapter.call.page_accepted)
         ~> (adapter.call.id = 0 \/ adapter.call.page_accepted)
    /\ \A kind \in Message :
         peer[kind].pending ~> ~peer[kind].pending

\* A call that is over for the session is over for the adapter, unless the
\* session has moved on to another connection.
ClosureIsReported ==
    (adapter.call.started /\ Idle(phone))
        ~> (adapter.call.id = 0 \/ ~Idle(phone))
==============================================================================
