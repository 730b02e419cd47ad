-------------------------- MODULE DedicatedChannel --------------------------
(***************************************************************************)
(* One dedicated channel from end to end: the report phases in which       *)
(* nokia_radio_peer_device serves a handset, with the LAPDm device it      *)
(* drives, between the session's pending message on one side and the       *)
(* handset's LAPDm on the other.                                           *)
(*                                                                         *)
(* The peer speaks in reports, which go into the RX ring of the DSP        *)
(* interface: 80 carries a downlink block, 86 asks for an uplink block, 89 *)
(* confirms a channel change.  The handset takes them in order and answers *)
(* with SEND_BLOCK packets, each handled at once (receive_packet).         *)
(*                                                                         *)
(* A message is the sequence of its segments, a segment what one I frame   *)
(* carries (20 octets); <<n, k>> is segment k of message n of its          *)
(* direction.  SAPI 1 stands for SAPI 3.  What the session and the handset *)
(* say is a script of the scenario, when they say it is open.  Handover,   *)
(* mm_information_settle_ticks and the SACCH of the TCH are left out.      *)
(***************************************************************************)
EXTENDS Naturals, Sequences

CONSTANTS
    LinkCount, SeqModulus, T200, N200, MaxLayer3, Segment, PollBits,
    Scenarios,   \* what the two ends say and what may go wrong
    RingLength,  \* bound: reports the RX ring has room for
    FillWait     \* m_wait_ticks after a fill block, 100 in the code

ASSUME ChannelAssumption ==
    LinkCount = 2 /\ RingLength \in Nat \ {0} /\ FillWait \in Nat

VARIABLES
    scenario,  \* never changes
    lapdm,     \* nokia_lapdm_link_device
    peer,      \* members of nokia_radio_peer_device
    session,   \* the session as the peer sees it, and what it was told
    ring,      \* the RX ring: reports the handset has not taken yet
    handset,   \* the handset's LAPDm and Layer 3
    faults     \* blocks lost, connections begun

vars == <<scenario, lapdm, peer, session, ring, handset, faults>>

Link == INSTANCE LapdmLink WITH ua_due <- <<>>

Sapi == 0 .. LinkCount - 1

\* What the emulated memory behind a message holds (2699: the offset of
\* another message).
BeyondMessage == <<0, 0>>

Body(n, length) == [k \in 1 .. length |-> <<n, k>>]

------------------------------------------------------------------------------
(* The session: one pending message; acknowledgements and messages it gets *)

NoMessage == [kind |-> "none", sapi |-> 0, body |-> <<>>]
Establishment == [kind |-> "sapi3_establishment", sapi |-> 1, body |-> <<>>]

NewSession ==
    [pending |-> NoMessage,   \* m_pending_downlink
     idle |-> FALSE,          \* idle()
     expects_sapi3 |-> FALSE, \* awaiting_mobile_sms_sapi3()
     sapi3 |-> FALSE,         \* SAPI 3 was established for its messages
     given |-> 0,             \* messages queued so far
     acknowledged |-> 0,      \* the last of them it was told of
     heard |-> <<>>]          \* messages received

Pending(s) == s.pending.kind # "none"

MayQueue(s) ==
    /\ s.given < Len(scenario.down)
    /\ Len(s.heard) >= scenario.down[s.given + 1].after
    /\ ~s.idle
    /\ ~Pending(s)

\* queue_downlink of the next message, behind the establishment of its SAPI.
Queue(s) ==
    LET n == s.given + 1
        m == scenario.down[n]
    IN  IF m.sapi = 1 /\ ~s.sapi3
        THEN [s EXCEPT !.pending = Establishment]
        ELSE [s EXCEPT
                !.pending = [kind |-> m.kind, sapi |-> m.sapi,
                             body |-> Body(n, m.length)],
                !.given = n]

\* What a handler of the session leaves: it answers at once or not.
Answered(s) == IF MayQueue(s) THEN {s, Queue(s)} ELSE {s}

\* downlink_acknowledged(): the pending message counts as delivered.
Acknowledged(s) ==
    LET kind == s.pending.kind
        told == [s EXCEPT !.pending = NoMessage, !.acknowledged = s.given]
    IN  CASE kind = "none" -> {s}
          [] kind = "sapi3_establishment" -> {Queue([s EXCEPT !.sapi3 = TRUE])}
          [] kind = "channel_release" -> {[told EXCEPT !.idle = TRUE]}
          [] kind = "location_update_accept" -> {Queue(told)}
          [] kind = "authentication_request" -> {told}
          [] kind = "cm_service_accept" ->
               {[told EXCEPT !.expects_sapi3 = scenario.mobile_sapi3]}
          [] OTHER -> Answered(told)

\* receive_layer3().
Hears(s, content) ==
    LET n == Len(s.heard) + 1
        told == [s EXCEPT !.heard = Append(@, content)]
    IN  IF n \in DOMAIN scenario.up /\ scenario.up[n].kind = "release_complete"
        THEN {[told EXCEPT !.idle = TRUE, !.pending = NoMessage]}
        ELSE Answered(told)

------------------------------------------------------------------------------
(* The peer's phases *)

\* The phases whose report carries a UA.
UaPhases ==
    {"contention_resolution", "service_sapi3_contention_resolution",
     "traffic_contention_resolution"}
DownlinkPhases ==
    {"contention_resolution", "location_update_accept", "rr_channel_release",
     "service_downlink", "service_uplink_acknowledgement",
     "service_sapi3_contention_resolution", "traffic_contention_resolution",
     "traffic_release_acknowledgement"}
RequestPhases ==
    {"lapdm_establish", "location_update_ack_request",
     "channel_release_uplink_request", "service_uplink_request",
     "traffic_lapdm_establish"}

\* next_report_type
ReportType(phase) ==
    CASE phase \in DownlinkPhases -> "80"
      [] phase \in RequestPhases -> "86"
      [] phase = "traffic_channel_change" -> "89"
      [] OTHER -> "87"

PhaseWaits(p) ==
    /\ p.phase \in {"service_downlink", "service_uplink_request"}
    /\ p.wait_ticks # 0

\* set_phase with one report, due at the next tick but one.
Report(p, phase) ==
    [p EXCEPT !.phase = phase, !.reports_remaining = 1,
              !.report_deferred = TRUE]
ReportAtOnce(p, phase) == [Report(p, phase) EXCEPT !.wait_ticks = 0]
Await(p, phase) == [p EXCEPT !.phase = phase, !.reports_remaining = 0]

EnterReleaseDeconfigure(p) == Await(p, "release_deconfigure")

\* The network side as one record, so that a handler can chain its calls.
Side == [lapdm |-> lapdm, peer |-> peer, session |-> session]

With(n, s, p) == [n EXCEPT !.session = s, !.peer = p]

------------------------------------------------------------------------------
(* An uplink block in a service phase *)

\* acknowledge_downlink
Acknowledges(n) ==
    {[n EXCEPT !.session = s, !.peer.downlink_offset = 0] :
        s \in Acknowledged(n.session)}

NextSegment(n) == [n EXCEPT !.peer.downlink_offset = @ + 1]

SegmentationPending(n) ==
    n.lapdm.link[n.lapdm.sapi].downlink_segmentation_pending

\* Mutant of TakesAcknowledgement: a piggybacked N(R) is not looked at.
IgnoresAcknowledgement(n) == {n}

\* What an I frame that completes a message says of the frame outstanding.
TakesAcknowledgement(n) ==
    IF n.lapdm.last_downlink_acknowledged
    THEN IF SegmentationPending(n) THEN {NextSegment(n)} ELSE Acknowledges(n)
    ELSE {n}

OnInformation(n) ==
    {With(m, s, ReportAtOnce(m.peer,
        IF s.pending.kind \in {"none", "sapi3_establishment"}
        THEN "service_uplink_acknowledgement" ELSE "service_downlink")) :
     <<m, s>> \in UNION {{<<a, s>> : s \in Hears(a.session,
                                               a.lapdm.layer3_information)} :
                        a \in TakesAcknowledgement(n)}}

\* The first segments of a message: nothing is acknowledged here (2343-2350).
OnSegment(n) ==
    {[n EXCEPT !.peer = ReportAtOnce(@, "service_uplink_acknowledgement")]}

OnEstablished(n) ==
    {[m EXCEPT !.peer = IF Pending(m.session)
                        THEN ReportAtOnce(@, "service_downlink")
                        ELSE Report(@, "service_uplink_request")] :
       m \in Acknowledges(n)}

OnSapi3(n) ==
    {With(n, [n.session EXCEPT !.expects_sapi3 = FALSE, !.sapi3 = TRUE],
          ReportAtOnce(n.peer, "service_sapi3_contention_resolution"))}

ExpectSapi3(l, s) ==
    IF s.expects_sapi3 THEN Link!BeginMobileEstablishment(l, 1) ELSE l

OnAcknowledgement(n) ==
    IF SegmentationPending(n)
    THEN {[NextSegment(n) EXCEPT !.peer = Report(@, "service_downlink")]}
    ELSE {CASE m.session.idle ->
                 [m EXCEPT !.peer = EnterReleaseDeconfigure(@)]
            [] ~m.session.idle /\ Pending(m.session) ->
                 [m EXCEPT !.peer = ReportAtOnce(@, "service_downlink")]
            [] OTHER ->
                 [m EXCEPT
                    !.peer = [Report(@, "service_uplink_request") EXCEPT
                                !.followup = n.session.pending.kind =
                                               "incoming_call_setup"],
                    !.lapdm = ExpectSapi3(@, m.session)] :
          m \in Acknowledges(n)}

OnRelease(n) ==
    {[n EXCEPT !.peer = ReportAtOnce(@, "traffic_release_acknowledgement")]}

OnFill(n) ==
    {[n EXCEPT !.peer = [Report(@, "service_uplink_request") EXCEPT
                           !.followup = TRUE, !.wait_ticks = FillWait]]}

ServiceUplink(was, f) ==
    LET o == Link!ReceiveUplink(was.lapdm, f)
        n == [was EXCEPT !.lapdm = o.lapdm]
    IN  CASE o.result = "information_indication" -> OnInformation(n)
          [] o.result = "information_segment" -> OnSegment(n)
          [] o.result = "establish_confirmation" -> OnEstablished(n)
          [] o.result = "downlink_acknowledgement" -> OnAcknowledgement(n)
          [] o.result = "release_indication" -> OnRelease(n)
          [] /\ o.result = "establish_indication"
             /\ f.sapi = 1 /\ n.session.expects_sapi3 -> OnSapi3(n)
          [] OTHER -> OnFill(n)

------------------------------------------------------------------------------
(* receive_packet: the blocks of the phases before and beside the service  *)

OnEstablishment(was, f) ==
    LET o == Link!ReceiveUplink(was.lapdm, f)
        n == [was EXCEPT !.lapdm = o.lapdm]
    IN  IF o.result = "establish_indication"
        THEN {[n EXCEPT !.session.heard = Append(@, f.info),
                        !.peer = Report(@, "contention_resolution")]}
        ELSE {n}

\* Mutant of OnLocationAcknowledgement: the request stays unanswered.
OnLocationAcknowledgementOnly(was, f) ==
    {[was EXCEPT !.lapdm = Link!ReceiveUplink(was.lapdm, f).lapdm]}

OnLocationAcknowledgement(was, f) ==
    LET o == Link!ReceiveUplink(was.lapdm, f)
        n == [was EXCEPT !.lapdm = o.lapdm]
        kind == was.session.pending.kind
    IN  IF o.result # "downlink_acknowledgement" THEN {n}
        ELSE {[n EXCEPT
                 !.session = s,
                 !.peer = IF s.pending.kind = "channel_release"
                          THEN Report(@, "rr_channel_release")
                          ELSE IF kind = "authentication_request"
                          THEN Report(@, "service_uplink_request") ELSE @] :
                s \in Acknowledged(n.session)}

OnReleaseAcknowledgement(was, f) ==
    LET o == Link!ReceiveUplink(was.lapdm, f)
        n == [was EXCEPT !.lapdm = o.lapdm]
    IN  IF o.result # "downlink_acknowledgement" THEN {n}
        ELSE {[n EXCEPT !.session = s,
                        !.peer = IF s.idle THEN EnterReleaseDeconfigure(@)
                                 ELSE @] :
                s \in Acknowledged(n.session)}

OnTrafficEstablishment(was, f) ==
    LET o == Link!ReceiveUplink(was.lapdm, f)
        n == [was EXCEPT !.lapdm = o.lapdm]
    IN  IF o.result = "establish_indication"
        THEN {[n EXCEPT !.peer = [Report(@, "traffic_contention_resolution")
                                    EXCEPT !.traffic_channel_active = TRUE]]}
        ELSE {n}

ServesUplink(p) ==
    \/ p.phase = "service_uplink_wait"
    \/ /\ p.traffic_channel_active
       /\ p.phase \in {"service_downlink", "service_uplink_request",
                       "service_uplink_acknowledgement"}

\* SEND_BLOCK: what is not expected in the present phase is dropped.
ReceiveBlock(n, f) ==
    CASE ServesUplink(n.peer) -> ServiceUplink(n, f)
      [] n.peer.phase = "lapdm_establish" -> OnEstablishment(n, f)
      [] n.peer.phase = "location_update_acknowledgement" ->
           OnLocationAcknowledgement(n, f)
      [] n.peer.phase = "channel_release_acknowledgement" ->
           OnReleaseAcknowledgement(n, f)
      [] n.peer.phase = "traffic_lapdm_establish" ->
           OnTrafficEstablishment(n, f)
      [] OTHER -> {n}

\* CHANNEL_CONFIGURE for the assigned TCH, and begin_traffic_assignment.
ReceiveConfiguration(n) ==
    IF /\ n.peer.phase \in {"service_uplink_request", "service_uplink_wait",
                            "service_uplink_acknowledgement"}
       /\ ~n.peer.traffic_channel_active
    THEN [n EXCEPT
            !.lapdm = Link!BeginMobileEstablishment(@, 0),
            !.session = [@ EXCEPT !.pending = NoMessage,
                                  !.acknowledged = n.session.given],
            !.peer = ReportAtOnce(@, "traffic_channel_change")]
    ELSE n

------------------------------------------------------------------------------
(* tick(): promotion, then the report that is due *)

Promotes(n) ==
    LET m == n.session.pending
        c == n.lapdm.link[m.sapi]
        busy == n.peer.traffic_channel_active
        disconnects == m.kind = "call_disconnect"
    IN  /\ \/ n.peer.phase = "service_uplink_request" /\ (busy \/ disconnects)
           \/ n.peer.phase = "service_uplink_wait" /\ (~busy \/ disconnects)
        /\ Pending(n.session)
        /\ ~c.downlink_acknowledgement_pending
        /\ ~c.awaiting_establishment

Promote(n) ==
    IF Promotes(n)
    THEN [n EXCEPT !.peer = ReportAtOnce(@, "service_downlink")] ELSE n

\* The block of service_downlink (2678-2708).
BuildMessage(n) ==
    LET m == n.session.pending
        offset == n.peer.downlink_offset
        info == IF offset < Len(m.body) THEN <<m.body[offset + 1]>>
                ELSE <<BeyondMessage>>
    IN  IF m.kind = "sapi3_establishment"
        THEN Link!BuildSabmCommand(n.lapdm, 1)
        ELSE Link!BuildInformationFrame(n.lapdm, m.sapi, info,
                                        offset + 1 < Len(m.body))

\* Location Updating Accept and Channel Release go out unsegmented.
BuildRegistration(n) ==
    Link!BuildInformationFrame(n.lapdm, 0, n.session.pending.body, FALSE)

Build(n) ==
    LET phase == n.peer.phase
    IN  CASE n.peer.retransmission_queued -> Link!TakeRetransmission(n.lapdm)
          [] ~n.peer.retransmission_queued /\ phase \in UaPhases ->
               Link!BuildUa(n.lapdm)
          [] ~n.peer.retransmission_queued
             /\ phase \in {"location_update_accept", "rr_channel_release"} ->
               BuildRegistration(n)
          [] ~n.peer.retransmission_queued /\ phase = "service_downlink" ->
               BuildMessage(n)
          [] ~n.peer.retransmission_queued
             /\ phase = "service_uplink_acknowledgement" ->
               Link!BuildReceiveReady(n.lapdm, n.lapdm.sapi)
          [] OTHER -> Link!BuildReleaseUa(n.lapdm)

AwaitsSapi3(n) ==
    /\ n.session.pending.kind = "sapi3_establishment"
    /\ n.lapdm.link[1].awaiting_establishment

\* contention_resolution_delivered(): the session queues its first message.
OnContentionResolved(n) ==
    LET s == Queue(n.session)
        phase == CASE s.pending.kind = "channel_release" -> "rr_channel_release"
                   [] s.pending.kind # "channel_release"
                      /\ scenario.registration -> "location_update_accept"
                   [] OTHER -> "service_downlink"
    IN  With(n, s, Report(n.peer, phase))

\* advance_after_report; a report of another type than its phase's does not
\* exist, since next_report_type looks at the phase alone.
AdvanceAfterReport(n) ==
    LET p == n.peer
        To(q) == [n EXCEPT !.peer = q]
    IN  CASE p.phase = "contention_resolution" -> OnContentionResolved(n)
          [] p.phase = "location_update_accept" ->
               To(Report(p, "location_update_ack_request"))
          [] p.phase = "location_update_ack_request" ->
               To(Await(p, "location_update_acknowledgement"))
          [] p.phase = "rr_channel_release" ->
               To(Report(p, "channel_release_uplink_request"))
          [] p.phase = "channel_release_uplink_request" ->
               To(Await(p, "channel_release_acknowledgement"))
          [] p.phase \in {"service_downlink", "traffic_contention_resolution",
                          "service_sapi3_contention_resolution"} ->
               To(Report(p, "service_uplink_request"))
          [] p.phase = "service_uplink_request" /\ p.followup ->
               To([Report(p, "service_uplink_acknowledgement")
                     EXCEPT !.followup = FALSE])
          [] p.phase = "service_uplink_request" /\ ~p.followup ->
               To(Await(p, "service_uplink_wait"))
          [] p.phase = "service_uplink_acknowledgement" /\ n.session.idle ->
               To(EnterReleaseDeconfigure(p))
          [] p.phase = "service_uplink_acknowledgement" /\ ~n.session.idle ->
               To(Report(p, IF Pending(n.session) /\ ~AwaitsSapi3(n)
                            THEN "service_downlink"
                            ELSE "service_uplink_request"))
          [] p.phase = "traffic_channel_change" ->
               To(Await(p, "traffic_lapdm_establish"))
          [] p.phase = "traffic_release_acknowledgement" ->
               To(EnterReleaseDeconfigure(p))
          [] OTHER -> n

\* emit_report: the block is built, and its state changes made, before the
\* ring is found to be full; the report is then due again.
Emit(n) ==
    LET type == ReportType(n.peer.phase)
        sending == IF type = "80" THEN Build(n) ELSE Link!Sending(n.lapdm, Link!Fill)
        built == [n EXCEPT
                    !.lapdm = sending.lapdm,
                    !.peer.retransmission_queued = @ /\ type # "80"]
        counted == [built EXCEPT !.peer.reports_remaining = @ - 1]
    IN  IF Len(ring) = RingLength
        THEN [side |-> built, reports |-> <<>>]
        ELSE [side |-> AdvanceAfterReport(counted),
              reports |-> <<[type |-> type, frame |-> sending.frame]>>]

CountDown(p) ==
    IF p.reports_remaining # 0 /\ PhaseWaits(p)
    THEN [p EXCEPT !.wait_ticks = @ - 1] ELSE p

Ticked(was) ==
    LET n == [Promote(was) EXCEPT !.peer = CountDown(@)]
        p == n.peer
    IN  CASE p.report_deferred ->
               [side |-> [n EXCEPT !.peer.report_deferred = FALSE],
                reports |-> <<>>]
          [] /\ ~p.report_deferred
             /\ p.reports_remaining # 0 /\ ~PhaseWaits(p) -> Emit(n)
          [] OTHER -> [side |-> n, reports |-> <<>>]

\* burst_tick: T200 and N200.
Expired(n, e) ==
    CASE e.kind = "none" -> [n EXCEPT !.lapdm = e.lapdm]
      [] e.kind = "retransmission" ->
           [n EXCEPT !.lapdm = e.lapdm,
                     !.peer = [@ EXCEPT !.retransmission_queued = TRUE,
                                        !.reports_remaining = 1,
                                        !.report_deferred = TRUE]]
      [] OTHER ->
           [n EXCEPT !.lapdm = e.lapdm,
                     !.session = [@ EXCEPT !.pending = NoMessage,
                                           !.expects_sapi3 = FALSE,
                                           !.idle = TRUE],
                     !.peer = [EnterReleaseDeconfigure(@) EXCEPT
                                 !.retransmission_queued = FALSE,
                                 !.traffic_channel_active = FALSE]]

------------------------------------------------------------------------------
(* The handset: an LAPDm entity per SAPI and a Layer 3 that has its script *)
(* to say.  External: the firmware, as far as the peer relies on it.       *)

NewEnd == [up |-> FALSE, calling |-> FALSE, vs |-> 0, vr |-> 0,
           out |-> <<>>,      \* the I frame it repeats until acknowledged
           owes_rr |-> FALSE, owes_ua |-> FALSE, partial |-> <<>>]

NewHandset ==
    [link |-> [s \in Sapi |-> NewEnd],
     taken |-> <<>>,   \* messages received
     said |-> 0,       \* messages begun
     left |-> 0,       \* segments of the last of them not acknowledged
     moving |-> FALSE, \* its SAPI 0 SABM is one for the TCH
     leaving |-> FALSE] \* it repeats DISC

\* The segment to be sent next, if there is one.
Current(h) == IF h.left > 0 THEN h.said ELSE h.said + 1
Wants(h, s) ==
    /\ Current(h) <= Len(scenario.up)
    /\ scenario.up[Current(h)].sapi = s

SaysSegment(h, s) ==
    LET n == Current(h)
        length == scenario.up[n].length
        left == IF h.left > 0 THEN h.left ELSE length
        c == h.link[s]
        frame == Link!IFrame(s, c.vs, c.vr, left > 1, FALSE,
                             <<<<n, length - left + 1>>>>)
    IN  [frame |-> frame,
         handset |-> [h EXCEPT !.said = n, !.left = left,
                               !.link[s].vs = Link!Successor(@),
                               !.link[s].out = <<frame>>,
                               !.link[s].owes_rr = FALSE]]

SaysUa(h, s) ==
    [frame |-> Link!Ua(s, <<>>), handset |-> [h EXCEPT !.link[s].owes_ua = FALSE]]
SaysRr(h, s) ==
    [frame |-> Link!Rr(s, h.link[s].vr, FALSE),
     handset |-> [h EXCEPT !.link[s].owes_rr = FALSE]]
SaysAgain(h, s) ==
    [frame |-> [h.link[s].out[1] EXCEPT !.nr = h.link[s].vr],
     handset |-> [h EXCEPT !.link[s].owes_rr = FALSE]]

\* SABM: with the first message, for the TCH, or for SAPI 3.
SaysSabm(h, s) ==
    [frame |-> Link!Sabm(s, IF s = 0 /\ ~h.moving THEN Body(1, 1) ELSE <<>>),
     handset |-> [h EXCEPT !.link[s] = [NewEnd EXCEPT !.calling = TRUE],
                           !.said = IF s = 0 /\ ~h.moving THEN 1 ELSE @,
                           !.left = IF s = 0 /\ ~h.moving THEN 1 ELSE @]]

SaysDisc(h) == [frame |-> Link!Disc(0),
                handset |-> [h EXCEPT !.link[0] = NewEnd, !.leaving = TRUE]]

Ends(h, Condition(_, _)) == {s \in Sapi : Condition(h.link[s], s)}

\* What the handset may answer a request with, apart from a fill.
Answers(h) ==
    LET Speaks(c, s) == c.up /\ ~c.owes_ua /\ c.out = <<>> /\ Wants(h, s)
        Calls(c, s) == /\ ~c.up
                       /\ IF s = 0 THEN c.calling \/ h.said = 0
                          ELSE /\ scenario.mobile_sapi3
                               /\ h.taken # <<>> /\ ~h.link[0].owes_rr
                               /\ Wants(h, s)
    IN  IF h.leaving THEN {SaysDisc(h)} ELSE
        {SaysUa(h, s) : s \in Ends(h, LAMBDA c, s : c.owes_ua)}
        \cup {SaysRr(h, s) : s \in Ends(h, LAMBDA c, s : c.up /\ c.owes_rr)}
        \cup {SaysSabm(h, s) : s \in Ends(h, Calls)}
        \cup {SaysAgain(h, s) : s \in Ends(h, LAMBDA c, s : c.out # <<>>)}
        \cup {SaysSegment(h, s) : s \in Ends(h, Speaks)}

\* N(R) of the network.
Confirmed(h, f) ==
    LET c == h.link[f.sapi]
    IN  IF c.out # <<>> /\ f.nr = c.vs
        THEN [h EXCEPT !.link[f.sapi].out = <<>>, !.left = @ - 1] ELSE h

TakesInformation(h, f) ==
    LET s == f.sapi
        content == h.link[s].partial \o f.info
        next == [h EXCEPT
                   !.link[s].vr = Link!Successor(@),
                   !.link[s].owes_rr = TRUE,
                   !.link[s].partial = IF f.more THEN content ELSE <<>>,
                   !.taken = IF f.more THEN @ ELSE Append(@, content)]
    IN  IF f.ns = h.link[s].vr THEN next
        ELSE [h EXCEPT !.link[s].owes_rr = TRUE]

TakesUa(h, f) ==
    [h EXCEPT !.link[f.sapi].up = TRUE, !.link[f.sapi].calling = FALSE,
              !.left = IF f.sapi = 0 /\ ~h.moving THEN 0 ELSE @]

TakesSabm(h, f) ==
    [h EXCEPT !.link[f.sapi] = [NewEnd EXCEPT !.up = TRUE, !.owes_ua = TRUE]]

Takes(h, f) ==
    LET c == h.link[f.sapi]
    IN  CASE f.kind = "I" /\ c.up -> TakesInformation(Confirmed(h, f), f)
          [] f.kind = "RR" /\ c.up -> Confirmed(h, f)
          [] f.kind = "UA" /\ c.calling -> TakesUa(h, f)
          [] f.kind = "UA" /\ h.leaving -> [h EXCEPT !.leaving = FALSE]
          [] f.kind = "SABM" -> TakesSabm(h, f)
          [] OTHER -> h

------------------------------------------------------------------------------
(* Actions *)

NewPeer ==
    [phase |-> "lapdm_establish", reports_remaining |-> 1,
     report_deferred |-> TRUE, wait_ticks |-> 0, followup |-> FALSE,
     downlink_offset |-> 0, retransmission_queued |-> FALSE,
     traffic_channel_active |-> FALSE]

Becomes(n) == lapdm' = n.lapdm /\ peer' = n.peer /\ session' = n.session

Init ==
    /\ scenario \in Scenarios
    /\ lapdm = Link!LapdmReset
    /\ peer = NewPeer
    /\ session = NewSession
    /\ handset = NewHandset
    /\ ring = <<>>
    /\ faults = [lost |-> 0, connections |-> 1]

Tick ==
    LET t == Ticked(Side)
    IN  /\ Becomes(t.side)
        /\ ring' = ring \o t.reports
        /\ UNCHANGED <<scenario, handset, faults>>

\* T200 is a second, 217 frames.  Unless the handset is slow, it does not run
\* out while a report is due or in the ring, or when the handset has yet to be
\* asked for the acknowledgement.
AnswerOnItsWay(s) ==
    \/ ring # <<>>
    \/ /\ peer.reports_remaining # 0
       /\ \/ ~PhaseWaits(peer)
          \/ handset.link[s].owes_rr \/ handset.link[s].owes_ua

Burst ==
    /\ \A s \in Sapi :
          scenario.slow \/ lapdm.link[s].transaction_frames # 1
                        \/ ~AnswerOnItsWay(s)
    /\ Becomes(Expired(Side, Link!AdvanceFrame(lapdm)))
    /\ UNCHANGED <<scenario, ring, handset, faults>>

\* The handset says a block, and the peer handles it.
Says(a) ==
    /\ \E n \in ReceiveBlock(Side, a.frame) : Becomes(n)
    /\ handset' = a.handset

TakeReport(type) ==
    /\ ring # <<>>
    /\ Head(ring).type = type
    /\ ring' = Tail(ring)
    /\ UNCHANGED <<scenario, faults>>

TakeBlock ==
    /\ TakeReport("80")
    /\ handset' = Takes(handset, Head(ring).frame)
    /\ UNCHANGED <<lapdm, peer, session>>

AnswerRequest ==
    /\ TakeReport("86")
    /\ \E a \in Answers(handset) : Says(a)

\* A fill; the first request is always answered with the SABM.
AnswerFill ==
    /\ TakeReport("86")
    /\ handset.said > 0
    /\ Says([frame |-> Link!OtherBlock, handset |-> handset])

Disconnect ==
    /\ scenario.disconnects
    /\ handset.link[0].up
    /\ TakeReport("86")
    /\ Says(SaysDisc(handset))

\* The TCH is confirmed: its SABM goes out unasked.
ChangeChannel ==
    /\ TakeReport("89")
    /\ Says(SaysSabm(handset, 0))

TakeIndication ==
    /\ TakeReport("87")
    /\ UNCHANGED <<lapdm, peer, session, handset>>

\* The handset has read an ASSIGNMENT COMMAND and has nothing in the air.
Configure ==
    /\ ~handset.moving
    /\ \E i \in DOMAIN handset.taken, n \in DOMAIN scenario.down :
          /\ scenario.down[n].kind = "assignment_command"
          /\ handset.taken[i] = Body(n, scenario.down[n].length)
    /\ handset.left = 0 /\ session.pending.kind \in {"none", "assignment_command"}
    /\ Becomes(ReceiveConfiguration(Side))
    /\ handset' = [handset EXCEPT !.moving = peer' # peer]
    /\ UNCHANGED <<scenario, ring, faults>>

\* The host or a timer makes the session queue a message.
HostQueues ==
    /\ ~scenario.registration
    /\ peer.phase \notin {"lapdm_establish", "contention_resolution",
                          "release_deconfigure"}
    /\ MayQueue(session)
    /\ session' = Queue(session)
    /\ UNCHANGED <<scenario, lapdm, peer, ring, handset, faults>>

\* The serving carrier is not receivable for a block (2596).
LoseBlock ==
    /\ ring # <<>>
    /\ faults.lost < scenario.losses
    /\ Head(ring).frame.kind \in scenario.loses
    /\ faults' = [faults EXCEPT !.lost = @ + 1]
    /\ ring' = Tail(ring)
    /\ UNCHANGED <<scenario, lapdm, peer, session, handset>>

\* The released channel is deconfigured, common control is served again (its
\* first block takes a retransmission that is still queued) and the handset
\* gets another dedicated channel.  LAPDm and the rest of the peer go on.  The
\* session takes the first message of a handset only when it is idle.
Reconnect ==
    /\ peer.phase = "release_deconfigure"
    /\ session.idle
    /\ faults.connections < scenario.connections
    /\ UNCHANGED scenario
    /\ faults' = [faults EXCEPT !.connections = @ + 1]
    /\ lapdm' = IF peer.retransmission_queued
                THEN Link!TakeRetransmission(lapdm).lapdm ELSE lapdm
    /\ peer' = [NewPeer EXCEPT !.followup = peer.followup,
                              !.downlink_offset = peer.downlink_offset]
    /\ session' = NewSession
    /\ handset' = NewHandset
    /\ ring' = <<>>

Next ==
    \/ Tick \/ Burst
    \/ TakeBlock \/ AnswerRequest \/ AnswerFill \/ Disconnect
    \/ ChangeChannel \/ TakeIndication \/ Configure
    \/ HostQueues \/ LoseBlock \/ Reconnect

Spec == Init /\ [][Next]_vars

\* The peer's tick and burst timers run, the firmware reads its reports, and
\* a handset that has something to say does not answer with fills for ever.
LiveSpec ==
    /\ Spec
    /\ WF_vars(Tick) /\ SF_vars(Burst)
    /\ WF_vars(TakeBlock) /\ WF_vars(TakeIndication) /\ WF_vars(ChangeChannel)
    /\ WF_vars(AnswerRequest \/ AnswerFill)
    /\ SF_vars(AnswerRequest /\ ServesUplink(peer))

------------------------------------------------------------------------------
(* Properties *)

\* The number of the message a content is, 0 if it is none of the script.
Number(script, content) ==
    LET same == {n \in DOMAIN script : content = Body(n, script[n].length)}
    IN  IF same = {} THEN 0 ELSE CHOOSE n \in same : TRUE

Numbers(script, contents) ==
    [i \in DOMAIN contents |-> Number(script, contents[i])]

Released == peer.phase = "release_deconfigure"

Promised == INSTANCE Delivery WITH channel <-
    [open |-> ~Released,
     given |-> session.given,
     taken |-> Numbers(scenario.down, handset.taken),
     acknowledged |-> session.acknowledged,
     said |-> handset.said,
     heard |-> Numbers(scenario.up, session.heard)]

\* The stop-and-wait segmentation, the deferred reports, T200 and the session's
\* single pending message together deliver every message whole, once and in
\* order, in both directions, and no acknowledgement is attributed to a message
\* the handset does not have (2243-2486, 2488-2715, 3292-3397, 3500-3545).
ImplementsDelivery == Promised!Spec

\* What the session queues is acknowledged, and what the handset begins to say
\* is heard, unless the channel is released.
EveryMessageGetsThrough ==
    /\ Pending(session) ~> ~Pending(session) \/ Released
    /\ \A n \in 1 .. 2 :
          handset.said >= n ~> Len(session.heard) >= n \/ Released

\* No order of reports, packets, promotions and timers leaves a message lying,
\* with a handset that is asked in time for its acknowledgements (tick,
\* advance_after_report, 2243-2486, 3292-3397).
MessagesGetThrough == scenario.slow \/ EveryMessageGetsThrough

Fails == Link!AdvanceFrame(lapdm).kind = "acknowledgement_failure"

\* The link is given up only when each of N200 attempts to send a frame was
\* lost: docs/grey_salamander_integration.md:95 promises an exact-frame replay.
ReplayBeforeFailure ==
    [][Burst /\ Fails => faults.lost >= N200]_vars
==============================================================================
