------------------------------ MODULE GsmSession ------------------------------
(***************************************************************************)
(* nokia_gsm_session_device under the radio peer, the handset and the      *)
(* host.                                                                   *)
(*                                                                         *)
(* The radio peer's scheduling is reduced to what the session can tell:    *)
(* whether a dedicated link exists, and which message the I frame (or, on  *)
(* SAPI 3, the SABM) carries that each SAPI has outstanding.  A pending    *)
(* message is sent when its SAPI has nothing outstanding, and the          *)
(* acknowledgement is reported to the session as downlink_acknowledged()   *)
(* whatever is pending by then.  Handset messages arrive at any time,      *)
(* before or after the acknowledgement of what was sent to it, and host    *)
(* decisions and timers strike between any two of them.                    *)
(***************************************************************************)
EXTENDS GsmSessionUplink

CONSTANT Scenarios   \* what networks, hosts and handsets may do

\* networks: the configurations the network starts in; cells: those handsets
\* camp on; establishments: what they ask for; services: the incoming services
\* queued; kinds: the messages handsets send; waiting: whether a call waiting
\* profile is set.
ASSUME TrafficAssumption ==
    \A s \in Scenarios :
      /\ s.networks \subseteq Network /\ s.cells \subseteq Cells
      /\ s.establishments \subseteq Establishment
      /\ s.services \subseteq IncomingService
      /\ s.kinds \subseteq HandsetKind
      /\ s.waiting \in BOOLEAN /\ s.handover \in BOOLEAN

VARIABLES
    session,      \* the device
    network,      \* its configuration and the forwarding records
    link,         \* the dedicated link, as the radio peer's phases order it
    outstanding,  \* the message each SAPI's unacknowledged frame carries
    scenario      \* one of Scenarios, the same for ever

vars == <<session, network, link, outstanding, scenario>>

LinkPhase ==
    {"down",         \* no dedicated channel, or none that is established
     "contention",   \* the SABM of the handset is being answered
     "up",           \* service phases
     "moving",       \* between assignment and the SABM on the new channel
     "releasing"}    \* release_deconfigure .. release_channel_change

Sapis == {0, 3}
Nothing == [sapi \in Sapis |-> NoMessage]

------------------------------------------------------------------------------
(* Host and timer entry points *)

QueueIncomingPage(s, service) ==
    LET continuing == s.incoming_service_completed
                        /\ s.incoming_service = service
    IN  InState([s EXCEPT
           !.incoming_service = service,
           !.call.traffic_assignment_issued = FALSE,
           !.call.answered = FALSE,
           !.incoming_service_completed = FALSE,
           !.sms.delivery_index = IF continuing THEN @ ELSE 0],
         "awaiting_paging_response")

IncomingServiceDiverted(s, n, service) ==
    /\ service = "call"
    /\ \/ SpeechForwarding(n, "unconditional")
       \/ LiveLegs(s) # {} /\ SpeechForwarding(n, "busy")

CancelQueuedIncomingService(s) ==
    Settle([s EXCEPT !.incoming_service = "none",
                     !.incoming_service_completed = FALSE], "idle")

\* A waiting call is transaction 1; its SETUP may be repeated.
QueueWaitingCall(s, duplicate) ==
    LET first == AlertLeg([s EXCEPT !.call.waiting_queued = TRUE], 1, 1)
    IN  QueueDownlink(IF duplicate THEN s ELSE first, "incoming_call_setup", 1)

SubmitOutgoingTermination(s, id) ==
    LET accepted == [s EXCEPT !.outgoing.termination_accepted = TRUE,
                              !.outgoing.termination_request_id = id]
        in_progress ==
            {"awaiting_call_proceeding_acknowledgement",
             "awaiting_outgoing_decision", "awaiting_traffic_assignment",
             "awaiting_assignment_complete",
             "awaiting_call_alerting_acknowledgement",
             "awaiting_outgoing_connect_acknowledgement",
             "outgoing_call_alerting", "incoming_call_active"}
    IN  IF /\ s.mobile_originated = "call"
           /\ s.outgoing.request_pending
           /\ id # 0 /\ id = s.outgoing.request_id
           /\ s.outgoing.decision_accepted
           /\ ~s.outgoing.termination_accepted
           /\ s.state \in in_progress
        THEN IF s.state \in {"outgoing_call_alerting", "incoming_call_active"}
             THEN ApplyOutgoingTermination(accepted) ELSE accepted
        ELSE s

AdmitsIncomingTermination(s) ==
    /\ s.mobile_originated # "call"
    /\ s.state \in {"incoming_call_active", "awaiting_traffic_assignment",
                    "awaiting_assignment_complete",
                    "awaiting_incoming_call_setup_acknowledgement"}

SubmitIncomingTermination(s) ==
    AnswerCall([s EXCEPT !.call.no_reply_timer = FALSE,
                         !.call.alerting = FALSE],
               "awaiting_network_disconnect_acknowledgement",
               "call_disconnect", s.call.transaction)

\* The timer is one-shot: it is off once it has fired.
NoReplyTimer(s, n) ==
    LET fired == [s EXCEPT !.call.no_reply_timer = FALSE]
    IN  IF /\ s.mobile_originated # "call"
           /\ s.call.alerting
           /\ SpeechForwarding(n, "no_reply")
           /\ AdmitsIncomingTermination(s)
        THEN [SubmitIncomingTermination(fired) EXCEPT !.call.forwarded = TRUE]
        ELSE fired

OutgoingDecisionTimer(s, n) ==
    LET fired == [s EXCEPT !.outgoing.decision_timer = FALSE]
        id == s.outgoing.policy_request_id
    IN  IF id # 0 THEN SubmitOutgoingDecision(fired, id, n.call_outcome)
                  ELSE fired

SubmitOutgoingSmsDecision(s, id, outcome) ==
    LET accepted == [s EXCEPT !.sms.decision_accepted = TRUE,
                              !.sms.decision = outcome]
    IN  IF /\ s.sms.request_pending
           /\ id # 0 /\ id = s.sms.request_id
           /\ ~s.sms.decision_accepted
        THEN IF s.state = "awaiting_mobile_sms_host_decision"
             THEN AnswerSubmit(accepted, outcome) ELSE accepted
        ELSE s

SubmitUssdResponse(s, id) ==
    IF /\ s.ussd.request_pending
       /\ id # 0 /\ id = s.ussd.request_id
       /\ s.state = "awaiting_mobile_ussd_host_response"
    THEN Answer(s, "awaiting_supplementary_release_acknowledgement",
                "supplementary_release_complete")
    ELSE s

TerminateNetworkUssd(s) ==
    Answer(s, "awaiting_network_ussd_release_acknowledgement",
           "supplementary_release_complete")

\* A handset link that is released while a submitted message goes unanswered.
MobileLinkReleaseAcknowledged(s) ==
    IF s.mobile_originated = "sms" /\ s.state = "awaiting_mobile_sms_timeout"
    THEN ClearDedicatedCipher(Settle(
           [s EXCEPT !.established = "none",
                     !.mobile_originated = "none",
                     !.sms.request_pending = FALSE,
                     !.sms.decision_accepted = FALSE,
                     !.sms.cp_data_acknowledged = FALSE,
                     !.sms.rp_acknowledged = FALSE,
                     !.sms.status_report_requested = FALSE], "idle"))
    ELSE s

MobileSmsSapi3Established(s) ==
    IF s.state = "awaiting_mobile_sms_sapi3_establishment"
    THEN InState(s, "awaiting_mobile_sms_submit") ELSE s

\* Mutant of BeginTrafficAssignment: the assignment stays pending.
AssignKeepingPending(s) == InState(s, "awaiting_assignment_complete")

BeginTrafficAssignment(s) == Settle(s, "awaiting_assignment_complete")

BeginHandover(s, target) ==
    Answer([s EXCEPT !.handover_target_arfcn = target],
           "awaiting_handover_result", "handover_command")

------------------------------------------------------------------------------
(* The link and the handset *)

Init ==
    /\ scenario \in Scenarios
    /\ network \in scenario.networks
    /\ \E arfcn \in scenario.cells : session = DeviceReset(FALSE, arfcn, "accept")
    /\ link = "down"
    /\ outstanding = Nothing

\* A dedicated channel whose transaction ended is being taken down.
LinkAfter(s) == IF s.state = "idle" THEN "releasing" ELSE "up"

Establish(request, arfcn) ==
    /\ link = "down"
    /\ Establishes(session, request)
    /\ session' = EstablishLayer3(session, request, arfcn)
    /\ link' = "contention"
    /\ outstanding' = [outstanding EXCEPT ![0] = NoMessage]
    /\ UNCHANGED network

ContentionResolved ==
    /\ link = "contention"
    /\ session' = ContentionResolutionDelivered(session, network)
    /\ link' = "up"
    /\ UNCHANGED <<network, outstanding>>

\* The physical information of a handover goes out unnumbered.
Transmit ==
    LET sapi == SapiOf(session.pending)
    IN  /\ link = "up"
        /\ session.pending.kind \notin {"none", "physical_information"}
        /\ outstanding[sapi] = NoMessage
        /\ outstanding' = [outstanding EXCEPT ![sapi] = session.pending]
        /\ UNCHANGED <<session, network, link>>

\* An acknowledgement of a short-message service accepted by CM re-arms SAPI 3.
Acknowledge(sapi) ==
    LET s == DownlinkAcknowledged(session, network)
        freed == [outstanding EXCEPT ![sapi] = NoMessage]
    IN  /\ link = "up"
        /\ outstanding[sapi] # NoMessage
        /\ session' = s
        /\ link' = LinkAfter(s)
        /\ outstanding' =
             IF s.state = "awaiting_mobile_sms_sapi3_establishment"
             THEN [freed EXCEPT ![3] = NoMessage] ELSE freed
        /\ UNCHANGED network

Receive(m) ==
    LET s == ReceiveLayer3(session, network, m)
    IN  /\ link = "up"
        /\ session' = s
        /\ link' = LinkAfter(s)
        /\ network' = IF session.state = "awaiting_supplementary_request"
                      THEN ServeForwarding(network, m) ELSE network
        /\ UNCHANGED outstanding

\* The handset sets the new channel up once it has read the assignment.
MoveToTraffic ==
    /\ link = "up"
    /\ session.state = "awaiting_traffic_assignment"
    /\ \/ session.pending = NoMessage
       \/ outstanding[0].kind = "traffic_assignment"
    /\ session' = BeginTrafficAssignment(session)
    /\ link' = "moving"
    /\ outstanding' = [outstanding EXCEPT ![0] = NoMessage]
    /\ UNCHANGED network

TrafficEstablished ==
    /\ link = "moving"
    /\ link' = "up"
    /\ UNCHANGED <<session, network, outstanding>>

HandsetEstablishesSapi3 ==
    /\ link = "up"
    /\ session.state = "awaiting_mobile_sms_sapi3_establishment"
    /\ session' = MobileSmsSapi3Established(session)
    /\ outstanding' = [outstanding EXCEPT ![3] = NoMessage]
    /\ UNCHANGED <<network, link>>

\* DISC on the main link, and the UA that answers it.
HandsetDisconnectsLink ==
    /\ link = "up"
    /\ session' = MobileLinkReleaseAcknowledged(session)
    /\ link' = "releasing"
    /\ outstanding' = [outstanding EXCEPT ![0] = NoMessage]
    /\ UNCHANGED network

\* Mutant of ReleaseConfigured: the session is not told.
ReleaseUnreported ==
    /\ link = "releasing"
    /\ link' = "down"
    /\ UNCHANGED <<session, network, outstanding>>

\* The deconfigured channel stands for an acknowledgement still owed.
ReleaseConfigured ==
    /\ link = "releasing"
    /\ session' = DownlinkAcknowledged(session, network)
    /\ link' = "down"
    /\ UNCHANGED <<network, outstanding>>

\* N200 expiry on any SAPI, one a former connection left outstanding included,
\* or the expiry of a reassembly.
LinkFailed ==
    /\ session' = RadioLinkFailed(session)
    /\ link' = "releasing"
    /\ \/ \E sapi \in Sapis :
            /\ outstanding[sapi] # NoMessage
            /\ outstanding' = [outstanding EXCEPT ![sapi] = NoMessage]
       \/ link = "up" /\ UNCHANGED outstanding
    /\ UNCHANGED network

------------------------------------------------------------------------------
(* The host and the timers *)

Host(s) == session' = s /\ UNCHANGED <<network, link, outstanding>>

\* A status report queued by the session itself is paged before the rest.
Page(service) ==
    /\ link = "down"
    /\ session.state = "idle" /\ session.registered
    /\ service = "status_report" <=> session.incoming_service = "status_report"
    /\ ~IncomingServiceDiverted(session, network, service)
    /\ Host(QueueIncomingPage(session, service))

Cancel ==
    /\ session.state \in {"idle", "awaiting_paging_response"}
    /\ Host(CancelQueuedIncomingService(session))

WaitingCall(duplicate) ==
    /\ scenario.waiting
    /\ session.state = "incoming_call_active"
    /\ duplicate = session.call.waiting_queued
    /\ session.pending = NoMessage
    /\ Host(QueueWaitingCall(session, duplicate))

HostDecision ==
    /\ network.host_call_adapter
    /\ \/ \E outcome \in CallOutcome :
            Host(SubmitOutgoingDecision(session, session.outgoing.request_id, outcome))
       \/ Host(SubmitOutgoingTermination(session, session.outgoing.request_id))
       \/ \E outcome \in SmsOutcome \ {"cp_silence"} :
            Host(SubmitOutgoingSmsDecision(session, session.sms.request_id, outcome))
       \/ Host(SubmitUssdResponse(session, session.ussd.request_id))
       \/ /\ AdmitsIncomingTermination(session)
          /\ Host(SubmitIncomingTermination(session))
       \/ /\ session.state = "awaiting_network_ussd_response"
          /\ session.incoming_service = "ussd_request"
          /\ session.pending = NoMessage
          /\ Host(TerminateNetworkUssd(session))

TakeIncomingForwarded ==
    /\ session.call.forwarded
    /\ Host([session EXCEPT !.call.forwarded = FALSE])

Timers ==
    \/ session.call.no_reply_timer /\ Host(NoReplyTimer(session, network))
    \/ /\ session.outgoing.decision_timer
       /\ Host(OutgoingDecisionTimer(session, network))

Handover ==
    /\ link = "up"
    /\ \/ \E target \in Cells \ {session.serving_arfcn} :
            /\ scenario.handover
            /\ session.state = "incoming_call_active"
            /\ session.pending = NoMessage
            /\ Host(BeginHandover(session, target))
       \/ /\ session.state = "awaiting_handover_result"
          /\ \/ /\ session.pending.kind = "handover_command"
                /\ outstanding[0] = session.pending
                /\ Host(ClearPendingDownlink(session))
             \/ Host(HandoverEnded(session, session.serving_arfcn))
             \/ /\ session.pending = NoMessage
                /\ session' = QueueDownlink(session, "physical_information", 0)
                /\ outstanding' = [outstanding EXCEPT ![0] = NoMessage]
                /\ UNCHANGED <<network, link>>

\* An emulated reset of the phone resets the session with it.
Reset ==
    /\ session' = DeviceReset(FALSE, session.serving_arfcn, session.sms.decision)
    /\ link' = "down"
    /\ outstanding' = Nothing
    /\ UNCHANGED network

\* What the handset sends only once it has read the message: the I frame
\* that carries the answer also carries the N(R) that acknowledges it.
Answers(kind) ==
    CASE kind = "authentication_request" ->
           {"authentication_response_valid", "authentication_response_invalid"}
      [] kind = "cipher_mode_command" -> {"cipher_mode_complete"}
      [] kind = "incoming_call_setup" -> {"call_confirmed", "alerting", "connect"}
      [] kind = "call_connect" -> {"connect_acknowledge"}
      [] kind = "call_disconnect" -> {"release"}
      [] kind \in {"supplementary_register", "supplementary_facility"} ->
           {"ss_result", "ss_result_empty"}
      [] kind = "incoming_sms_cp_data" -> {"cp_ack", "rp_ack", "rp_error"}
      [] kind \in {"outgoing_sms_rp_ack", "outgoing_sms_rp_error"} -> {"cp_ack"}
      [] OTHER -> {}

\* The messages the handset cannot have read yet.  An RP result stays pending
\* after its acknowledgement, so it may have been read.
Unread ==
    {outstanding[sapi] : sapi \in Sapis} \cup
    {m \in {session.pending} :
        m.kind \notin {"outgoing_sms_rp_ack", "outgoing_sms_rp_error"}}

\* It sets up a transaction it does not have, alerts and connects one that
\* it was offered, and but for clearing names one that exists.
HandsetMessages ==
    {m \in [kind : scenario.kinds, transaction : Transaction,
            condition : ForwardingCondition] :
       /\ m.kind \notin CallControlKind => m.transaction = 0
       /\ m.kind \notin ForwardingKind => m.condition = "no_reply"
       /\ m.kind = "setup" => LegsOf(session, m.transaction) = {}
       /\ m.kind \in CallControlKind \ {"setup", "release", "release_complete"}
            => LegsOf(session, m.transaction) # {}
       /\ m.kind \in {"alerting", "connect"} =>
            \E leg \in LegsOf(session, m.transaction) :
                session.call.leg_states[leg] = "alerting"
       /\ \A unread \in Unread :
            unread.transaction = m.transaction
              => m.kind \notin Answers(unread.kind)}

Next ==
    /\ \/ \E request \in scenario.establishments, arfcn \in scenario.cells :
            Establish(request, arfcn)
       \/ ContentionResolved
       \/ Transmit
       \/ \E sapi \in Sapis : Acknowledge(sapi)
       \/ \E m \in HandsetMessages : Receive(m)
       \/ MoveToTraffic
       \/ TrafficEstablished
       \/ HandsetEstablishesSapi3
       \/ HandsetDisconnectsLink
       \/ ReleaseConfigured
       \/ LinkFailed
       \/ \E service \in scenario.services : Page(service)
       \/ Cancel
       \/ \E duplicate \in BOOLEAN : WaitingCall(duplicate)
       \/ HostDecision
       \/ TakeIncomingForwarded
       \/ Timers
       \/ Handover
       \/ Reset
    /\ UNCHANGED scenario

Spec == Init /\ [][Next]_vars

(* The radio peer sends a pending message at its next opportunity, LAPDm   *)
(* acknowledges what it sent or declares the link failed, and the handset  *)
(* deconfigures a channel whose release it was told of.                    *)
Fairness ==
    /\ WF_vars(Transmit /\ UNCHANGED scenario)
    /\ \A sapi \in Sapis : WF_vars(Acknowledge(sapi) /\ UNCHANGED scenario)
    /\ WF_vars(ReleaseConfigured /\ UNCHANGED scenario)

FairSpec == Spec /\ Fairness

------------------------------------------------------------------------------
(* Properties *)

TypeOK ==
    /\ session \in SessionState
    /\ network \in Network
    /\ link \in LinkPhase
    /\ outstanding \in [Sapis -> DownlinkMessage]

(* The message awaiting its acknowledgement is one whose acknowledgement   *)
(* downlink_acknowledged() has a clause for in the present state, or there *)
(* is none and the state waits for something else.  A host decision, timer *)
(* or crossing handset message that left a message of another state        *)
(* pending would wedge the transaction.                                    *)
PendingMatchesState == session.pending.kind \in PendingKinds[session.state]

(* On a ciphered network no service message is queued before the handset   *)
(* completed Cipher Mode with an authenticated key; ciphering is only ever *)
(* active with such a key and A5/1, and it ends with the transaction.      *)
Unciphered ==
    {"none", "authentication_request", "authentication_reject",
     "location_update_accept", "location_update_reject",
     "cipher_mode_command", "cm_service_reject", "channel_release"}

CipherBeforeService ==
    /\ network.ciphered /\ session.pending.kind \notin Unciphered =>
         session.cipher.active
    /\ session.cipher.active =>
         session.cipher.key_valid /\ session.cipher.algorithm = "a5_1"
    /\ session.state = "idle" => ~session.cipher.active

(* A host decision in force belongs to the request in progress: one that   *)
(* was taken for an earlier call of the connection is never applied to the *)
(* next, and request 0 is never decided.                                   *)
DecisionBelongsToRequest ==
    session.outgoing.decision_accepted =>
        /\ session.outgoing.request_pending
        /\ session.outgoing.decision_request_id = session.outgoing.request_id
        /\ session.outgoing.request_id # 0

(* The decision about a request is final: neither the host deciding twice, *)
(* nor the decision timer after the host, replaces it.                     *)
DecisionIsFinal ==
    [][ (/\ session.outgoing.decision_accepted
         /\ session'.outgoing.decision_accepted
         /\ session'.outgoing.request_id = session.outgoing.request_id)
            => session'.outgoing.decision = session.outgoing.decision ]_vars

(* When a transaction has ended, no request of it is left that a late host *)
(* answer or the decision timer could still act on.                        *)
IdleOwesNothing ==
    session.state = "idle" =>
        /\ ~session.outgoing.request_pending /\ ~session.outgoing.decision_timer
        /\ ~session.sms.request_pending
        /\ ~session.ussd.request_pending

(* A leg is being released only while its CC release awaits the            *)
(* acknowledgement, and it is a live one: an acknowledgement never frees   *)
(* the leg of an earlier release.                                          *)
ReleasingLegIsLive ==
    session.call.releasing_leg # NoLeg =>
        /\ session.state = "awaiting_call_release_acknowledgement"
        /\ session.call.releasing_leg \in LiveLegs(session)

(* A conference joins two live legs, and only a conference is held as one: *)
(* releasing either leg dissolves it.                                      *)
ConferenceJoinsTwo ==
    /\ session.call.multiparty_active => LiveLegs(session) = Leg
    /\ session.call.multiparty_held => session.call.multiparty_active

(* The bookkeeping of the two legs agrees with itself.                     *)
LegsAgree == ReleasingLegIsLive /\ ConferenceJoinsTwo

(* When the handset disconnects one leg, the channel is released only if   *)
(* no other leg is live.                                                   *)
HandsetKeepsSurvivor ==
    [][ session.call.releasing_leg # NoLeg
          /\ session'.pending.kind = "channel_release" =>
            LiveLegs(session') = {} ]_vars

(* The target of a handover is known exactly while its result is awaited.  *)
HandoverHasTarget ==
    session.handover_target_arfcn # NoCell
        <=> session.state = "awaiting_handover_result"

(* A Channel Release queued on a live link ends the transaction, the CC    *)
(* Release Complete an incoming call still owes apart, whichever of        *)
(* acknowledgement, handset DISC, deconfiguration or failure comes first.  *)
ReleaseCompletes ==
    link = "up" /\ session.state = "awaiting_channel_release_acknowledgement"
        ~> session.state \in {"idle", "awaiting_release_complete"}

------------------------------------------------------------------------------
(* What comments and documents say, and the code does not keep *)

(* "The original call already owns the TCH": no alerting or connect is     *)
(* queued for a mobile-originated call whose connection has no TCH.        *)
AlertingHasTraffic ==
    session.pending.kind \in {"call_alerting", "call_connect"} =>
        session.call.traffic_assignment_issued

(* "A queued Layer-3 message remains pending until its LAPDm ACK": what an *)
(* acknowledgement is taken for is what was sent.                          *)
AcknowledgesWhatWasSent ==
    [][ \A sapi \in Sapis :
          Acknowledge(sapi) /\ session.pending # NoMessage =>
            session.pending = outstanding[sapi] \/ session' = session ]_vars

(* "only ending the last transaction releases the traffic channel": RR is  *)
(* never released while two CC legs are live.                              *)
LastLegReleasesChannel ==
    session.pending.kind = "channel_release" => LiveLegs(session) # Leg

(* "CFNRy is invoked only after the served subscriber fails to answer":    *)
(* while a waiting call alerts, the timer ends that call, never the one    *)
(* that was answered.                                                      *)
NoReplyDivertsUnanswered ==
    [][ (/\ Timers
         /\ session'.call.forwarded # session.call.forwarded
         /\ \E leg \in Leg : session.call.leg_states[leg] = "alerting")
            => \E leg \in LegsOf(session, session'.pending.transaction) :
                 session.call.leg_states[leg] = "alerting" ]_vars

(* "message two remains queued": a transaction of the handset's own leaves *)
(* the place in the queue of incoming short messages as it was.            *)
QueuedDeliveryKept ==
    [][ (/\ session.established \in LocationUpdate \cup CmService
         /\ session.state = "awaiting_channel_release_acknowledgement"
         /\ ReleaseConfigured \/ \E sapi \in Sapis : Acknowledge(sapi))
            => session'.sms.delivery_index = session.sms.delivery_index ]_vars
==============================================================================
