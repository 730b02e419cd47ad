--------------------------- MODULE GsmSessionProofs ---------------------------
(***************************************************************************)
(* Type correctness of GsmSession, and that the pending message always     *)
(* matches the state, for every value of the constants.                    *)
(*                                                                         *)
(* Good is the inductive invariant's part about the session: its type,     *)
(* which decides what the record updates of the handlers mean, the match   *)
(* of pending message and state, and that a handover in progress has a     *)
(* target: the cell a completed handover moves the connection to.  One     *)
(* lemma per operator says that it keeps Good; the operators the handlers  *)
(* end with (Answer, Settle) set both sides of the match, the rest leave   *)
(* both alone.                                                             *)
(***************************************************************************)
EXTENDS GsmSession, TLAPS

Good(s) ==
    /\ s \in SessionState
    /\ s.pending.kind \in PendingKinds[s.state]
    /\ s.state = "awaiting_handover_result" => s.handover_target_arfcn \in Cells

USE SessionAssumption

------------------------------------------------------------------------------
(* The shape of the session, and how handlers change it *)

LEMMA PendingKindsType ==
    ASSUME NEW state \in State
    PROVE  PendingKinds[state] \subseteq DownlinkKind
  BY DEF State, PendingKinds, DownlinkKind, Sapi3Kind, CallKind

LEMMA NoMessageType == NoMessage \in DownlinkMessage /\ NoMessage.kind = "none"
  BY DEF NoMessage, Message, DownlinkMessage, DownlinkKind

\* A handler that leaves the state and the pending message alone.
LEMMA SameGood ==
    ASSUME NEW s, NEW t, Good(s), t \in SessionState,
           t.state = s.state, t.pending = s.pending,
           t.handover_target_arfcn = s.handover_target_arfcn
    PROVE  Good(t)
  BY DEF Good

\* A handler that ends in a message of the state it moves to.
LEMMA AnswerCallGood ==
    ASSUME NEW s \in SessionState, NEW state \in State,
           NEW kind \in PendingKinds[state], NEW ti \in Transaction,
           state # "awaiting_handover_result"
    PROVE  Good(AnswerCall(s, state, kind, ti))
<1>1. kind \in DownlinkKind
  BY PendingKindsType
<1> QED
  BY <1>1 DEF Good, AnswerCall, QueueDownlink, InState, Message, SessionState,
              DownlinkMessage

LEMMA AnswerGood ==
    ASSUME NEW s \in SessionState, NEW state \in State,
           NEW kind \in PendingKinds[state],
           state # "awaiting_handover_result"
    PROVE  Good(Answer(s, state, kind))
<1>1. Good(AnswerCall(s, state, kind, 0))
  BY AnswerCallGood
<1> QED
  BY <1>1 DEF Answer, AnswerCall

\* A handler that ends with nothing pending, in a state that allows it.
LEMMA SettleGood ==
    ASSUME NEW s \in SessionState, NEW state \in State,
           "none" \in PendingKinds[state], state # "awaiting_handover_result"
    PROVE  Good(Settle(s, state))
  BY NoMessageType DEF Good, Settle, ClearPendingDownlink, InState, SessionState

\* A handler that only moves the state on, with nothing pending.
LEMMA InStateGood ==
    ASSUME NEW s \in SessionState, NEW state \in State,
           "none" \in PendingKinds[state], s.pending.kind = "none",
           state # "awaiting_handover_result"
    PROVE  Good(InState(s, state))
  BY DEF Good, InState, SessionState

LEMMA ClearPendingGood ==
    ASSUME NEW s, Good(s), "none" \in PendingKinds[s.state]
    PROVE  Good(ClearPendingDownlink(s))
  BY NoMessageType DEF Good, ClearPendingDownlink, SessionState

LEMMA ReleaseGood ==
    ASSUME NEW s \in SessionState
    PROVE  Good(BeginChannelRelease(s))
<1>1. /\ "awaiting_channel_release_acknowledgement" \in State
      /\ "channel_release" \in
            PendingKinds["awaiting_channel_release_acknowledgement"]
  BY DEF State, PendingKinds
<1> QED
  BY <1>1, AnswerGood DEF BeginChannelRelease

------------------------------------------------------------------------------
(* Reset, legs and the host's decision *)

LEMMA ResetGood ==
    ASSUME NEW registered \in BOOLEAN, NEW arfcn \in Cells,
           NEW decision \in SmsOutcome
    PROVE  Good(DeviceReset(registered, arfcn, decision))
<1>1. CallReset \in CallState
  BY DEF CallReset, CallState, Leg, LegState, NoLeg
<1>2. OutgoingReset \in OutgoingState
  BY DEF OutgoingReset, OutgoingState, RequestId, CallOutcome
<1>3. SmsReset(decision) \in SmsState
  BY DEF SmsReset, SmsState, RequestId
<1>4. CipherReset \in CipherState
  BY DEF CipherReset, CipherState
<1>5. [request_pending |-> FALSE, request_id |-> 0, policy_request_id |-> 0]
        \in UssdState
  BY DEF UssdState, RequestId
<1>6. "idle" \in State /\ "none" \in PendingKinds["idle"]
  BY DEF State, PendingKinds
<1>7. DeviceReset(registered, arfcn, decision) \in SessionState
  BY <1>1, <1>2, <1>3, <1>4, <1>5, <1>6, NoMessageType
     DEF DeviceReset, SessionState, IncomingService, Originated
<1> QED
  BY <1>6, <1>7, NoMessageType DEF Good, DeviceReset

LEMMA LinkFailedGood ==
    ASSUME NEW s \in SessionState
    PROVE  Good(RadioLinkFailed(s))
<1>1. s.registered \in BOOLEAN /\ s.serving_arfcn \in Cells
        /\ s.sms.decision \in SmsOutcome
  BY DEF SessionState, SmsState
<1> QED
  BY <1>1, ResetGood DEF RadioLinkFailed

LEMMA NextRequestIdType ==
    ASSUME NEW id \in RequestId
    PROVE  NextRequestId(id) \in RequestId
  BY DEF RequestId, NextRequestId

LEMMA CallLegIndexType ==
    ASSUME NEW s \in SessionState, NEW ti
    PROVE  CallLegIndex(s, ti) \in Leg \cup {NoLeg}
<1>1. LegsOf(s, ti) \subseteq {0, 1}
  BY DEF LegsOf, LiveLegs, Leg
<1>2. ASSUME LegsOf(s, ti) # {}
      PROVE  \E leg \in LegsOf(s, ti) : \A other \in LegsOf(s, ti) : leg <= other
  BY <1>1, <1>2
<1> QED
  BY <1>1, <1>2 DEF CallLegIndex, Leg

LEMMA SetLegType ==
    ASSUME NEW s \in SessionState, NEW leg, NEW state \in LegState
    PROVE  /\ SetCallLegState(s, leg, state) \in SessionState
           /\ SetCallLegState(s, leg, state).state = s.state
           /\ SetCallLegState(s, leg, state).pending = s.pending
           /\ SetCallLegState(s, leg, state).handover_target_arfcn
                = s.handover_target_arfcn
  BY DEF SetCallLegState, SessionState, CallState

LEMMA AlertLegType ==
    ASSUME NEW s \in SessionState, NEW leg \in Leg, NEW ti \in Transaction
    PROVE  /\ AlertLeg(s, leg, ti) \in SessionState
           /\ AlertLeg(s, leg, ti).state = s.state
           /\ AlertLeg(s, leg, ti).pending = s.pending
           /\ AlertLeg(s, leg, ti).handover_target_arfcn
                = s.handover_target_arfcn
<1> DEFINE named == [s EXCEPT !.call.leg_transactions[leg] = ti]
<1>1. /\ named \in SessionState
      /\ named.state = s.state /\ named.pending = s.pending
      /\ named.handover_target_arfcn = s.handover_target_arfcn
  BY DEF SessionState, CallState
<1>2. "alerting" \in LegState
  BY DEF LegState
<1> HIDE DEF named
<1>3. /\ SetCallLegState(named, leg, "alerting") \in SessionState
      /\ SetCallLegState(named, leg, "alerting").state = named.state
      /\ SetCallLegState(named, leg, "alerting").pending = named.pending
      /\ SetCallLegState(named, leg, "alerting").handover_target_arfcn
           = named.handover_target_arfcn
  BY <1>1, <1>2, SetLegType
<1> QED
  BY <1>1, <1>3 DEF AlertLeg, named

LEMMA ClearCipherType ==
    ASSUME NEW s \in SessionState
    PROVE  /\ ClearDedicatedCipher(s) \in SessionState
           /\ ClearDedicatedCipher(s).state = s.state
           /\ ClearDedicatedCipher(s).pending = s.pending
           /\ ClearDedicatedCipher(s).handover_target_arfcn
                = s.handover_target_arfcn
  BY DEF ClearDedicatedCipher, SessionState, CipherState

LEMMA ApplyTerminationGood ==
    ASSUME NEW s, Good(s)
    PROVE  Good(ApplyOutgoingTermination(s))
<1> DEFINE quiet == [s EXCEPT !.call.alerting = FALSE]
<1>1. quiet \in SessionState /\ s.call.transaction \in Transaction
  BY DEF Good, SessionState, CallState
<1>2. /\ "awaiting_network_disconnect_acknowledgement" \in State
      /\ "call_disconnect" \in
            PendingKinds["awaiting_network_disconnect_acknowledgement"]
  BY DEF State, PendingKinds
<1> HIDE DEF quiet
<1>3. Good(AnswerCall(quiet, "awaiting_network_disconnect_acknowledgement",
                      "call_disconnect", s.call.transaction))
  BY <1>1, <1>2, AnswerCallGood
<1> QED
  BY <1>3 DEF ApplyOutgoingTermination, quiet

LEMMA ApplyDecisionGood ==
    ASSUME NEW s, Good(s)
    PROVE  Good(ApplyOutgoingDecision(s))
<1> DEFINE issued == [s EXCEPT !.call.traffic_assignment_issued = TRUE]
<1>1. /\ s \in SessionState /\ issued \in SessionState
      /\ s.call.transaction \in Transaction
  BY DEF Good, SessionState, CallState
<1>2. /\ "awaiting_network_disconnect_acknowledgement" \in State
      /\ "call_disconnect" \in
            PendingKinds["awaiting_network_disconnect_acknowledgement"]
      /\ "awaiting_call_alerting_acknowledgement" \in State
      /\ "call_alerting" \in
            PendingKinds["awaiting_call_alerting_acknowledgement"]
      /\ "awaiting_traffic_assignment" \in State
      /\ "traffic_assignment" \in PendingKinds["awaiting_traffic_assignment"]
  BY DEF State, PendingKinds
<1> HIDE DEF issued
<1>3. /\ Good(AnswerCall(s, "awaiting_network_disconnect_acknowledgement",
                         "call_disconnect", s.call.transaction))
      /\ Good(AnswerCall(s, "awaiting_call_alerting_acknowledgement",
                         "call_alerting", s.call.transaction))
      /\ Good(Answer(issued, "awaiting_traffic_assignment",
                     "traffic_assignment"))
  BY <1>1, <1>2, AnswerCallGood, AnswerGood
<1> QED
  BY <1>3 DEF ApplyOutgoingDecision, issued

LEMMA SubmitDecisionGood ==
    ASSUME NEW s, Good(s), NEW id \in RequestId, NEW outcome \in CallOutcome
    PROVE  Good(SubmitOutgoingDecision(s, id, outcome))
<1> DEFINE accepted == [s EXCEPT !.outgoing.decision_accepted = TRUE,
                                 !.outgoing.decision = outcome,
                                 !.outgoing.decision_request_id = id]
<1>1. /\ accepted \in SessionState
      /\ accepted.state = s.state /\ accepted.pending = s.pending
      /\ accepted.handover_target_arfcn = s.handover_target_arfcn
  BY DEF Good, SessionState, OutgoingState
<1> HIDE DEF accepted
<1>2. Good(accepted)
  BY <1>1, SameGood
<1>3. Good(ApplyOutgoingDecision(accepted))
  BY <1>2, ApplyDecisionGood
<1> QED
  BY <1>2, <1>3 DEF SubmitOutgoingDecision, accepted

------------------------------------------------------------------------------
(* The link: establishment, and the acknowledgement of what was sent *)

LEMMA EstablishGood ==
    ASSUME NEW s, Good(s), NEW request \in Establishment, NEW arfcn \in Cells
    PROVE  Good(EstablishLayer3(s, request, arfcn))
<1> DEFINE asked == [s EXCEPT
               !.established = request,
               !.serving_arfcn = arfcn,
               !.release_completes_registration = request \in LocationUpdate,
               !.mobile_originated = OriginatedBy(request),
               !.incoming_service_completed = FALSE,
               !.call.transaction = 0,
               !.call.traffic_assignment_issued = FALSE]
<1>1. (request \in LocationUpdate) \in BOOLEAN
        /\ OriginatedBy(request) \in Originated
  BY DEF OriginatedBy, Originated
<1>2. asked \in SessionState
  BY <1>1 DEF Good, SessionState, CallState
<1>3. /\ "awaiting_contention_resolution" \in State
      /\ "none" \in PendingKinds["awaiting_contention_resolution"]
      /\ "awaiting_paging_contention_resolution" \in State
      /\ "none" \in PendingKinds["awaiting_paging_contention_resolution"]
  BY DEF State, PendingKinds
<1> HIDE DEF asked
<1>4. /\ Good(Settle(asked, "awaiting_contention_resolution"))
      /\ Good(Settle(asked, "awaiting_paging_contention_resolution"))
  BY <1>2, <1>3, SettleGood
<1> QED
  BY <1>4 DEF EstablishLayer3, asked

LEMMA LocationReplyGood ==
    ASSUME NEW s \in SessionState, NEW n \in Network
    PROVE  Good(LocationUpdateReply(s, n))
<1> DEFINE refused == [s EXCEPT !.release_completes_registration = FALSE]
<1>1. refused \in SessionState
  BY DEF SessionState
<1>2. /\ "awaiting_location_update_accept_acknowledgement" \in State
      /\ "location_update_accept" \in
            PendingKinds["awaiting_location_update_accept_acknowledgement"]
      /\ "awaiting_location_update_reject_acknowledgement" \in State
      /\ "location_update_reject" \in
            PendingKinds["awaiting_location_update_reject_acknowledgement"]
  BY DEF State, PendingKinds
<1> HIDE DEF refused
<1>3. /\ Good(Answer(s, "awaiting_location_update_accept_acknowledgement",
                     "location_update_accept"))
      /\ Good(Answer(refused, "awaiting_location_update_reject_acknowledgement",
                     "location_update_reject"))
  BY <1>1, <1>2, AnswerGood
<1> QED
  BY <1>3 DEF LocationUpdateReply, refused

LEMMA AuthenticationGood ==
    ASSUME NEW s \in SessionState
    PROVE  Good(RequestAuthentication(s))
<1>1. /\ "awaiting_authentication_request_acknowledgement" \in State
      /\ "authentication_request" \in
            PendingKinds["awaiting_authentication_request_acknowledgement"]
  BY DEF State, PendingKinds
<1> QED
  BY <1>1, AnswerGood DEF RequestAuthentication

LEMMA CipherGood ==
    ASSUME NEW s \in SessionState, NEW n \in Network
    PROVE  Good(CommandCipherMode(s, n)) /\ Good(CipherForService(s, n))
<1> DEFINE commanded ==
             [s EXCEPT !.cipher.algorithm = IF n.ciphered THEN "a5_1" ELSE "a5_0",
                       !.cipher.command_pending = n.ciphered]
           asked == [s EXCEPT !.cipher.authentication_for_service = TRUE]
<1>1. commanded \in SessionState /\ asked \in SessionState
  BY DEF SessionState, CipherState, Network
<1>2. /\ "awaiting_cipher_mode_command_acknowledgement" \in State
      /\ "cipher_mode_command" \in
            PendingKinds["awaiting_cipher_mode_command_acknowledgement"]
  BY DEF State, PendingKinds
<1> HIDE DEF commanded, asked
<1>3. Good(Answer(commanded, "awaiting_cipher_mode_command_acknowledgement",
                  "cipher_mode_command"))
  BY <1>1, <1>2, AnswerGood
<1>4. Good(CommandCipherMode(s, n))
  BY <1>3 DEF CommandCipherMode, commanded
<1>5. Good(RequestAuthentication(asked))
  BY <1>1, AuthenticationGood
<1> QED
  BY <1>4, <1>5 DEF CipherForService, asked

LEMMA ContentionGood ==
    ASSUME NEW s, Good(s), NEW n \in Network
    PROVE  Good(ContentionResolutionDelivered(s, n))
<1> DEFINE keyless == [s EXCEPT !.cipher.key_valid = FALSE,
                                !.cipher.authentication_for_service = FALSE]
<1>1. s \in SessionState /\ keyless \in SessionState
  BY DEF Good, SessionState, CipherState
<1>2. /\ "awaiting_cm_service_accept_acknowledgement" \in State
      /\ "cm_service_accept" \in
            PendingKinds["awaiting_cm_service_accept_acknowledgement"]
      /\ "awaiting_cm_service_reject_acknowledgement" \in State
      /\ "cm_service_reject" \in
            PendingKinds["awaiting_cm_service_reject_acknowledgement"]
  BY DEF State, PendingKinds
<1> HIDE DEF keyless
<1>3. /\ Good(Answer(s, "awaiting_cm_service_accept_acknowledgement",
                     "cm_service_accept"))
      /\ Good(Answer(s, "awaiting_cm_service_reject_acknowledgement",
                     "cm_service_reject"))
  BY <1>1, <1>2, AnswerGood
<1>4. Good(BeginChannelRelease(s)) /\ Good(CipherForService(s, n))
        /\ Good(LocationUpdateReply(s, n)) /\ Good(RequestAuthentication(keyless))
  BY <1>1, ReleaseGood, CipherGood, LocationReplyGood, AuthenticationGood
<1> QED
  BY <1>3, <1>4 DEF ContentionResolutionDelivered, keyless

LEMMA ConnectingGood ==
    ASSUME NEW s \in SessionState
    PROVE  Good(Connecting(s))
<1>1. /\ "awaiting_outgoing_connect_acknowledgement" \in State
      /\ "call_connect" \in
            PendingKinds["awaiting_outgoing_connect_acknowledgement"]
      /\ s.call.transaction \in Transaction
  BY DEF State, PendingKinds, SessionState, CallState
<1> QED
  BY <1>1, AnswerCallGood DEF Connecting

LEMMA CallProgressGood ==
    ASSUME NEW s, Good(s)
    PROVE  Good(AlertingAcknowledged(s)) /\ Good(ProceedingAcknowledged(s))
<1>1. s \in SessionState
  BY DEF Good
<1>2. /\ "outgoing_call_alerting" \in State
      /\ "none" \in PendingKinds["outgoing_call_alerting"]
      /\ "awaiting_outgoing_decision" \in State
      /\ "none" \in PendingKinds["awaiting_outgoing_decision"]
  BY DEF State, PendingKinds
<1>3. Good(Settle(s, "outgoing_call_alerting"))
        /\ Good(Settle(s, "awaiting_outgoing_decision"))
  BY <1>1, <1>2, SettleGood
<1>4. Good(ApplyOutgoingTermination(Settle(s, "outgoing_call_alerting")))
        /\ Good(ApplyOutgoingDecision(s)) /\ Good(Connecting(s))
  BY <1>1, <1>3, ApplyTerminationGood, ApplyDecisionGood, ConnectingGood
<1> QED
  BY <1>3, <1>4 DEF AlertingAcknowledged, ProceedingAcknowledged

LEMMA InformationGood ==
    ASSUME NEW s, Good(s)
    PROVE  Good(InformationAcknowledged(s))
<1> DEFINE first == [s EXCEPT !.call.transaction = 0]
           alerted == AlertLeg(first, 0, 0)
<1>1. s \in SessionState /\ first \in SessionState
  BY DEF Good, SessionState, CallState
<1> HIDE DEF first
<1>2. alerted \in SessionState
  BY <1>1, AlertLegType DEF Leg
<1> HIDE DEF alerted
<1>3. /\ "awaiting_incoming_call_setup_acknowledgement" \in State
      /\ "incoming_call_setup" \in
            PendingKinds["awaiting_incoming_call_setup_acknowledgement"]
      /\ "awaiting_sms_sapi3_establishment" \in State
      /\ "sapi3_establishment" \in
            PendingKinds["awaiting_sms_sapi3_establishment"]
      /\ "awaiting_network_ussd_register_acknowledgement" \in State
      /\ "supplementary_register" \in
            PendingKinds["awaiting_network_ussd_register_acknowledgement"]
      /\ "awaiting_outgoing_call_setup" \in State
      /\ "none" \in PendingKinds["awaiting_outgoing_call_setup"]
      /\ "awaiting_cm_service_accept_acknowledgement" \in State
      /\ "cm_service_accept" \in
            PendingKinds["awaiting_cm_service_accept_acknowledgement"]
  BY DEF State, PendingKinds
<1>4. Good(AnswerCall(alerted, "awaiting_incoming_call_setup_acknowledgement",
                      "incoming_call_setup", 0))
  BY <1>2, <1>3, AnswerCallGood
<1>5. /\ Good(Answer(s, "awaiting_sms_sapi3_establishment", "sapi3_establishment"))
      /\ Good(Answer(s, "awaiting_network_ussd_register_acknowledgement",
                     "supplementary_register"))
      /\ Good(Answer(s, "awaiting_cm_service_accept_acknowledgement",
                     "cm_service_accept"))
      /\ Good(Settle(s, "awaiting_outgoing_call_setup"))
  BY <1>1, <1>3, AnswerGood, SettleGood
<1> QED
  BY <1>4, <1>5 DEF InformationAcknowledged, alerted, first

LEMMA Sapi3Good ==
    ASSUME NEW s \in SessionState
    PROVE  Good(Sapi3Acknowledged(s))
<1> DEFINE fresh == [s EXCEPT !.sms.cp_data_acknowledged = FALSE,
                              !.sms.rp_acknowledged = FALSE]
<1>1. fresh \in SessionState
  BY DEF SessionState, SmsState
<1>2. /\ "awaiting_sms_cp_data_acknowledgement" \in State
      /\ "incoming_sms_cp_data" \in
            PendingKinds["awaiting_sms_cp_data_acknowledgement"]
  BY DEF State, PendingKinds
<1> HIDE DEF fresh
<1>3. Good(Answer(fresh, "awaiting_sms_cp_data_acknowledgement",
                  "incoming_sms_cp_data"))
  BY <1>1, <1>2, AnswerGood
<1> QED
  BY <1>3 DEF Sapi3Acknowledged, fresh

LEMMA AnswerSubmitGood ==
    ASSUME NEW s \in SessionState, NEW outcome
    PROVE  Good(AnswerSubmit(s, outcome))
<1> DEFINE acknowledged == [s EXCEPT !.sms.rp_acknowledged = TRUE]
<1>1. acknowledged \in SessionState
  BY DEF SessionState, SmsState
<1>2. /\ "awaiting_mobile_sms_timeout" \in State
      /\ "none" \in PendingKinds["awaiting_mobile_sms_timeout"]
      /\ "awaiting_mobile_sms_final_cp_ack" \in State
      /\ "outgoing_sms_rp_error" \in
            PendingKinds["awaiting_mobile_sms_final_cp_ack"]
      /\ "outgoing_sms_rp_ack" \in
            PendingKinds["awaiting_mobile_sms_final_cp_ack"]
  BY DEF State, PendingKinds
<1> HIDE DEF acknowledged
<1>3. /\ Good(Settle(s, "awaiting_mobile_sms_timeout"))
      /\ Good(Answer(s, "awaiting_mobile_sms_final_cp_ack",
                     "outgoing_sms_rp_error"))
      /\ Good(Answer(acknowledged, "awaiting_mobile_sms_final_cp_ack",
                     "outgoing_sms_rp_ack"))
  BY <1>1, <1>2, AnswerGood, SettleGood
<1> QED
  BY <1>3 DEF AnswerSubmit, acknowledged

LEMMA SubmitCpGood ==
    ASSUME NEW s \in SessionState, NEW n \in Network
    PROVE  Good(SubmitCpAcknowledged(s, n))
<1>1. /\ "awaiting_mobile_sms_host_decision" \in State
      /\ "none" \in PendingKinds["awaiting_mobile_sms_host_decision"]
  BY DEF State, PendingKinds
<1>2. /\ Good(Settle(s, "awaiting_mobile_sms_host_decision"))
      /\ Good(AnswerSubmit(s, IF n.host_call_adapter THEN s.sms.decision
                                                   ELSE n.sms_outcome))
  BY <1>1, SettleGood, AnswerSubmitGood
<1> QED
  BY <1>2 DEF SubmitCpAcknowledged

LEMMA CallReleaseGood ==
    ASSUME NEW s, Good(s)
    PROVE  Good(CallReleaseAcknowledged(s))
<1> DEFINE leg == s.call.releasing_leg
           gone == SetCallLegState(s, leg, "inactive")
           conference == Cardinality(LiveLegs(gone)) >= 2
           active == gone.call.multiparty_active /\ conference
           held == gone.call.multiparty_held /\ conference
           call == [gone.call EXCEPT !.multiparty_active = active,
                                     !.multiparty_held = held,
                                     !.releasing_leg = NoLeg]
           survivor == [gone EXCEPT !.call = call]
<1>1. s \in SessionState /\ "inactive" \in LegState
  BY DEF Good, LegState
<1>2. gone \in SessionState
  BY <1>1, SetLegType
<1>3. active \in BOOLEAN /\ held \in BOOLEAN
  OBVIOUS
<1> HIDE DEF gone, conference, active, held
<1>4. call \in CallState
  BY <1>2, <1>3 DEF SessionState, CallState
<1> HIDE DEF call
<1>10. survivor \in SessionState
  BY <1>2, <1>4 DEF SessionState
<1>5. /\ "incoming_call_active" \in State
      /\ "none" \in PendingKinds["incoming_call_active"]
  BY DEF State, PendingKinds
<1> HIDE DEF survivor
<1>6. /\ Good(BeginChannelRelease(s)) /\ Good(BeginChannelRelease(survivor))
      /\ Good(Settle(survivor, "incoming_call_active"))
  BY <1>1, <1>10, <1>5, ReleaseGood, SettleGood
<1> QED
  BY <1>6 DEF CallReleaseAcknowledged, survivor, call, active, held,
              conference, gone

LEMMA RetireDeliveryType ==
    ASSUME NEW s \in SessionState
    PROVE  /\ RetireDelivery(s) \in SessionState
           /\ RetireDelivery(s).pending = s.pending
<1> DEFINE queues == QueuesStatusReport(s)
           completed == s.incoming_service_completed /\ ~queues
           report == s.sms.status_report_requested /\ queues
           index == IF MoreDeliveries(s) THEN s.sms.delivery_index + 1
                    ELSE IF queues THEN s.sms.delivery_index ELSE 0
           sms == [s.sms EXCEPT !.delivery_index = index,
                                !.cp_data_acknowledged = FALSE,
                                !.rp_acknowledged = FALSE,
                                !.status_report_requested = report,
                                !.request_pending = FALSE,
                                !.decision_accepted = FALSE]
           retired == [s EXCEPT !.incoming_service = RemainingService(s),
                                !.incoming_service_completed = completed,
                                !.sms = sms]
<1>1. RemainingService(s) \in IncomingService
  BY DEF RemainingService, IncomingService, SessionState
<1>2. completed \in BOOLEAN /\ report \in BOOLEAN
  OBVIOUS
<1>3. index \in Nat
  BY DEF SessionState, SmsState
<1> HIDE DEF queues, completed, index, report
<1>4. sms \in SmsState
  BY <1>2, <1>3 DEF SessionState, SmsState
<1> HIDE DEF sms
<1>5. retired \in SessionState /\ retired.pending = s.pending
  BY <1>1, <1>2, <1>4 DEF SessionState
<1>6. RetireDelivery(s) = retired
  BY DEF RetireDelivery, queues, completed, index, report, sms
<1> QED
  BY <1>5, <1>6

LEMMA ClearOutgoingType ==
    ASSUME NEW o \in OutgoingState
    PROVE  ClearOutgoing([o EXCEPT !.request_pending = FALSE]) \in OutgoingState
<1>1. [o EXCEPT !.request_pending = FALSE] \in OutgoingState
  BY DEF OutgoingState
<1>2. 0 \in RequestId
  BY DEF RequestId
<1>3. ASSUME NEW p \in OutgoingState PROVE ClearOutgoing(p) \in OutgoingState
  <2> DEFINE half == [p EXCEPT !.decision_accepted = FALSE,
                               !.decision_request_id = 0,
                               !.policy_request_id = 0]
  <2>1. half \in OutgoingState
    BY <1>2 DEF OutgoingState
  <2> HIDE DEF half
  <2>2. [half EXCEPT !.termination_accepted = FALSE,
                     !.termination_request_id = 0,
                     !.decision_timer = FALSE] \in OutgoingState
    BY <1>2, <2>1 DEF OutgoingState
  <2> QED
    BY <2>2 DEF ClearOutgoing, half
<1> QED
  BY <1>1, <1>3

LEMMA RetireGood ==
    ASSUME NEW s \in SessionState, s.pending = NoMessage
    PROVE  Good(RetireTransaction(s))
<1> DEFINE received == s.call.release_complete_received
                         /\ s.incoming_service # "call"
           delivered == RetireDelivery(s)
           outgoing == ClearOutgoing(
                          [delivered.outgoing EXCEPT !.request_pending = FALSE])
           call == [delivered.call EXCEPT !.release_complete_received = received,
                                          !.transaction = 0]
           ussd == [delivered.ussd EXCEPT !.request_pending = FALSE]
           retired == [delivered EXCEPT
                         !.established = "none",
                         !.release_completes_registration = FALSE,
                         !.mobile_originated = "none",
                         !.call = call, !.outgoing = outgoing, !.ussd = ussd]
<1>1. /\ delivered \in SessionState /\ delivered.pending = NoMessage
      /\ received \in BOOLEAN
  BY RetireDeliveryType
<1> HIDE DEF received, delivered
<1>2. outgoing \in OutgoingState
  BY <1>1, ClearOutgoingType DEF SessionState
<1>3. call \in CallState
  BY <1>1 DEF SessionState, CallState
<1>4. ussd \in UssdState
  BY <1>1 DEF SessionState, UssdState
<1> HIDE DEF outgoing, call, ussd
<1>5. retired \in SessionState /\ retired.pending = NoMessage
  BY <1>1, <1>2, <1>3, <1>4 DEF SessionState, Originated
<1> HIDE DEF retired
<1>6. "idle" \in State /\ "none" \in PendingKinds["idle"]
  BY DEF State, PendingKinds
<1>7. Good(InState(retired, "idle"))
  BY <1>5, <1>6, NoMessageType, InStateGood
<1>8. Good(ClearDedicatedCipher(InState(retired, "idle")))
  BY <1>7, ClearCipherType, SameGood DEF Good
<1>9. RetireTransaction(s) = ClearDedicatedCipher(InState(retired, "idle"))
  BY <1>1 DEF RetireTransaction, retired, outgoing, call, ussd, received,
              delivered, SessionState
<1> QED
  BY <1>8, <1>9

\* Called for the acknowledgement of a message, whichever state it is in.
LEMMA ReleaseAcknowledgedGood ==
    ASSUME NEW s, Good(s)
    PROVE  Good(ReleaseAcknowledged(s))
<1> DEFINE registered == s.registered \/ Registers(s)
           completed == s.incoming_service # "none"
           marked == [s EXCEPT !.registered = registered,
                               !.incoming_service_completed = completed]
           closed == ClearPendingDownlink(marked)
<1>1. s \in SessionState /\ registered \in BOOLEAN /\ completed \in BOOLEAN
  BY DEF Good
<1> HIDE DEF registered, completed
<1>2. marked \in SessionState
  BY <1>1 DEF SessionState
<1> HIDE DEF marked
<1>3. closed \in SessionState /\ closed.pending = NoMessage
  BY <1>2, NoMessageType DEF ClearPendingDownlink, SessionState
<1>4. /\ "awaiting_release_complete" \in State
      /\ "none" \in PendingKinds["awaiting_release_complete"]
  BY DEF State, PendingKinds
<1> HIDE DEF closed
<1>5. Good(InState(closed, "awaiting_release_complete"))
  BY <1>3, <1>4, NoMessageType, InStateGood
<1>6. Good(RetireTransaction(closed))
  BY <1>3, RetireGood
<1> QED
  BY <1>5, <1>6 DEF ReleaseAcknowledged, closed, marked, registered, completed

\* The acknowledgements that only move the state on.
LEMMA SettledGood ==
    ASSUME NEW s \in SessionState,
           NEW state \in {"awaiting_mobile_sms_sapi3_establishment",
                          "awaiting_supplementary_request",
                          "awaiting_outgoing_call_setup",
                          "awaiting_second_outgoing_call_setup",
                          "awaiting_supplementary_response",
                          "awaiting_network_ussd_response",
                          "awaiting_handset_release",
                          "awaiting_authentication_response",
                          "incoming_call_active",
                          "awaiting_sms_handset_response",
                          "awaiting_assignment_complete", "idle"}
    PROVE  Good(Settle(s, state))
<1>1. /\ state \in State /\ "none" \in PendingKinds[state]
      /\ state # "awaiting_handover_result"
  BY DEF State, PendingKinds
<1> QED
  BY <1>1, SettleGood

LEMMA DownlinkAcknowledgedGood ==
    ASSUME NEW s, NEW n \in Network, Good(s)
    PROVE  Good(DownlinkAcknowledged(s, n))
<1> DEFINE unregistered == [s EXCEPT !.release_completes_registration = FALSE]
           waiting == [s EXCEPT !.call.release_waiting = TRUE]
<1>1. /\ s \in SessionState
      /\ unregistered \in SessionState /\ waiting \in SessionState
  BY DEF Good, SessionState, CallState
<1> HIDE DEF unregistered, waiting
<1>2. /\ Good(BeginChannelRelease(s)) /\ Good(BeginChannelRelease(unregistered))
      /\ Good(ProceedingAcknowledged(s)) /\ Good(AlertingAcknowledged(s))
      /\ Good(InformationAcknowledged(s)) /\ Good(Sapi3Acknowledged(s))
      /\ Good(SubmitCpAcknowledged(s, n)) /\ Good(CallReleaseAcknowledged(s))
      /\ Good(ReleaseAcknowledged(s))
  BY <1>1, ReleaseGood, CallProgressGood, InformationGood, Sapi3Good,
     SubmitCpGood, CallReleaseGood, ReleaseAcknowledgedGood
<1>3. /\ Good(Settle(s, "awaiting_mobile_sms_sapi3_establishment"))
      /\ Good(Settle(s, "awaiting_supplementary_request"))
      /\ Good(Settle(s, "awaiting_outgoing_call_setup"))
      /\ Good(Settle(s, "awaiting_second_outgoing_call_setup"))
      /\ Good(Settle(s, "awaiting_supplementary_response"))
      /\ Good(Settle(s, "awaiting_network_ussd_response"))
      /\ Good(Settle(waiting, "awaiting_handset_release"))
      /\ Good(Settle(s, "awaiting_authentication_response"))
      /\ Good(Settle(s, "incoming_call_active"))
      /\ Good(Settle(s, "awaiting_sms_handset_response"))
  BY <1>1, SettledGood
<1>4. s.state \in {"awaiting_outgoing_connect_acknowledgement",
                   "awaiting_traffic_assignment",
                   "awaiting_cipher_mode_command_acknowledgement",
                   "incoming_call_active"}
        => Good(ClearPendingDownlink(s))
  <2>1. s.state \in {"awaiting_outgoing_connect_acknowledgement",
                     "awaiting_traffic_assignment",
                     "awaiting_cipher_mode_command_acknowledgement",
                     "incoming_call_active"}
          => "none" \in PendingKinds[s.state]
    BY DEF PendingKinds
  <2> QED
    BY <2>1, ClearPendingGood
<1> QED
  BY <1>2, <1>3, <1>4, SMTT(60) DEF DownlinkAcknowledged, unregistered, waiting

------------------------------------------------------------------------------
(* receive_layer3: supplementary services, keys and ciphering *)

LEMMA ServeForwardingType ==
    ASSUME NEW n \in Network, NEW m \in HandsetMessage
    PROVE  ServeForwarding(n, m) \in Network
<1> DEFINE was == n.forwarding[m.condition]
           becomes ==
            CASE m.kind = "register_ss" -> "active"
              [] m.kind = "activate_ss" /\ was # "erased" -> "active"
              [] m.kind = "deactivate_ss" /\ was # "erased" -> "registered"
              [] m.kind = "erase_ss" -> "erased"
              [] OTHER -> was
<1>1. was \in ForwardingRecord /\ m.condition \in ForwardingCondition
  BY DEF Network, HandsetMessage
<1> HIDE DEF was
<1>2. becomes \in ForwardingRecord
  BY <1>1 DEF ForwardingRecord
<1> HIDE DEF becomes
<1>3. [n EXCEPT !.forwarding[m.condition] = becomes] \in Network
  BY <1>1, <1>2 DEF Network
<1> QED
  BY <1>3 DEF ServeForwarding, becomes, was

LEMMA SupplementaryReleaseGood ==
    ASSUME NEW s \in SessionState
    PROVE  /\ Good(Answer(s, "awaiting_supplementary_release_acknowledgement",
                          "supplementary_release_complete"))
           /\ Good(Answer(s, "awaiting_network_ussd_release_acknowledgement",
                          "supplementary_release_complete"))
           /\ Good(Answer(s, "awaiting_supplementary_facility_acknowledgement",
                          "supplementary_facility"))
<1>1. /\ "awaiting_supplementary_release_acknowledgement" \in State
      /\ "supplementary_release_complete" \in
            PendingKinds["awaiting_supplementary_release_acknowledgement"]
      /\ "awaiting_network_ussd_release_acknowledgement" \in State
      /\ "supplementary_release_complete" \in
            PendingKinds["awaiting_network_ussd_release_acknowledgement"]
      /\ "awaiting_supplementary_facility_acknowledgement" \in State
      /\ "supplementary_facility" \in
            PendingKinds["awaiting_supplementary_facility_acknowledgement"]
  BY DEF State, PendingKinds
<1> QED
  BY <1>1, AnswerGood

LEMMA UssdRequestGood ==
    ASSUME NEW s, NEW n, Good(s), s.state = "awaiting_supplementary_request"
    PROVE  Good(ReceiveUssdRequest(s, n))
<1> DEFINE id == NextRequestId(s.ussd.policy_request_id)
           asked == [s EXCEPT !.ussd.request_pending = TRUE,
                              !.ussd.policy_request_id = id,
                              !.ussd.request_id = id]
<1>1. s \in SessionState /\ s.pending.kind = "none"
  BY DEF Good, PendingKinds
<1>2. id \in RequestId
  BY <1>1, NextRequestIdType DEF SessionState, UssdState
<1> HIDE DEF id
<1>3. asked \in SessionState /\ asked.pending = s.pending
  BY <1>1, <1>2 DEF SessionState, UssdState
<1> HIDE DEF asked
<1>4. /\ "awaiting_mobile_ussd_host_response" \in State
      /\ "none" \in PendingKinds["awaiting_mobile_ussd_host_response"]
  BY DEF State, PendingKinds
<1>5. Good(InState(asked, "awaiting_mobile_ussd_host_response"))
  BY <1>1, <1>3, <1>4, InStateGood
<1> QED
  BY <1>1, <1>5, SupplementaryReleaseGood DEF ReceiveUssdRequest, asked, id

LEMMA SupplementaryGood ==
    ASSUME NEW s, NEW n, NEW m, Good(s),
           s.state = "awaiting_supplementary_request"
    PROVE  Good(ReceiveSupplementary(s, n, m))
  BY UssdRequestGood, SupplementaryReleaseGood DEF Good, ReceiveSupplementary

LEMMA SupplementaryAnswerGood ==
    ASSUME NEW s, NEW m, Good(s)
    PROVE  Good(ReceiveContinuation(s, m)) /\ Good(ReceiveNetworkUssdAnswer(s, m))
<1>1. s \in SessionState
  BY DEF Good
<1>2. Good(BeginChannelRelease(s))
  BY <1>1, ReleaseGood
<1> QED
  BY <1>1, <1>2, SupplementaryReleaseGood
     DEF ReceiveContinuation, ReceiveNetworkUssdAnswer

LEMMA AuthenticationResponseGood ==
    ASSUME NEW s \in SessionState, NEW n \in Network, NEW m
    PROVE  Good(ReceiveAuthenticationResponse(s, n, m))
<1> DEFINE keyed == [s EXCEPT !.cipher.key_valid = TRUE,
                              !.cipher.authentication_for_service = FALSE]
           refused == [s EXCEPT !.cipher.key_valid = FALSE,
                                !.cipher.authentication_for_service = FALSE]
<1>1. keyed \in SessionState /\ refused \in SessionState
  BY DEF SessionState, CipherState
<1> HIDE DEF keyed, refused
<1>2. /\ "awaiting_authentication_reject_acknowledgement" \in State
      /\ "authentication_reject" \in
            PendingKinds["awaiting_authentication_reject_acknowledgement"]
  BY DEF State, PendingKinds
<1>3. /\ Good(Answer(refused, "awaiting_authentication_reject_acknowledgement",
                     "authentication_reject"))
      /\ Good(CommandCipherMode(keyed, n)) /\ Good(LocationUpdateReply(keyed, n))
  BY <1>1, <1>2, AnswerGood, CipherGood, LocationReplyGood
<1> QED
  BY <1>3 DEF ReceiveAuthenticationResponse, keyed, refused

LEMMA CipherModeCompleteGood ==
    ASSUME NEW s, Good(s)
    PROVE  Good(ReceiveCipherModeComplete(s))
<1> DEFINE activate == /\ s.cipher.algorithm = "a5_1"
                       /\ s.cipher.key_valid
                       /\ s.cipher.command_pending
           active == s.cipher.active \/ activate
           commanded == s.cipher.command_pending /\ ~activate
           ciphered == [s EXCEPT !.cipher.active = active,
                                 !.cipher.command_pending = commanded]
<1>1. s \in SessionState /\ active \in BOOLEAN /\ commanded \in BOOLEAN
  BY DEF Good
<1> HIDE DEF activate, active, commanded
<1>2. ciphered \in SessionState
  BY <1>1 DEF SessionState, CipherState
<1> HIDE DEF ciphered
<1>3. /\ "awaiting_mm_information_acknowledgement" \in State
      /\ "mm_information" \in
            PendingKinds["awaiting_mm_information_acknowledgement"]
  BY DEF State, PendingKinds
<1>4. Good(Answer(ciphered, "awaiting_mm_information_acknowledgement",
                  "mm_information"))
  BY <1>2, <1>3, AnswerGood
<1> QED
  BY <1>4 DEF ReceiveCipherModeComplete, ciphered, active, commanded, activate

------------------------------------------------------------------------------
(* receive_layer3: call control *)

LEMMA RequestOutgoingGood ==
    ASSUME NEW s, NEW n \in Network, Good(s)
    PROVE  Good(RequestOutgoing(s, n))
<1> DEFINE id == NextRequestId(s.outgoing.request_id)
           fallback == ~n.host_call_adapter
           timed == s.outgoing.decision_timer \/ (fallback /\ n.decision_delayed)
           policy == IF fallback THEN id ELSE s.outgoing.policy_request_id
           outgoing == [s.outgoing EXCEPT
                          !.request_id = id,
                          !.request_pending = TRUE,
                          !.decision_accepted = FALSE,
                          !.decision_request_id = 0,
                          !.policy_request_id = policy,
                          !.decision_timer = timed]
           asked == [s EXCEPT !.outgoing = outgoing]
<1>1. s \in SessionState /\ s.outgoing \in OutgoingState
  BY DEF Good, SessionState
<1>2. s.outgoing.request_id \in RequestId
        /\ s.outgoing.policy_request_id \in RequestId
  BY <1>1 DEF OutgoingState
<1>3. id \in RequestId
  BY <1>2, NextRequestIdType
<1>4. policy \in RequestId /\ timed \in BOOLEAN /\ 0 \in RequestId
  BY <1>2, <1>3 DEF RequestId
<1> HIDE DEF id, fallback, timed, policy
<1>5. outgoing \in OutgoingState
  <2> DEFINE half == [s.outgoing EXCEPT !.request_id = id,
                                        !.request_pending = TRUE,
                                        !.decision_accepted = FALSE]
  <2>1. half \in OutgoingState
    BY <1>1, <1>3 DEF OutgoingState
  <2> HIDE DEF half
  <2>2. [half EXCEPT !.decision_request_id = 0,
                     !.policy_request_id = policy,
                     !.decision_timer = timed] \in OutgoingState
    BY <1>4, <2>1 DEF OutgoingState
  <2> QED
    BY <2>2 DEF half
<1> HIDE DEF outgoing
<1>6. /\ asked \in SessionState
      /\ asked.state = s.state /\ asked.pending = s.pending
      /\ asked.handover_target_arfcn = s.handover_target_arfcn
  BY <1>1, <1>5 DEF SessionState
<1> HIDE DEF asked
<1>7. Good(asked)
  BY <1>6, SameGood
<1>8. n.call_outcome \in CallOutcome
  BY DEF Network
<1>9. Good(SubmitOutgoingDecision(asked, id, n.call_outcome))
  BY <1>3, <1>7, <1>8, SubmitDecisionGood
<1>10. RequestOutgoing(s, n) \in
         {asked, SubmitOutgoingDecision(asked, id, n.call_outcome)}
  BY <1>1 DEF RequestOutgoing, asked, outgoing, policy, timed, fallback, id,
              SessionState
<1> QED
  BY <1>7, <1>9, <1>10

LEMMA SetupGood ==
    ASSUME NEW s, NEW n \in Network, NEW ti \in Transaction, Good(s)
    PROVE  Good(ReceiveSetup(s, n, ti))
<1> DEFINE leg == IF s.state = "awaiting_second_outgoing_call_setup" THEN 1 ELSE 0
           addressed == [s EXCEPT !.call.transaction = ti]
           named == AlertLeg(addressed, leg, ti)
<1>1. /\ addressed \in SessionState /\ addressed.state = s.state
      /\ addressed.pending = s.pending /\ leg \in Leg
      /\ addressed.handover_target_arfcn = s.handover_target_arfcn
  BY DEF Good, SessionState, CallState, Leg
<1> HIDE DEF addressed, leg
<1>2. /\ named \in SessionState
      /\ named.state = s.state /\ named.pending = s.pending
      /\ named.handover_target_arfcn = s.handover_target_arfcn
  BY <1>1, AlertLegType
<1> HIDE DEF named
<1>3. Good(named)
  BY <1>2, SameGood
<1>4. RequestOutgoing(named, n) \in SessionState
  BY <1>3, RequestOutgoingGood DEF Good
<1>5. /\ "awaiting_call_proceeding_acknowledgement" \in State
      /\ "call_proceeding" \in
            PendingKinds["awaiting_call_proceeding_acknowledgement"]
  BY DEF State, PendingKinds
<1>6. Good(AnswerCall(RequestOutgoing(named, n),
                      "awaiting_call_proceeding_acknowledgement",
                      "call_proceeding", ti))
  BY <1>4, <1>5, AnswerCallGood
<1> QED
  BY <1>6 DEF ReceiveSetup, named, addressed, leg

LEMMA CallConfirmedGood ==
    ASSUME NEW s, Good(s)
    PROVE  Good(ReceiveCallConfirmed(s))
<1> DEFINE issued == [s EXCEPT !.call.traffic_assignment_issued = TRUE]
<1>1. issued \in SessionState
  BY DEF Good, SessionState, CallState
<1>2. /\ "awaiting_traffic_assignment" \in State
      /\ "traffic_assignment" \in PendingKinds["awaiting_traffic_assignment"]
  BY DEF State, PendingKinds
<1> HIDE DEF issued
<1>3. Good(Answer(issued, "awaiting_traffic_assignment", "traffic_assignment"))
  BY <1>1, <1>2, AnswerGood
<1> QED
  BY <1>3 DEF ReceiveCallConfirmed, issued

LEMMA AlertingGood ==
    ASSUME NEW s, NEW n, Good(s)
    PROVE  Good(ReceiveAlerting(s, n))
<1> DEFINE timed == \/ s.call.no_reply_timer
                    \/ s.mobile_originated # "call"
                         /\ SpeechForwarding(n, "no_reply")
           alerted == [s EXCEPT !.call.alerting = TRUE,
                                !.call.no_reply_timer = timed]
<1>1. timed \in BOOLEAN
  OBVIOUS
<1> HIDE DEF timed
<1>2. /\ alerted \in SessionState
      /\ alerted.state = s.state /\ alerted.pending = s.pending
      /\ alerted.handover_target_arfcn = s.handover_target_arfcn
  BY <1>1 DEF Good, SessionState, CallState
<1> HIDE DEF alerted
<1>3. Good(alerted)
  BY <1>2, SameGood
<1> QED
  BY <1>3 DEF ReceiveAlerting, alerted, timed

LEMMA ConnectGood ==
    ASSUME NEW s, NEW ti \in Transaction, Good(s)
    PROVE  Good(ReceiveConnect(s, ti))
<1> DEFINE switched == SetCallLegState(s, CallLegIndex(s, ti), "active")
           connected == [switched EXCEPT !.call.no_reply_timer = FALSE,
                                         !.call.answered = TRUE,
                                         !.call.alerting = FALSE]
<1>1. "active" \in LegState /\ s \in SessionState
  BY DEF LegState, Good
<1>2. switched \in SessionState
  BY <1>1, SetLegType
<1> HIDE DEF switched
<1>3. connected \in SessionState
  BY <1>2 DEF SessionState, CallState
<1> HIDE DEF connected
<1>4. /\ "awaiting_connect_acknowledgement" \in State
      /\ "connect_acknowledge" \in
            PendingKinds["awaiting_connect_acknowledgement"]
  BY DEF State, PendingKinds
<1>5. Good(AnswerCall(connected, "awaiting_connect_acknowledgement",
                      "connect_acknowledge", ti))
  BY <1>3, <1>4, AnswerCallGood
<1> QED
  BY <1>5 DEF ReceiveConnect, connected, switched

LEMMA DisconnectGood ==
    ASSUME NEW s, NEW ti \in Transaction, Good(s)
    PROVE  Good(ReceiveDisconnect(s, ti))
<1> DEFINE leg == CallLegIndex(s, ti)
           releasing == [s EXCEPT !.call.releasing_leg = leg,
                                  !.call.alerting = FALSE]
<1>1. s \in SessionState /\ leg \in Leg \cup {NoLeg}
  BY CallLegIndexType DEF Good
<1> HIDE DEF leg
<1>2. releasing \in SessionState
  BY <1>1 DEF SessionState, CallState
<1> HIDE DEF releasing
<1>3. /\ "awaiting_call_release_acknowledgement" \in State
      /\ "call_release" \in
            PendingKinds["awaiting_call_release_acknowledgement"]
  BY DEF State, PendingKinds
<1>4. Good(AnswerCall(releasing, "awaiting_call_release_acknowledgement",
                      "call_release", ti))
  BY <1>2, <1>3, AnswerCallGood
<1> QED
  BY <1>4 DEF ReceiveDisconnect, releasing, leg

\* What is answered without leaving the call.
LEMMA QueueInCallGood ==
    ASSUME NEW s \in SessionState, s.state = "incoming_call_active",
           NEW kind \in PendingKinds["incoming_call_active"],
           NEW ti \in Transaction
    PROVE  Good(QueueDownlink(s, kind, ti))
<1>1. "incoming_call_active" \in State
  BY DEF State, PendingKinds
<1>2. kind \in DownlinkKind
  BY <1>1, PendingKindsType
<1>3. Message(kind, ti) \in DownlinkMessage /\ Message(kind, ti).kind = kind
  BY <1>2 DEF Message, DownlinkMessage
<1> HIDE DEF Message
<1> QED
  BY <1>3 DEF Good, QueueDownlink, SessionState

LEMMA SwitchLegGood ==
    ASSUME NEW s, Good(s), s.state = "incoming_call_active",
           NEW ti \in Transaction, NEW from, NEW to \in LegState,
           NEW kind \in PendingKinds["incoming_call_active"]
    PROVE  Good(SwitchLeg(s, ti, from, to, kind))
<1> DEFINE switched == SetCallLegState(s, CallLegIndex(s, ti), to)
<1>1. switched \in SessionState /\ switched.state = s.state
  BY SetLegType DEF Good
<1> HIDE DEF switched
<1>2. Good(QueueDownlink(switched, kind, ti))
  BY <1>1, QueueInCallGood
<1> QED
  BY <1>2 DEF SwitchLeg, switched

LEMMA ConferenceType ==
    ASSUME NEW s \in SessionState, NEW legs \in [Leg -> LegState],
           NEW is_active \in BOOLEAN, NEW is_held \in BOOLEAN
    PROVE  LET t == [[s EXCEPT !.call.leg_states = legs] EXCEPT
                        !.call.multiparty_active = is_active,
                        !.call.multiparty_held = is_held]
           IN  t \in SessionState /\ t.state = s.state
<1> DEFINE moved == [s EXCEPT !.call.leg_states = legs]
<1>1. moved \in SessionState /\ moved.state = s.state
  BY DEF SessionState, CallState
<1> HIDE DEF moved
<1>2. [moved EXCEPT !.call.multiparty_active = is_active,
                    !.call.multiparty_held = is_held] \in SessionState
  BY <1>1 DEF SessionState, CallState
<1>3. [moved EXCEPT !.call.multiparty_active = is_active,
                    !.call.multiparty_held = is_held].state = s.state
  BY <1>1 DEF SessionState
<1> QED
  BY <1>2, <1>3 DEF moved

LEMMA MultipartyGood ==
    ASSUME NEW s, Good(s), s.state = "incoming_call_active",
           NEW m, m.transaction \in Transaction
    PROVE  Good(ReceiveMultiparty(s, m))
<1> DEFINE selected == CallLegIndex(s, m.transaction)
           all_active == [leg \in Leg |-> "active"]
           all_held == [leg \in Leg |-> "held"]
           split == [leg \in Leg |-> IF leg = selected THEN "active" ELSE "held"]
           Conference(legs, is_active, is_held) ==
             [[s EXCEPT !.call.leg_states = legs] EXCEPT
                 !.call.multiparty_active = is_active,
                 !.call.multiparty_held = is_held]
           Kept(t) == t \in SessionState /\ t.state = "incoming_call_active"
           joined == Conference(all_active, TRUE, FALSE)
           parked == Conference(all_held, TRUE, TRUE)
           parted == Conference(split, FALSE, FALSE)
<1>1. /\ all_active \in [Leg -> LegState] /\ all_held \in [Leg -> LegState]
      /\ split \in [Leg -> LegState]
  BY DEF LegState
<1> HIDE DEF all_active, all_held, split
<1>2. Kept(s) /\ Kept(joined) /\ Kept(parked) /\ Kept(parted)
  BY <1>1, ConferenceType DEF Good
<1> HIDE DEF joined, parked, parted
<1>3. "multiparty_facility_result" \in PendingKinds["incoming_call_active"]
  BY DEF PendingKinds
<1>4. ASSUME NEW t \in {s, joined, parked, parted}
      PROVE  Good(QueueDownlink(t, "multiparty_facility_result", m.transaction))
  BY <1>2, <1>3, QueueInCallGood
<1>5. PICK t \in {s, joined, parked, parted} :
         ReceiveMultiparty(s, m) =
            QueueDownlink(t, "multiparty_facility_result", m.transaction)
  BY DEF ReceiveMultiparty, AllLegs, joined, parked, parted, all_active,
         all_held, split
<1> QED
  BY <1>4, <1>5

LEMMA InCallGood ==
    ASSUME NEW s, NEW m \in HandsetMessage, Good(s),
           s.state = "incoming_call_active"
    PROVE  Good(ReceiveInCall(s, m))
<1> DEFINE second == [s EXCEPT !.call.second_mobile_originated = TRUE]
<1>1. s \in SessionState /\ second \in SessionState
  BY DEF Good, SessionState, CallState
<1>2. m.transaction \in Transaction
  BY DEF HandsetMessage
<1> HIDE DEF second
<1>3. /\ "awaiting_second_cm_service_accept_acknowledgement" \in State
      /\ "cm_service_accept" \in
            PendingKinds["awaiting_second_cm_service_accept_acknowledgement"]
      /\ {"start_dtmf_acknowledge", "stop_dtmf_acknowledge",
          "call_hold_acknowledge", "call_retrieve_acknowledge"}
            \subseteq PendingKinds["incoming_call_active"]
  BY DEF State, PendingKinds
<1>4. Good(Answer(second, "awaiting_second_cm_service_accept_acknowledgement",
                  "cm_service_accept"))
  BY <1>1, <1>3, AnswerGood
<1>5. Good(SecondCmServiceRequest(s))
  BY <1>4 DEF SecondCmServiceRequest, second
<1>6. /\ Good(QueueDownlink(s, "start_dtmf_acknowledge", m.transaction))
      /\ Good(QueueDownlink(s, "stop_dtmf_acknowledge", m.transaction))
  BY <1>1, <1>2, <1>3, QueueInCallGood
<1>7. "held" \in LegState /\ "active" \in LegState
  BY DEF LegState
<1>8. /\ Good(SwitchLeg(s, m.transaction, "active", "held",
                        "call_hold_acknowledge"))
      /\ Good(SwitchLeg(s, m.transaction, "held", "active",
                        "call_retrieve_acknowledge"))
  BY <1>2, <1>3, <1>7, SwitchLegGood
<1>9. Good(ReceiveMultiparty(s, m))
  BY <1>2, MultipartyGood
<1> QED
  BY <1>5, <1>6, <1>8, <1>9 DEF ReceiveInCall

LEMMA CallControlGood ==
    ASSUME NEW s, NEW n \in Network, NEW m \in HandsetMessage, Good(s)
    PROVE  Good(ReceiveCallControl(s, n, m))
<1>1. m.transaction \in Transaction
  BY DEF HandsetMessage
<1>2. /\ Good(ReceiveCallConfirmed(s)) /\ Good(ReceiveAlerting(s, n))
      /\ Good(ReceiveConnect(s, m.transaction))
      /\ Good(ReceiveDisconnect(s, m.transaction))
  BY <1>1, CallConfirmedGood, AlertingGood, ConnectGood, DisconnectGood
<1>3. s.state = "incoming_call_active" => Good(ReceiveInCall(s, m))
  BY InCallGood
<1> QED
  BY <1>2, <1>3 DEF ReceiveCallControl

------------------------------------------------------------------------------
(* receive_layer3: the end of a call *)

LEMMA AfterDisconnectGood ==
    ASSUME NEW s, NEW m \in HandsetMessage, Good(s)
    PROVE  Good(ReceiveAfterDisconnect(s, m))
<1> DEFINE quiet == [s EXCEPT !.call.release_waiting = FALSE]
           answered == IF m.kind \in CallControlKind THEN quiet ELSE s
           received == [answered EXCEPT !.call.release_complete_received = TRUE]
<1>6. /\ s \in SessionState /\ quiet \in SessionState
      /\ quiet.state = s.state /\ quiet.pending = s.pending
      /\ quiet.handover_target_arfcn = s.handover_target_arfcn
  BY DEF Good, SessionState, CallState
<1> HIDE DEF quiet
<1>1. /\ answered \in SessionState
      /\ answered.state = s.state /\ answered.pending = s.pending
      /\ answered.handover_target_arfcn = s.handover_target_arfcn
  BY <1>6
<1> HIDE DEF answered
<1>2. received \in SessionState
  BY <1>1 DEF SessionState, CallState
<1> HIDE DEF received
<1>3. m.transaction \in Transaction
  BY DEF HandsetMessage
<1>4. /\ "awaiting_call_release_acknowledgement" \in State
      /\ "release_complete" \in
            PendingKinds["awaiting_call_release_acknowledgement"]
  BY DEF State, PendingKinds
<1>5. /\ Good(AnswerCall(answered, "awaiting_call_release_acknowledgement",
                         "release_complete", m.transaction))
      /\ Good(BeginChannelRelease(received)) /\ Good(answered)
  BY <1>1, <1>2, <1>3, <1>4, AnswerCallGood, ReleaseGood, SameGood
<1> QED
  BY <1>5 DEF ReceiveAfterDisconnect, received, answered, quiet

LEMMA AssignmentCompleteGood ==
    ASSUME NEW s, Good(s), s.state = "awaiting_assignment_complete"
    PROVE  Good(ReceiveAssignmentComplete(s))
<1> DEFINE alerted == [s EXCEPT !.call.alerting = TRUE]
<1>1. s \in SessionState /\ s.pending.kind = "none"
  BY DEF Good, PendingKinds
<1>4. alerted \in SessionState /\ s.call.transaction \in Transaction
  BY <1>1 DEF SessionState, CallState
<1>2. /\ "awaiting_call_alerting_acknowledgement" \in State
      /\ "call_alerting" \in
            PendingKinds["awaiting_call_alerting_acknowledgement"]
      /\ "incoming_call_active" \in State
      /\ "none" \in PendingKinds["incoming_call_active"]
  BY DEF State, PendingKinds
<1> HIDE DEF alerted
<1>3. /\ Good(AnswerCall(alerted, "awaiting_call_alerting_acknowledgement",
                         "call_alerting", s.call.transaction))
      /\ Good(InState(s, "incoming_call_active"))
  BY <1>1, <1>2, <1>4, AnswerCallGood, InStateGood
<1> QED
  BY <1>3 DEF ReceiveAssignmentComplete, alerted

LEMMA ConnectAcknowledgeGood ==
    ASSUME NEW s, Good(s)
    PROVE  Good(ReceiveConnectAcknowledge(s))
<1> DEFINE quiet == [s EXCEPT !.call.alerting = FALSE,
                              !.call.release_waiting = FALSE]
           leg == CallLegIndex(s, s.call.transaction)
           active == SetCallLegState(quiet, leg, "active")
<1>1. quiet \in SessionState /\ "active" \in LegState
  BY DEF Good, SessionState, CallState, LegState
<1> HIDE DEF quiet, leg
<1>2. active \in SessionState
  BY <1>1, SetLegType
<1> HIDE DEF active
<1>3. Good(Settle(active, "incoming_call_active"))
  BY <1>2, SettledGood
<1>4. Good(ApplyOutgoingTermination(Settle(active, "incoming_call_active")))
  BY <1>3, ApplyTerminationGood
<1> QED
  BY <1>4 DEF ReceiveConnectAcknowledge, active, quiet, leg

LEMMA FinalReleaseGood ==
    ASSUME NEW s, Good(s), s.state = "awaiting_release_complete"
    PROVE  Good(ReceiveFinalReleaseComplete(s))
<1> DEFINE completed == s.incoming_service # "none"
           call == [CallReset EXCEPT !.release_waiting = s.call.release_waiting,
                                     !.forwarded = s.call.forwarded,
                                     !.no_reply_timer = s.call.no_reply_timer]
           outgoing == ClearOutgoing([s.outgoing EXCEPT !.request_pending = FALSE])
           ussd == [s.ussd EXCEPT !.request_pending = FALSE]
           ended == [s EXCEPT !.established = "none",
                              !.release_completes_registration = FALSE,
                              !.mobile_originated = "none",
                              !.incoming_service_completed = completed,
                              !.incoming_service = "none",
                              !.call = call,
                              !.outgoing = outgoing,
                              !.ussd = ussd]
<1>1. s \in SessionState /\ s.pending.kind = "none" /\ completed \in BOOLEAN
  BY DEF Good, PendingKinds
<1> HIDE DEF completed
<1>2. CallReset \in CallState
  BY DEF CallReset, CallState, Leg, LegState, NoLeg
<1>3. call \in CallState
  BY <1>1, <1>2 DEF SessionState, CallState
<1>4. outgoing \in OutgoingState
  BY <1>1, ClearOutgoingType DEF SessionState
<1>5. ussd \in UssdState
  BY <1>1 DEF SessionState, UssdState
<1> HIDE DEF call, outgoing, ussd
<1>6. ended \in SessionState /\ ended.pending = s.pending
  BY <1>1, <1>3, <1>4, <1>5 DEF SessionState, IncomingService, Originated
<1> HIDE DEF ended
<1>7. "idle" \in State /\ "none" \in PendingKinds["idle"]
  BY DEF State, PendingKinds
<1>8. Good(InState(ended, "idle"))
  BY <1>1, <1>6, <1>7, InStateGood
<1>9. Good(ClearDedicatedCipher(InState(ended, "idle")))
  BY <1>8, ClearCipherType, SameGood DEF Good
<1>10. ReceiveFinalReleaseComplete(s)
         = ClearDedicatedCipher(InState(ended, "idle"))
  BY <1>1 DEF ReceiveFinalReleaseComplete, ended, completed, call, outgoing,
              ussd, SessionState
<1> QED
  BY <1>9, <1>10

------------------------------------------------------------------------------
(* receive_layer3: short messages *)

LEMMA DeliveryAnswerGood ==
    ASSUME NEW s, NEW m, Good(s)
    PROVE  Good(ReceiveDeliveryAnswer(s, m))
<1> DEFINE delivered == m.kind = "rp_ack"
           taken == [s EXCEPT !.sms.cp_data_acknowledged = TRUE]
           answered == [s EXCEPT !.sms.rp_acknowledged = delivered]
<1>1. s \in SessionState /\ delivered \in BOOLEAN
  BY DEF Good
<1> HIDE DEF delivered
<1>2. /\ taken \in SessionState /\ answered \in SessionState
      /\ taken.state = s.state /\ taken.pending = s.pending
      /\ taken.handover_target_arfcn = s.handover_target_arfcn
  BY <1>1 DEF SessionState, SmsState
<1> HIDE DEF taken, answered
<1>3. /\ "awaiting_sms_cp_ack_acknowledgement" \in State
      /\ "sms_cp_ack" \in PendingKinds["awaiting_sms_cp_ack_acknowledgement"]
  BY DEF State, PendingKinds
<1>4. /\ Good(Answer(answered, "awaiting_sms_cp_ack_acknowledgement", "sms_cp_ack"))
      /\ Good(taken)
  BY <1>2, <1>3, AnswerGood, SameGood
<1> QED
  BY <1>4 DEF ReceiveDeliveryAnswer, delivered, taken, answered

LEMMA SubmitGood ==
    ASSUME NEW s, NEW n, NEW m, Good(s), s.state = "awaiting_mobile_sms_submit"
    PROVE  Good(ReceiveSubmit(s, n, m))
<1> DEFINE report == m.kind = "submit_with_report"
           id == NextRequestId(s.sms.request_id)
           asked == [s EXCEPT !.sms.status_report_requested = report,
                              !.sms.request_id = id,
                              !.sms.request_pending = TRUE,
                              !.sms.decision_accepted = FALSE]
<1>1. /\ s \in SessionState /\ s.pending.kind = "none"
      /\ report \in BOOLEAN /\ s.sms.request_id \in RequestId
  BY DEF Good, PendingKinds, SessionState, SmsState
<1>2. id \in RequestId
  BY <1>1, NextRequestIdType
<1> HIDE DEF report, id
<1>3. asked \in SessionState /\ asked.pending = s.pending
  BY <1>1, <1>2 DEF SessionState, SmsState
<1> HIDE DEF asked
<1>4. /\ "awaiting_mobile_sms_timeout" \in State
      /\ "none" \in PendingKinds["awaiting_mobile_sms_timeout"]
      /\ "awaiting_mobile_sms_cp_ack_acknowledgement" \in State
      /\ "sms_cp_ack" \in
            PendingKinds["awaiting_mobile_sms_cp_ack_acknowledgement"]
  BY DEF State, PendingKinds
<1>5. /\ Good(InState(asked, "awaiting_mobile_sms_timeout"))
      /\ Good(Answer(asked, "awaiting_mobile_sms_cp_ack_acknowledgement",
                     "sms_cp_ack"))
  BY <1>1, <1>3, <1>4, InStateGood, AnswerGood
<1> QED
  BY <1>5 DEF ReceiveSubmit, report, id, asked

LEMMA SmsGood ==
    ASSUME NEW s, NEW n, NEW m, Good(s)
    PROVE  Good(ReceiveSms(s, n, m))
<1>1. Good(ReceiveDeliveryAnswer(s, m)) /\ Good(BeginChannelRelease(s))
  BY DeliveryAnswerGood, ReleaseGood DEF Good
<1>2. s.state = "awaiting_mobile_sms_submit" => Good(ReceiveSubmit(s, n, m))
  BY SubmitGood
<1> QED
  BY <1>1, <1>2 DEF ReceiveSms

------------------------------------------------------------------------------
(* receive_layer3: handover, and the whole *)

LEMMA HandoverEndedGood ==
    ASSUME NEW s \in SessionState, NEW arfcn \in Cells
    PROVE  Good(HandoverEnded(s, arfcn))
<1> DEFINE moved == [s EXCEPT !.serving_arfcn = arfcn,
                              !.handover_target_arfcn = NoCell]
<1>1. moved \in SessionState
  BY DEF SessionState
<1> HIDE DEF moved
<1>2. Good(Settle(moved, "incoming_call_active"))
  BY <1>1, SettledGood
<1> QED
  BY <1>2 DEF HandoverEnded, moved

LEMMA HandoverResultGood ==
    ASSUME NEW s, NEW m, Good(s), s.state = "awaiting_handover_result"
    PROVE  Good(ReceiveHandoverResult(s, m))
<1>1. /\ s \in SessionState
      /\ s.handover_target_arfcn \in Cells /\ s.serving_arfcn \in Cells
  BY DEF Good, SessionState
<1>2. /\ Good(HandoverEnded(s, s.handover_target_arfcn))
      /\ Good(HandoverEnded(s, s.serving_arfcn))
  BY <1>1, HandoverEndedGood
<1> QED
  BY <1>2 DEF ReceiveHandoverResult

LEMMA MainLinkGood ==
    ASSUME NEW s, NEW n \in Network, NEW m \in HandsetMessage, Good(s)
    PROVE  Good(ReceiveMainLink(s, n, m))
<1> DEFINE received == [s EXCEPT !.call.release_complete_received = TRUE]
<1>1. s \in SessionState /\ received \in SessionState
  BY DEF Good, SessionState, CallState
<1> HIDE DEF received
<1>2. m.transaction \in Transaction
  BY DEF HandsetMessage
<1>3. /\ s.state = "awaiting_handover_result" => Good(ReceiveHandoverResult(s, m))
      /\ s.state = "awaiting_supplementary_request"
           => Good(ReceiveSupplementary(s, n, m))
      /\ s.state = "awaiting_assignment_complete"
           => Good(ReceiveAssignmentComplete(s))
      /\ s.state = "awaiting_release_complete"
           => Good(ReceiveFinalReleaseComplete(s))
  BY HandoverResultGood, SupplementaryGood, AssignmentCompleteGood,
     FinalReleaseGood
<1>4. /\ Good(ReceiveContinuation(s, m)) /\ Good(ReceiveNetworkUssdAnswer(s, m))
      /\ Good(ReceiveAuthenticationResponse(s, n, m))
      /\ Good(ReceiveSetup(s, n, m.transaction))
      /\ Good(ReceiveCallControl(s, n, m)) /\ Good(ReceiveAfterDisconnect(s, m))
      /\ Good(BeginChannelRelease(received))
      /\ Good(ReceiveConnectAcknowledge(s))
  BY <1>1, <1>2, SupplementaryAnswerGood, AuthenticationResponseGood, SetupGood,
     CallControlGood, AfterDisconnectGood, ReleaseGood, ConnectAcknowledgeGood
<1> QED
  BY <1>3, <1>4 DEF ReceiveMainLink, received

LEMMA ReceiveLayer3Good ==
    ASSUME NEW s, NEW n \in Network, NEW m \in HandsetMessage, Good(s)
    PROVE  Good(ReceiveLayer3(s, n, m))
<1>1. /\ Good(ReceiveSms(s, n, m)) /\ Good(ReceiveCipherModeComplete(s))
      /\ Good(ReceiveMainLink(s, n, m))
  BY SmsGood, CipherModeCompleteGood, MainLinkGood
<1> QED
  BY <1>1 DEF ReceiveLayer3

------------------------------------------------------------------------------
(* The host, the timers and the radio peer's own entry points *)

LEMMA QueueIncomingPageGood ==
    ASSUME NEW s \in SessionState, NEW service \in IncomingService,
           s.pending.kind = "none"
    PROVE  Good(QueueIncomingPage(s, service))
<1> DEFINE continuing == s.incoming_service_completed
                           /\ s.incoming_service = service
           index == IF continuing THEN s.sms.delivery_index ELSE 0
           paged == [s EXCEPT
             !.incoming_service = service,
             !.call.traffic_assignment_issued = FALSE,
             !.call.answered = FALSE,
             !.incoming_service_completed = FALSE,
             !.sms.delivery_index = index]
<1>1. index \in Nat
  BY DEF SessionState, SmsState
<1> HIDE DEF continuing, index
<1>2. paged \in SessionState /\ paged.pending = s.pending
  BY <1>1 DEF SessionState, CallState, SmsState
<1> HIDE DEF paged
<1>3. /\ "awaiting_paging_response" \in State
      /\ "none" \in PendingKinds["awaiting_paging_response"]
  BY DEF State, PendingKinds
<1>4. Good(InState(paged, "awaiting_paging_response"))
  BY <1>2, <1>3, InStateGood
<1> QED
  BY <1>4 DEF QueueIncomingPage, paged, index, continuing

LEMMA CancelGood ==
    ASSUME NEW s \in SessionState
    PROVE  Good(CancelQueuedIncomingService(s))
<1> DEFINE cancelled == [s EXCEPT !.incoming_service = "none",
                                  !.incoming_service_completed = FALSE]
<1>1. cancelled \in SessionState
  BY DEF SessionState, IncomingService
<1> HIDE DEF cancelled
<1>2. Good(Settle(cancelled, "idle"))
  BY <1>1, SettledGood
<1> QED
  BY <1>2 DEF CancelQueuedIncomingService, cancelled

LEMMA QueueWaitingCallGood ==
    ASSUME NEW s, Good(s), s.state = "incoming_call_active", NEW duplicate
    PROVE  Good(QueueWaitingCall(s, duplicate))
<1> DEFINE queued == [s EXCEPT !.call.waiting_queued = TRUE]
           first == AlertLeg(queued, 1, 1)
<1>1. queued \in SessionState /\ queued.state = s.state /\ s \in SessionState
  BY DEF Good, SessionState, CallState
<1> HIDE DEF queued
<1>2. first \in SessionState /\ first.state = s.state
  BY <1>1, AlertLegType DEF Leg
<1> HIDE DEF first
<1>3. "incoming_call_setup" \in PendingKinds["incoming_call_active"]
  BY DEF PendingKinds
<1>4. /\ Good(QueueDownlink(s, "incoming_call_setup", 1))
      /\ Good(QueueDownlink(first, "incoming_call_setup", 1))
  BY <1>1, <1>2, <1>3, QueueInCallGood
<1> QED
  BY <1>4 DEF QueueWaitingCall, first, queued

LEMMA OutgoingTerminationGood ==
    ASSUME NEW s, Good(s), NEW id \in RequestId
    PROVE  Good(SubmitOutgoingTermination(s, id))
<1> DEFINE accepted == [s EXCEPT !.outgoing.termination_accepted = TRUE,
                                 !.outgoing.termination_request_id = id]
<1>1. /\ accepted \in SessionState
      /\ accepted.state = s.state /\ accepted.pending = s.pending
      /\ accepted.handover_target_arfcn = s.handover_target_arfcn
  BY DEF Good, SessionState, OutgoingState
<1> HIDE DEF accepted
<1>2. Good(accepted)
  BY <1>1, SameGood
<1>3. Good(ApplyOutgoingTermination(accepted))
  BY <1>2, ApplyTerminationGood
<1> QED
  BY <1>2, <1>3 DEF SubmitOutgoingTermination, accepted

LEMMA IncomingTerminationGood ==
    ASSUME NEW s \in SessionState
    PROVE  Good(SubmitIncomingTermination(s))
<1> DEFINE quiet == [s EXCEPT !.call.no_reply_timer = FALSE,
                              !.call.alerting = FALSE]
<1>1. quiet \in SessionState /\ s.call.transaction \in Transaction
  BY DEF SessionState, CallState
<1> HIDE DEF quiet
<1>2. /\ "awaiting_network_disconnect_acknowledgement" \in State
      /\ "call_disconnect" \in
            PendingKinds["awaiting_network_disconnect_acknowledgement"]
  BY DEF State, PendingKinds
<1>3. Good(AnswerCall(quiet, "awaiting_network_disconnect_acknowledgement",
                      "call_disconnect", s.call.transaction))
  BY <1>1, <1>2, AnswerCallGood
<1> QED
  BY <1>3 DEF SubmitIncomingTermination, quiet

LEMMA NoReplyTimerGood ==
    ASSUME NEW s, NEW n, Good(s)
    PROVE  Good(NoReplyTimer(s, n))
<1> DEFINE fired == [s EXCEPT !.call.no_reply_timer = FALSE]
           ended == SubmitIncomingTermination(fired)
           diverted == [ended EXCEPT !.call.forwarded = TRUE]
<1>1. /\ fired \in SessionState
      /\ fired.state = s.state /\ fired.pending = s.pending
      /\ fired.handover_target_arfcn = s.handover_target_arfcn
  BY DEF Good, SessionState, CallState
<1> HIDE DEF fired
<1>2. Good(fired) /\ Good(ended)
  BY <1>1, SameGood, IncomingTerminationGood
<1> HIDE DEF ended
<1>3. /\ diverted \in SessionState
      /\ diverted.state = ended.state /\ diverted.pending = ended.pending
      /\ diverted.handover_target_arfcn = ended.handover_target_arfcn
  BY <1>2 DEF Good, SessionState, CallState
<1> HIDE DEF diverted
<1>4. Good(diverted)
  BY <1>2, <1>3, SameGood
<1> QED
  BY <1>2, <1>4 DEF NoReplyTimer, diverted, ended, fired

LEMMA DecisionTimerGood ==
    ASSUME NEW s, NEW n \in Network, Good(s)
    PROVE  Good(OutgoingDecisionTimer(s, n))
<1> DEFINE fired == [s EXCEPT !.outgoing.decision_timer = FALSE]
<1>1. /\ fired \in SessionState
      /\ fired.state = s.state /\ fired.pending = s.pending
      /\ fired.handover_target_arfcn = s.handover_target_arfcn
      /\ s.outgoing.policy_request_id \in RequestId
  BY DEF Good, SessionState, OutgoingState
<1> HIDE DEF fired
<1>2. Good(fired) /\ n.call_outcome \in CallOutcome
  BY <1>1, SameGood DEF Network
<1>3. Good(SubmitOutgoingDecision(fired, s.outgoing.policy_request_id,
                                  n.call_outcome))
  BY <1>1, <1>2, SubmitDecisionGood
<1> QED
  BY <1>2, <1>3 DEF OutgoingDecisionTimer, fired

LEMMA SmsDecisionGood ==
    ASSUME NEW s, NEW id, NEW outcome \in SmsOutcome, Good(s)
    PROVE  Good(SubmitOutgoingSmsDecision(s, id, outcome))
<1> DEFINE accepted == [s EXCEPT !.sms.decision_accepted = TRUE,
                                 !.sms.decision = outcome]
<1>1. /\ accepted \in SessionState
      /\ accepted.state = s.state /\ accepted.pending = s.pending
      /\ accepted.handover_target_arfcn = s.handover_target_arfcn
  BY DEF Good, SessionState, SmsState
<1> HIDE DEF accepted
<1>2. Good(accepted) /\ Good(AnswerSubmit(accepted, outcome))
  BY <1>1, SameGood, AnswerSubmitGood
<1> QED
  BY <1>2 DEF SubmitOutgoingSmsDecision, accepted

LEMMA UssdResponseGood ==
    ASSUME NEW s, NEW id, Good(s)
    PROVE  Good(SubmitUssdResponse(s, id)) /\ Good(TerminateNetworkUssd(s))
  BY SupplementaryReleaseGood DEF Good, SubmitUssdResponse, TerminateNetworkUssd

LEMMA MobileReleaseGood ==
    ASSUME NEW s, Good(s)
    PROVE  Good(MobileLinkReleaseAcknowledged(s))
<1> DEFINE ended == [s EXCEPT !.established = "none",
                              !.mobile_originated = "none",
                              !.sms.request_pending = FALSE,
                              !.sms.decision_accepted = FALSE,
                              !.sms.cp_data_acknowledged = FALSE,
                              !.sms.rp_acknowledged = FALSE,
                              !.sms.status_report_requested = FALSE]
<1>1. ended \in SessionState
  BY DEF Good, SessionState, SmsState, Originated
<1> HIDE DEF ended
<1>2. Good(Settle(ended, "idle"))
  BY <1>1, SettledGood
<1>3. Good(ClearDedicatedCipher(Settle(ended, "idle")))
  BY <1>2, ClearCipherType, SameGood DEF Good
<1> QED
  BY <1>3 DEF MobileLinkReleaseAcknowledged, ended

LEMMA RadioEntryGood ==
    ASSUME NEW s, Good(s), NEW target \in Cells
    PROVE  /\ Good(MobileSmsSapi3Established(s)) /\ Good(BeginTrafficAssignment(s))
           /\ Good(BeginHandover(s, target))
<1> DEFINE aimed == [s EXCEPT !.handover_target_arfcn = target]
<1>1. /\ s \in SessionState
      /\ aimed \in SessionState /\ aimed.handover_target_arfcn = target
  BY DEF Good, SessionState
<1> HIDE DEF aimed
<1>2. /\ "awaiting_mobile_sms_submit" \in State
      /\ "none" \in PendingKinds["awaiting_mobile_sms_submit"]
      /\ "awaiting_handover_result" \in State
      /\ "handover_command" \in PendingKinds["awaiting_handover_result"]
      /\ "handover_command" \in DownlinkKind
  BY DEF State, PendingKinds, DownlinkKind
<1>3. Good(BeginTrafficAssignment(s))
  BY <1>1, SettledGood DEF BeginTrafficAssignment
<1>4. s.state = "awaiting_mobile_sms_sapi3_establishment"
        => s.pending.kind = "none"
  BY DEF Good, PendingKinds
<1>5. Good(MobileSmsSapi3Established(s))
  BY <1>1, <1>2, <1>4, InStateGood DEF MobileSmsSapi3Established
<1>6. Message("handover_command", 0) \in DownlinkMessage
        /\ Message("handover_command", 0).kind = "handover_command"
  BY <1>2 DEF Message, DownlinkMessage
<1>7. Good(Answer(aimed, "awaiting_handover_result", "handover_command"))
  BY <1>1, <1>2, <1>6
     DEF Good, Answer, QueueDownlink, InState, SessionState
<1> QED
  BY <1>3, <1>5, <1>7 DEF BeginHandover, aimed

------------------------------------------------------------------------------
(* The inductive invariant *)

IInv ==
    /\ Good(session)
    /\ network \in Network
    /\ link \in LinkPhase
    /\ outstanding \in [Sapis -> DownlinkMessage]

LEMMA InitInv == Init => IInv
<1> SUFFICES ASSUME Init PROVE IInv
  OBVIOUS
<1>1. Good(session)
  <2>1. PICK arfcn \in Cells : session = DeviceReset(FALSE, arfcn, "accept")
    BY TrafficAssumption DEF Init
  <2>2. "accept" \in SmsOutcome
    BY DEF SmsOutcome
  <2> QED
    BY <2>1, <2>2, ResetGood
<1>2. network \in Network
  BY TrafficAssumption DEF Init
<1>3. link \in LinkPhase
  BY DEF Init, LinkPhase
<1>4. outstanding \in [Sapis -> DownlinkMessage]
  BY NoMessageType DEF Init, Nothing
<1> QED
  BY <1>1, <1>2, <1>3, <1>4 DEF IInv

\* The rest of the invariant, once a step is known to keep the session.
LEMMA StepInv ==
    ASSUME IInv, Good(session'), network' \in Network, link' \in LinkPhase,
           \/ outstanding' = outstanding
           \/ \E sapi \in Sapis, message \in DownlinkMessage :
                outstanding' = [outstanding EXCEPT ![sapi] = message]
    PROVE  IInv'
  BY DEF IInv

LEMMA LinkInv ==
    ASSUME IInv,
           \/ \E request \in Establishment, arfcn \in Cells :
                Establish(request, arfcn)
           \/ ContentionResolved \/ Transmit \/ MoveToTraffic
           \/ TrafficEstablished \/ HandsetEstablishesSapi3
           \/ HandsetDisconnectsLink \/ ReleaseConfigured
    PROVE  IInv'
<1> USE NoMessageType DEF Sapis
<1>1. CASE \E request \in Establishment, arfcn \in Cells :
             Establish(request, arfcn)
  <2>1. PICK request \in Establishment, arfcn \in Cells :
          Establish(request, arfcn)
    BY <1>1
  <2>2. Good(session')
    BY <2>1, EstablishGood DEF IInv, Establish
  <2> QED
    BY <2>1, <2>2, StepInv DEF IInv, Establish, LinkPhase
<1>2. CASE ContentionResolved
  <2>1. Good(session')
    BY <1>2, ContentionGood DEF IInv, ContentionResolved
  <2> QED
    BY <1>2, <2>1, StepInv DEF IInv, ContentionResolved, LinkPhase
<1>3. CASE Transmit
  <2>1. session.pending \in DownlinkMessage /\ SapiOf(session.pending) \in Sapis
    BY DEF IInv, Good, SessionState, SapiOf
  <2> QED
    BY <1>3, <2>1, StepInv DEF IInv, Transmit, LinkPhase
<1>4. CASE MoveToTraffic
  <2>1. PICK arfcn : arfcn \in Cells
    BY DEF IInv, Good, SessionState
  <2>2. Good(session')
    BY <1>4, <2>1, RadioEntryGood DEF IInv, MoveToTraffic
  <2> QED
    BY <1>4, <2>2, StepInv DEF IInv, MoveToTraffic, LinkPhase
<1>5. CASE TrafficEstablished
  BY <1>5, StepInv DEF IInv, TrafficEstablished, LinkPhase
<1>6. CASE HandsetEstablishesSapi3
  <2>1. PICK arfcn : arfcn \in Cells
    BY DEF IInv, Good, SessionState
  <2>2. Good(session')
    BY <1>6, <2>1, RadioEntryGood DEF IInv, HandsetEstablishesSapi3
  <2> QED
    BY <1>6, <2>2, StepInv DEF IInv, HandsetEstablishesSapi3, LinkPhase
<1>7. CASE HandsetDisconnectsLink
  <2>1. Good(session')
    BY <1>7, MobileReleaseGood DEF IInv, HandsetDisconnectsLink
  <2> QED
    BY <1>7, <2>1, StepInv DEF IInv, HandsetDisconnectsLink, LinkPhase
<1>8. CASE ReleaseConfigured
  <2>1. Good(session')
    BY <1>8, DownlinkAcknowledgedGood DEF IInv, ReleaseConfigured
  <2> QED
    BY <1>8, <2>1, StepInv DEF IInv, ReleaseConfigured, LinkPhase
<1> QED
  BY <1>1, <1>2, <1>3, <1>4, <1>5, <1>6, <1>7, <1>8

LEMMA AcknowledgeInv ==
    ASSUME IInv, NEW sapi \in Sapis, Acknowledge(sapi)
    PROVE  IInv'
<1> DEFINE freed == [outstanding EXCEPT ![sapi] = NoMessage]
<1>1. Good(session')
  BY DownlinkAcknowledgedGood DEF IInv, Acknowledge
<1>2. freed \in [Sapis -> DownlinkMessage]
  BY NoMessageType DEF IInv
<1>3. outstanding' \in [Sapis -> DownlinkMessage]
  BY <1>2, NoMessageType DEF Acknowledge, Sapis
<1>4. link' \in LinkPhase /\ network' \in Network
  BY DEF Acknowledge, LinkAfter, LinkPhase, IInv
<1> QED
  BY <1>1, <1>3, <1>4 DEF IInv

LEMMA ReceiveInv ==
    ASSUME IInv, NEW m \in HandsetMessage, Receive(m)
    PROVE  IInv'
<1>1. Good(session')
  BY ReceiveLayer3Good DEF IInv, Receive
<1>2. network' \in Network
  BY ServeForwardingType DEF IInv, Receive
<1>3. link' \in LinkPhase /\ outstanding' = outstanding
  BY DEF Receive, LinkAfter, LinkPhase
<1> QED
  BY <1>1, <1>2, <1>3, StepInv

LEMMA FailureInv ==
    ASSUME IInv, LinkFailed \/ Reset
    PROVE  IInv'
<1>1. session \in SessionState
  BY DEF IInv, Good
<1>2. session.serving_arfcn \in Cells /\ session.sms.decision \in SmsOutcome
  BY <1>1 DEF SessionState, SmsState
<1>3. CASE LinkFailed
  <2>1. Good(session')
    BY <1>1, <1>3, LinkFailedGood DEF LinkFailed
  <2> QED
    BY <1>3, <2>1, StepInv, NoMessageType DEF IInv, LinkFailed, LinkPhase
<1>4. CASE Reset
  <2>1. Good(session')
    BY <1>2, <1>4, ResetGood DEF Reset
  <2>2. outstanding' \in [Sapis -> DownlinkMessage]
    BY <1>4, NoMessageType DEF Reset, Nothing
  <2> QED
    BY <1>4, <2>1, <2>2 DEF IInv, Reset, LinkPhase
<1> QED
  BY <1>3, <1>4

\* A host operation leaves the link and the network alone.
LEMMA HostInv ==
    ASSUME IInv, NEW s, Good(s), Host(s)
    PROVE  IInv'
  BY StepInv DEF IInv, Host

LEMMA PagingInv ==
    ASSUME IInv,
           \/ \E service \in IncomingService : Page(service)
           \/ Cancel
           \/ \E duplicate \in BOOLEAN : WaitingCall(duplicate)
           \/ TakeIncomingForwarded
    PROVE  IInv'
<1>1. session \in SessionState
  BY DEF IInv, Good
<1>2. CASE \E service \in IncomingService : Page(service)
  <2>1. PICK service \in IncomingService : Page(service)
    BY <1>2
  <2>2. session.pending.kind = "none"
    BY <2>1 DEF IInv, Good, Page, PendingKinds
  <2>3. Good(QueueIncomingPage(session, service))
    BY <1>1, <2>2, QueueIncomingPageGood
  <2> QED
    BY <2>1, <2>3, HostInv DEF Page
<1>3. CASE Cancel
  <2>1. Good(CancelQueuedIncomingService(session))
    BY <1>1, CancelGood
  <2> QED
    BY <1>3, <2>1, HostInv DEF Cancel
<1>4. CASE \E duplicate \in BOOLEAN : WaitingCall(duplicate)
  <2>1. PICK duplicate \in BOOLEAN : WaitingCall(duplicate)
    BY <1>4
  <2>2. Good(QueueWaitingCall(session, duplicate))
    BY <2>1, QueueWaitingCallGood DEF IInv, WaitingCall
  <2> QED
    BY <2>1, <2>2, HostInv DEF WaitingCall
<1>5. CASE TakeIncomingForwarded
  <2> DEFINE taken == [session EXCEPT !.call.forwarded = FALSE]
  <2>1. /\ taken \in SessionState
        /\ taken.state = session.state /\ taken.pending = session.pending
        /\ taken.handover_target_arfcn = session.handover_target_arfcn
    BY <1>1 DEF SessionState, CallState
  <2> HIDE DEF taken
  <2>2. Good(taken)
    BY <2>1, SameGood DEF IInv
  <2> QED
    BY <1>5, <2>2, HostInv DEF TakeIncomingForwarded, taken
<1> QED
  BY <1>2, <1>3, <1>4, <1>5

LEMMA DecisionInv ==
    ASSUME IInv, HostDecision \/ Timers
    PROVE  IInv'
<1>1. /\ session \in SessionState
      /\ session.outgoing.request_id \in RequestId
  BY DEF IInv, Good, SessionState, OutgoingState
<1>2. /\ \A outcome \in CallOutcome :
           Good(SubmitOutgoingDecision(session, session.outgoing.request_id,
                                       outcome))
      /\ Good(SubmitOutgoingTermination(session, session.outgoing.request_id))
      /\ \A outcome \in SmsOutcome :
           Good(SubmitOutgoingSmsDecision(session, session.sms.request_id,
                                          outcome))
      /\ Good(SubmitUssdResponse(session, session.ussd.request_id))
      /\ Good(SubmitIncomingTermination(session))
      /\ Good(TerminateNetworkUssd(session))
      /\ Good(NoReplyTimer(session, network))
      /\ Good(OutgoingDecisionTimer(session, network))
  BY <1>1, SubmitDecisionGood, OutgoingTerminationGood, SmsDecisionGood,
     UssdResponseGood, IncomingTerminationGood, NoReplyTimerGood,
     DecisionTimerGood DEF IInv
<1>3. CASE HostDecision
  <2>1. PICK s : Good(s) /\ Host(s)
    BY <1>2, <1>3 DEF HostDecision
  <2> QED
    BY <2>1, HostInv
<1>4. CASE Timers
  <2>1. PICK s : Good(s) /\ Host(s)
    BY <1>2, <1>4 DEF Timers
  <2> QED
    BY <2>1, HostInv
<1> QED
  BY <1>3, <1>4

LEMMA HandoverInv ==
    ASSUME IInv, Handover
    PROVE  IInv'
<1>1. session \in SessionState /\ session.serving_arfcn \in Cells
  BY DEF IInv, Good, SessionState
<1>2. CASE \E target \in Cells : Host(BeginHandover(session, target))
  <2>1. PICK target \in Cells : Host(BeginHandover(session, target))
    BY <1>2
  <2>2. Good(BeginHandover(session, target))
    BY RadioEntryGood DEF IInv
  <2> QED
    BY <2>1, <2>2, HostInv
<1>3. CASE /\ session.state = "awaiting_handover_result"
           /\ Host(ClearPendingDownlink(session))
  <2>1. "none" \in PendingKinds["awaiting_handover_result"]
    BY DEF PendingKinds
  <2>2. Good(ClearPendingDownlink(session))
    BY <1>3, <2>1, ClearPendingGood DEF IInv
  <2> QED
    BY <1>3, <2>2, HostInv
<1>4. CASE Host(HandoverEnded(session, session.serving_arfcn))
  <2>1. Good(HandoverEnded(session, session.serving_arfcn))
    BY <1>1, HandoverEndedGood
  <2> QED
    BY <1>4, <2>1, HostInv
<1>5. CASE /\ session.state = "awaiting_handover_result"
           /\ session' = QueueDownlink(session, "physical_information", 0)
           /\ outstanding' = [outstanding EXCEPT ![0] = NoMessage]
           /\ UNCHANGED <<network, link>>
  <2>1. /\ "physical_information" \in PendingKinds["awaiting_handover_result"]
        /\ "physical_information" \in DownlinkKind
    BY DEF PendingKinds, DownlinkKind
  <2>2. Message("physical_information", 0) \in DownlinkMessage
          /\ Message("physical_information", 0).kind = "physical_information"
    BY <2>1 DEF Message, DownlinkMessage
  <2>3. Good(QueueDownlink(session, "physical_information", 0))
    BY <1>5, <2>1, <2>2 DEF IInv, Good, QueueDownlink, SessionState
  <2> QED
    BY <1>5, <2>3, StepInv, NoMessageType DEF IInv, Sapis
<1> QED
  BY <1>2, <1>3, <1>4, <1>5 DEF Handover

LEMMA NextInv ==
    ASSUME IInv, scenario \in Scenarios, [Next]_vars
    PROVE  IInv'
<1>1. CASE UNCHANGED vars
  BY <1>1 DEF vars, IInv
<1>2. CASE Next
  <2>1. /\ scenario.establishments \subseteq Establishment
        /\ scenario.services \subseteq IncomingService
        /\ scenario.cells \subseteq Cells
    BY TrafficAssumption
  <2>2. HandsetMessages \subseteq HandsetMessage
    BY TrafficAssumption DEF HandsetMessages, HandsetMessage
  <2> QED
    BY <1>2, <2>1, <2>2, LinkInv, AcknowledgeInv, ReceiveInv, FailureInv, PagingInv,
       DecisionInv, HandoverInv DEF Next
<1> QED
  BY <1>1, <1>2

LEMMA SpecInv == Spec => []IInv
<1>1. Init => IInv /\ scenario \in Scenarios
  BY InitInv DEF Init
<1>2. scenario \in Scenarios /\ [Next]_vars => (scenario \in Scenarios)'
  BY DEF Next, vars
<1>3. IInv /\ scenario \in Scenarios /\ [Next]_vars => IInv'
  BY NextInv
<1> QED
  BY <1>1, <1>2, <1>3, PTL DEF Spec

(* Every handler leaves the session, the network's records, the link phase *)
(* and the outstanding messages of their types: in particular a completed  *)
(* handover always lands on a real cell (receive_layer3 takes the target   *)
(* ARFCN without a check), and a request identifier never leaves its range.*)
THEOREM TypeCorrect == Spec => []TypeOK
<1>1. IInv => TypeOK
  BY DEF IInv, Good, TypeOK
<1> QED
  BY <1>1, SpecInv, PTL

(* Whatever order host decisions, timers, crossing handset messages, link  *)
(* failures and acknowledgements come in, the message that awaits its      *)
(* acknowledgement is one the state has a clause for in                    *)
(* downlink_acknowledged(), so no transaction is wedged by a leftover.     *)
THEOREM PendingCorrect == Spec => []PendingMatchesState
<1>1. IInv => PendingMatchesState
  BY DEF IInv, Good, PendingMatchesState
<1> QED
  BY <1>1, SpecInv, PTL
==============================================================================
