-------------------------- MODULE GsmSessionDownlink --------------------------
(***************************************************************************)
(* What nokia_gsm_session_device does when the link reports that a         *)
(* downlink went through: contention_resolution_delivered after the UA of  *)
(* the handset's SABM, downlink_acknowledged when N(R) (or, for SAPI 3,    *)
(* the UA of the network's SABM) acknowledges a message.                   *)
(***************************************************************************)
EXTENDS GsmSessionState

\* establish_layer3 serves one request at a time.
Establishes(s, request) ==
    \/ s.state = "idle" /\ request \in LocationUpdate \cup CmService
    \/ s.state = "awaiting_paging_response" /\ request = "paging_response"

OriginatedBy(request) ==
    CASE request = "cm_call" -> "call"
      [] request = "cm_sms" -> "sms"
      [] request = "cm_supplementary" -> "supplementary"
      [] OTHER -> "none"

EstablishLayer3(s, request, arfcn) ==
    LET next == IF request = "paging_response"
                THEN "awaiting_paging_contention_resolution"
                ELSE "awaiting_contention_resolution"
    IN  IF Establishes(s, request)
        THEN Settle([s EXCEPT
               !.established = request,
               !.serving_arfcn = arfcn,
               !.release_completes_registration = request \in LocationUpdate,
               !.mobile_originated = OriginatedBy(request),
               !.incoming_service_completed = FALSE,
               !.call.transaction = 0,
               !.call.traffic_assignment_issued = FALSE], next)
        ELSE s

LocationUpdateReply(s, n) ==
    IF n.location_update_allowed
    THEN Answer(s, "awaiting_location_update_accept_acknowledgement",
                "location_update_accept")
    ELSE Answer([s EXCEPT !.release_completes_registration = FALSE],
                "awaiting_location_update_reject_acknowledgement",
                "location_update_reject")

RequestAuthentication(s) ==
    Answer(s, "awaiting_authentication_request_acknowledgement",
           "authentication_request")

\* The command carries the network's algorithm; A5/0 leaves nothing pending.
CommandCipherMode(s, n) ==
    Answer([s EXCEPT
              !.cipher.algorithm = IF n.ciphered THEN "a5_1" ELSE "a5_0",
              !.cipher.command_pending = n.ciphered],
           "awaiting_cipher_mode_command_acknowledgement",
           "cipher_mode_command")

\* A service on a ciphered network first needs a key.
CipherForService(s, n) ==
    IF n.ciphered /\ ~s.cipher.key_valid
    THEN RequestAuthentication(
           [s EXCEPT !.cipher.authentication_for_service = TRUE])
    ELSE CommandCipherMode(s, n)

ContentionResolutionDelivered(s, n) ==
    LET rejected == s.mobile_originated = "call"
                      /\ n.call_outcome = "service_reject"
        keyless == [s EXCEPT !.cipher.key_valid = FALSE,
                             !.cipher.authentication_for_service = FALSE]
        paged == s.state = "awaiting_paging_contention_resolution"
        served == s.state = "awaiting_contention_resolution"
                    /\ s.established \in CmService
        located == s.state = "awaiting_contention_resolution"
                     /\ s.established \notin CmService
    IN  CASE paged /\ s.incoming_service # "none" -> CipherForService(s, n)
          [] paged /\ s.incoming_service = "none" -> BeginChannelRelease(s)
          [] served /\ rejected ->
               Answer(s, "awaiting_cm_service_reject_acknowledgement",
                      "cm_service_reject")
          [] served /\ ~rejected /\ n.ciphered -> CipherForService(s, n)
          [] served /\ ~rejected /\ ~n.ciphered ->
               Answer(s, "awaiting_cm_service_accept_acknowledgement",
                      "cm_service_accept")
          [] located /\ n.authentication_required ->
               RequestAuthentication(keyless)
          [] located /\ ~n.authentication_required -> LocationUpdateReply(s, n)
          [] OTHER -> s

------------------------------------------------------------------------------
(* downlink_acknowledged, one operator per group of its clauses *)

Connecting(s) ==
    AnswerCall(s, "awaiting_outgoing_connect_acknowledgement",
               "call_connect", s.call.transaction)

\* A no_answer outcome leaves the call alerting until the host ends it.
AlertingAcknowledged(s) ==
    IF s.outgoing.decision = "no_answer"
    THEN ApplyOutgoingTermination(Settle(s, "outgoing_call_alerting"))
    ELSE Connecting(s)

ProceedingAcknowledged(s) ==
    IF s.outgoing.decision_accepted THEN ApplyOutgoingDecision(s)
    ELSE Settle(s, "awaiting_outgoing_decision")

AlertLeg(s, leg, ti) ==
    SetCallLegState([s EXCEPT !.call.leg_transactions[leg] = ti], leg, "alerting")

\* MM Information is where the services part.
InformationAcknowledged(s) ==
    CASE s.incoming_service = "call" ->
           AnswerCall(AlertLeg([s EXCEPT !.call.transaction = 0], 0, 0),
                      "awaiting_incoming_call_setup_acknowledgement",
                      "incoming_call_setup", 0)
      [] s.incoming_service \in {"sms", "status_report", "smart_message"} ->
           Answer(s, "awaiting_sms_sapi3_establishment", "sapi3_establishment")
      [] s.incoming_service \in {"ussd_request", "ussd_notification"} ->
           Answer(s, "awaiting_network_ussd_register_acknowledgement",
                  "supplementary_register")
      [] s.incoming_service = "none" /\ s.mobile_originated = "call"
           /\ s.cipher.active ->
           Settle(s, "awaiting_outgoing_call_setup")
      [] s.incoming_service = "none" /\ s.mobile_originated # "none"
           /\ ~(s.mobile_originated = "call" /\ s.cipher.active) ->
           Answer(s, "awaiting_cm_service_accept_acknowledgement",
                  "cm_service_accept")
      [] OTHER -> s

Sapi3Acknowledged(s) ==
    Answer([s EXCEPT !.sms.cp_data_acknowledged = FALSE,
                     !.sms.rp_acknowledged = FALSE],
           "awaiting_sms_cp_data_acknowledgement", "incoming_sms_cp_data")

\* The RP result of a submitted short message.
AnswerSubmit(s, outcome) ==
    CASE outcome = "rp_silence" -> Settle(s, "awaiting_mobile_sms_timeout")
      [] outcome = "rp_error" ->
           Answer(s, "awaiting_mobile_sms_final_cp_ack", "outgoing_sms_rp_error")
      [] OTHER ->
           Answer([s EXCEPT !.sms.rp_acknowledged = TRUE],
                  "awaiting_mobile_sms_final_cp_ack", "outgoing_sms_rp_ack")

SubmitCpAcknowledged(s, n) ==
    IF n.host_call_adapter /\ ~s.sms.decision_accepted
    THEN Settle(s, "awaiting_mobile_sms_host_decision")
    ELSE AnswerSubmit(s, IF n.host_call_adapter THEN s.sms.decision
                                                ELSE n.sms_outcome)

\* Mutants of CallReleaseAcknowledged: the leg stays marked as releasing, the
\* channel goes with any leg.
ReleaseKeepingMark(s) ==
    LET gone == SetCallLegState(s, s.call.releasing_leg, "inactive")
        survivor == [gone EXCEPT !.call.multiparty_active = FALSE,
                                 !.call.multiparty_held = FALSE]
    IN  IF s.call.releasing_leg = NoLeg \/ LiveLegs(gone) = {}
        THEN BeginChannelRelease(survivor)
        ELSE Settle(survivor, "incoming_call_active")

ReleaseAnyLeg(s) ==
    LET gone == SetCallLegState(s, s.call.releasing_leg, "inactive")
    IN  BeginChannelRelease([gone EXCEPT !.call.multiparty_active = FALSE,
                                         !.call.multiparty_held = FALSE,
                                         !.call.releasing_leg = NoLeg])

\* Without a releasing leg, or with the last one gone, RR is released too.
CallReleaseAcknowledged(s) ==
    LET leg == s.call.releasing_leg
        gone == SetCallLegState(s, leg, "inactive")
        conference == Cardinality(LiveLegs(gone)) >= 2
        active == gone.call.multiparty_active /\ conference
        held == gone.call.multiparty_held /\ conference
        survivor ==
            [gone EXCEPT !.call = [@ EXCEPT !.multiparty_active = active,
                                            !.multiparty_held = held,
                                            !.releasing_leg = NoLeg]]
    IN  CASE leg = NoLeg -> BeginChannelRelease(s)
          [] leg # NoLeg /\ LiveLegs(gone) = {} -> BeginChannelRelease(survivor)
          [] OTHER -> Settle(survivor, "incoming_call_active")

------------------------------------------------------------------------------
(* The acknowledgement of Channel Release retires the transaction *)

Registers(s) ==
    s.release_completes_registration /\ s.established = "location_update_imsi"

\* A delivery is followed by the next one queued, unless that repeats it.
MoreDeliveries(s) ==
    /\ s.sms.rp_acknowledged
    /\ \/ /\ s.incoming_service = "smart_message"
          /\ s.sms.delivery_index + 1 < SmartParts
       \/ /\ s.incoming_service = "sms"
          /\ s.sms.delivery_index + 1 < SmsCount
          /\ s.sms.delivery_index + 1 \notin Replayed

QueuesStatusReport(s) ==
    /\ s.mobile_originated = "sms"
    /\ s.sms.status_report_requested
    /\ s.sms.rp_acknowledged

\* The incoming service that stays queued for the next page.
RemainingService(s) ==
    CASE QueuesStatusReport(s) -> "status_report"
      [] ~QueuesStatusReport(s) /\ MoreDeliveries(s) -> s.incoming_service
      [] OTHER -> "none"

RetireDelivery(s) ==
    LET queues == QueuesStatusReport(s)
        completed == s.incoming_service_completed /\ ~queues
        report == s.sms.status_report_requested /\ queues
        index == IF MoreDeliveries(s) THEN s.sms.delivery_index + 1
                 ELSE IF queues THEN s.sms.delivery_index ELSE 0
    IN  [s EXCEPT
           !.incoming_service = RemainingService(s),
           !.incoming_service_completed = completed,
           !.sms = [@ EXCEPT !.delivery_index = index,
                             !.cp_data_acknowledged = FALSE,
                             !.rp_acknowledged = FALSE,
                             !.status_report_requested = report,
                             !.request_pending = FALSE,
                             !.decision_accepted = FALSE]]

\* Mutant of RetireTransaction: the host's request stays open.
RetireKeepingRequest(s) ==
    LET retired == [RetireDelivery(s) EXCEPT
                      !.established = "none",
                      !.mobile_originated = "none",
                      !.call.transaction = 0,
                      !.outgoing = ClearOutgoing(@),
                      !.ussd.request_pending = FALSE]
    IN  ClearDedicatedCipher(InState(retired, "idle"))

RetireTransaction(s) ==
    LET received == s.call.release_complete_received
                      /\ s.incoming_service # "call"
        retired == [RetireDelivery(s) EXCEPT
                      !.established = "none",
                      !.release_completes_registration = FALSE,
                      !.mobile_originated = "none",
                      !.call.release_complete_received = received,
                      !.call.transaction = 0,
                      !.outgoing = ClearOutgoing(
                                     [@ EXCEPT !.request_pending = FALSE]),
                      !.ussd.request_pending = FALSE]
    IN  ClearDedicatedCipher(InState(retired, "idle"))

\* An incoming call still owes its CC Release Complete.
ReleaseAcknowledged(s) ==
    LET registered == s.registered \/ Registers(s)
        completed == s.incoming_service # "none"
        closed == ClearPendingDownlink(
            [s EXCEPT !.registered = registered,
                      !.incoming_service_completed = completed])
    IN  IF s.incoming_service = "call" /\ ~s.call.release_complete_received
        THEN InState(closed, "awaiting_release_complete")
        ELSE RetireTransaction(closed)

------------------------------------------------------------------------------
DownlinkAcknowledged(s, n) ==
    LET kind == s.pending.kind
        In(state, acknowledged) == s.state = state /\ kind = acknowledged
        cm_accepted ==
            CASE s.mobile_originated = "sms" ->
                   "awaiting_mobile_sms_sapi3_establishment"
              [] s.mobile_originated = "supplementary" ->
                   "awaiting_supplementary_request"
              [] OTHER -> "awaiting_outgoing_call_setup"
    IN
    CASE In("awaiting_cm_service_accept_acknowledgement", "cm_service_accept")
           -> Settle(s, cm_accepted)
      [] In("awaiting_second_cm_service_accept_acknowledgement", "cm_service_accept")
           -> Settle(s, "awaiting_second_outgoing_call_setup")
      [] \/ In("awaiting_cm_service_reject_acknowledgement", "cm_service_reject")
         \/ In("awaiting_supplementary_release_acknowledgement",
               "supplementary_release_complete")
         \/ In("awaiting_network_ussd_release_acknowledgement",
               "supplementary_release_complete")
         \/ In("awaiting_location_update_reject_acknowledgement",
               "location_update_reject")
         \/ In("awaiting_location_update_accept_acknowledgement",
               "location_update_accept")
         \/ In("awaiting_sms_cp_ack_acknowledgement", "sms_cp_ack")
           -> BeginChannelRelease(s)
      [] In("awaiting_authentication_reject_acknowledgement", "authentication_reject")
           -> BeginChannelRelease(
                [s EXCEPT !.release_completes_registration = FALSE])
      [] In("awaiting_supplementary_facility_acknowledgement", "supplementary_facility")
           -> Settle(s, "awaiting_supplementary_response")
      [] In("awaiting_network_ussd_register_acknowledgement", "supplementary_register")
           -> Settle(s, "awaiting_network_ussd_response")
      [] In("awaiting_call_proceeding_acknowledgement", "call_proceeding")
           -> ProceedingAcknowledged(s)
      [] In("awaiting_call_alerting_acknowledgement", "call_alerting")
           -> AlertingAcknowledged(s)
      [] In("awaiting_network_disconnect_acknowledgement", "call_disconnect")
           -> Settle([s EXCEPT !.call.release_waiting = TRUE],
                     "awaiting_handset_release")
      [] In("awaiting_authentication_request_acknowledgement", "authentication_request")
           -> Settle(s, "awaiting_authentication_response")
      [] \/ In("awaiting_incoming_call_setup_acknowledgement", "incoming_call_setup")
         \/ In("awaiting_connect_acknowledgement", "connect_acknowledge")
           -> Settle(s, "incoming_call_active")
      [] \/ In("awaiting_outgoing_connect_acknowledgement", "call_connect")
         \/ In("awaiting_traffic_assignment", "traffic_assignment")
         \/ In("awaiting_cipher_mode_command_acknowledgement", "cipher_mode_command")
         \/ In("incoming_call_active", "incoming_call_setup")
              /\ s.call.waiting_queued
         \/ s.state = "incoming_call_active" /\ kind \in
              {"start_dtmf_acknowledge", "stop_dtmf_acknowledge",
               "call_hold_acknowledge", "call_retrieve_acknowledge",
               "multiparty_facility_result"}
           -> ClearPendingDownlink(s)
      [] In("awaiting_mm_information_acknowledgement", "mm_information")
           -> InformationAcknowledged(s)
      [] In("awaiting_sms_sapi3_establishment", "sapi3_establishment")
           -> Sapi3Acknowledged(s)
      [] In("awaiting_sms_cp_data_acknowledgement", "incoming_sms_cp_data")
           -> Settle(s, "awaiting_sms_handset_response")
      [] In("awaiting_mobile_sms_cp_ack_acknowledgement", "sms_cp_ack")
           -> SubmitCpAcknowledged(s, n)
      [] In("awaiting_call_release_acknowledgement", "call_release")
         \/ In("awaiting_call_release_acknowledgement", "release_complete")
           -> CallReleaseAcknowledged(s)
      [] In("awaiting_channel_release_acknowledgement", "channel_release")
           -> ReleaseAcknowledged(s)
      [] OTHER -> s
==============================================================================
