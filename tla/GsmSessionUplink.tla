--------------------------- MODULE GsmSessionUplink ---------------------------
(***************************************************************************)
(* nokia_gsm_session_device::receive_layer3: what a complete Layer-3       *)
(* message of the handset does.  A message is its kind, the CC transaction *)
(* it names and the forwarding condition a supplementary request is about. *)
(* A message whose content its parser refuses leaves everything as it is   *)
(* and is not modelled, except in an authentication procedure.             *)
(***************************************************************************)
EXTENDS GsmSessionDownlink

MultipartyKind ==
    {"build_mpty", "hold_mpty", "retrieve_mpty", "split_mpty", "other_facility"}
ForwardingKind ==
    {"interrogate_ss", "register_ss", "activate_ss", "deactivate_ss", "erase_ss"}
SupplementaryKind ==
    ForwardingKind \cup {"process_uss_request", "unsupported_ss"}
CallControlKind ==
    {"call_confirmed", "alerting", "connect", "disconnect", "start_dtmf",
     "stop_dtmf", "hold", "retrieve", "release", "release_complete",
     "connect_acknowledge", "setup"} \cup MultipartyKind
SmsKind == {"cp_ack", "rp_ack", "rp_error", "submit", "submit_with_report"}

HandsetKind ==
    SupplementaryKind \cup CallControlKind \cup SmsKind \cup
    {"handover_complete", "handover_failure", "assignment_complete",
     "cipher_mode_complete", "authentication_response_valid",
     "authentication_response_invalid", "cm_service_request",
     "ss_result", "ss_result_empty", "ss_release_complete"}

HandsetMessage ==
    [kind : HandsetKind, transaction : Transaction,
     condition : ForwardingCondition]

------------------------------------------------------------------------------
(* Supplementary services and USSD *)

\* The forwarding records after a supplementary request.
ServeForwarding(n, m) ==
    LET was == n.forwarding[m.condition]
        becomes ==
            CASE m.kind = "register_ss" -> "active"
              [] m.kind = "activate_ss" /\ was # "erased" -> "active"
              [] m.kind = "deactivate_ss" /\ was # "erased" -> "registered"
              [] m.kind = "erase_ss" -> "erased"
              [] OTHER -> was
    IN  [n EXCEPT !.forwarding[m.condition] = becomes]

\* A USSD request waits for the host, is answered, continued or ignored.
ReceiveUssdRequest(s, n) ==
    LET id == NextRequestId(s.ussd.policy_request_id)
    IN  CASE n.host_call_adapter ->
               InState([s EXCEPT !.ussd.request_pending = TRUE,
                                 !.ussd.policy_request_id = id,
                                 !.ussd.request_id = id],
                       "awaiting_mobile_ussd_host_response")
          [] ~n.host_call_adapter /\ n.ussd_outcome = "silence" -> s
          [] ~n.host_call_adapter /\ n.ussd_outcome = "continuation_request" ->
               Answer(s, "awaiting_supplementary_facility_acknowledgement",
                      "supplementary_facility")
          [] OTHER ->
               Answer(s, "awaiting_supplementary_release_acknowledgement",
                      "supplementary_release_complete")

ReceiveSupplementary(s, n, m) ==
    CASE m.kind = "process_uss_request" -> ReceiveUssdRequest(s, n)
      [] m.kind \in SupplementaryKind \ {"process_uss_request"} ->
           Answer(s, "awaiting_supplementary_release_acknowledgement",
                  "supplementary_release_complete")
      [] OTHER -> s

\* The handset's answer to the facility that continued its own request.
ReceiveContinuation(s, m) ==
    CASE m.kind = "ss_release_complete" -> BeginChannelRelease(s)
      [] m.kind \in {"ss_result", "ss_result_empty"} ->
           Answer(s, "awaiting_supplementary_release_acknowledgement",
                  "supplementary_release_complete")
      [] OTHER -> s

\* A notification has no parameters in its result.
ReceiveNetworkUssdAnswer(s, m) ==
    CASE m.kind = "ss_release_complete" -> BeginChannelRelease(s)
      [] \/ m.kind = "ss_result_empty"
         \/ m.kind = "ss_result" /\ s.incoming_service # "ussd_notification" ->
           Answer(s, "awaiting_network_ussd_release_acknowledgement",
                  "supplementary_release_complete")
      [] OTHER -> s

------------------------------------------------------------------------------
(* Authentication and ciphering *)

ReceiveAuthenticationResponse(s, n, m) ==
    LET keyed == [s EXCEPT !.cipher.key_valid = TRUE,
                           !.cipher.authentication_for_service = FALSE]
        refused == [s EXCEPT !.cipher.key_valid = FALSE,
                             !.cipher.authentication_for_service = FALSE]
        valid == m.kind = "authentication_response_valid"
    IN  CASE valid /\ s.cipher.authentication_for_service ->
               CommandCipherMode(keyed, n)
          [] valid /\ ~s.cipher.authentication_for_service ->
               LocationUpdateReply(keyed, n)
          [] OTHER ->
               Answer(refused, "awaiting_authentication_reject_acknowledgement",
                      "authentication_reject")

\* Mutant of ReceiveCipherModeComplete: one nobody asked for is accepted.
AcceptAnyCipherMode(s) ==
    Answer(s, "awaiting_mm_information_acknowledgement", "mm_information")

ReceiveCipherModeComplete(s) ==
    LET activate == /\ s.cipher.algorithm = "a5_1"
                    /\ s.cipher.key_valid
                    /\ s.cipher.command_pending
        clear == /\ s.state = "awaiting_cipher_mode_command_acknowledgement"
                 /\ s.cipher.algorithm = "a5_0"
        active == s.cipher.active \/ activate
        commanded == s.cipher.command_pending /\ ~activate
        ciphered == [s EXCEPT !.cipher.active = active,
                              !.cipher.command_pending = commanded]
    IN  IF activate \/ clear
        THEN Answer(ciphered, "awaiting_mm_information_acknowledgement",
                    "mm_information")
        ELSE s

------------------------------------------------------------------------------
(* Setting a mobile-originated call up *)

\* Mutant of RequestOutgoing: the decision of the call before stands.
RequestUnderOldDecision(s, n) ==
    LET id == NextRequestId(s.outgoing.request_id)
    IN  [s EXCEPT !.outgoing = [@ EXCEPT !.request_id = id,
                                         !.request_pending = TRUE]]

\* The request is decided at once, after the timer, or by the host.
RequestOutgoing(s, n) ==
    LET id == NextRequestId(s.outgoing.request_id)
        fallback == ~n.host_call_adapter
        timed == s.outgoing.decision_timer \/ (fallback /\ n.decision_delayed)
        policy == IF fallback THEN id ELSE s.outgoing.policy_request_id
        asked == [s EXCEPT !.outgoing =
                    [@ EXCEPT !.request_id = id,
                              !.request_pending = TRUE,
                              !.decision_accepted = FALSE,
                              !.decision_request_id = 0,
                              !.policy_request_id = policy,
                              !.decision_timer = timed]]
    IN  IF fallback /\ ~n.decision_delayed
        THEN SubmitOutgoingDecision(asked, id, n.call_outcome)
        ELSE asked

ReceiveSetup(s, n, ti) ==
    LET leg == IF s.state = "awaiting_second_outgoing_call_setup" THEN 1 ELSE 0
        named == AlertLeg([s EXCEPT !.call.transaction = ti], leg, ti)
    IN  AnswerCall(RequestOutgoing(named, n),
                   "awaiting_call_proceeding_acknowledgement",
                   "call_proceeding", ti)

SecondCmServiceRequest(s) ==
    Answer([s EXCEPT !.call.second_mobile_originated = TRUE],
           "awaiting_second_cm_service_accept_acknowledgement",
           "cm_service_accept")

------------------------------------------------------------------------------
(* Call control in a call *)

ReceiveCallConfirmed(s) ==
    IF s.state # "incoming_call_active" \/ s.call.traffic_assignment_issued
    THEN s
    ELSE Answer([s EXCEPT !.call.traffic_assignment_issued = TRUE],
                "awaiting_traffic_assignment", "traffic_assignment")

ReceiveAlerting(s, n) ==
    LET timed == \/ s.call.no_reply_timer
                 \/ s.mobile_originated # "call" /\ SpeechForwarding(n, "no_reply")
    IN  [s EXCEPT !.call.alerting = TRUE, !.call.no_reply_timer = timed]

\* Mutant of ReceiveConnect: the call goes on alerting.
ConnectStillAlerting(s, ti) ==
    AnswerCall([SetCallLegState(s, CallLegIndex(s, ti), "active") EXCEPT
                  !.call.no_reply_timer = FALSE, !.call.answered = TRUE],
               "awaiting_connect_acknowledgement", "connect_acknowledge", ti)

ReceiveConnect(s, ti) ==
    AnswerCall([SetCallLegState(s, CallLegIndex(s, ti), "active") EXCEPT
                  !.call.no_reply_timer = FALSE,
                  !.call.answered = TRUE,
                  !.call.alerting = FALSE],
               "awaiting_connect_acknowledgement", "connect_acknowledge", ti)

ReceiveDisconnect(s, ti) ==
    LET leg == CallLegIndex(s, ti)
    IN  IF leg = NoLeg THEN s
        ELSE AnswerCall([s EXCEPT !.call.releasing_leg = leg,
                                  !.call.alerting = FALSE],
                        "awaiting_call_release_acknowledgement",
                        "call_release", ti)

\* HOLD and RETRIEVE move one leg, and only from the opposite state.
SwitchLeg(s, ti, from, to, kind) ==
    LET leg == CallLegIndex(s, ti)
    IN  IF leg # NoLeg /\ s.call.leg_states[leg] = from
        THEN QueueDownlink(SetCallLegState(s, leg, to), kind, ti)
        ELSE s

AllLegs(s, state) == [s EXCEPT !.call.leg_states = [leg \in Leg |-> state]]

OneActiveOneHeld(s) ==
    {s.call.leg_states[leg] : leg \in Leg} = {"active", "held"}

ReceiveMultiparty(s, m) ==
    LET selected == CallLegIndex(s, m.transaction)
        active == s.call.multiparty_active
        held == s.call.multiparty_held
        Conference(legs, is_active, is_held) ==
            [legs EXCEPT !.call.multiparty_active = is_active,
                         !.call.multiparty_held = is_held]
        split ==
            [s EXCEPT !.call.leg_states =
               [leg \in Leg |-> IF leg = selected THEN "active" ELSE "held"]]
        outcome ==
            CASE m.kind = "build_mpty" /\ ~active /\ OneActiveOneHeld(s) ->
                   Conference(AllLegs(s, "active"), TRUE, FALSE)
              [] m.kind = "hold_mpty" /\ active /\ ~held ->
                   Conference(AllLegs(s, "held"), TRUE, TRUE)
              [] m.kind = "retrieve_mpty" /\ active /\ held ->
                   Conference(AllLegs(s, "active"), TRUE, FALSE)
              [] m.kind = "split_mpty" /\ active /\ selected # NoLeg ->
                   Conference(split, FALSE, FALSE)
              [] OTHER -> s
    IN  QueueDownlink(outcome, "multiparty_facility_result", m.transaction)

\* The kinds that reach an incoming_call_active session only.
ReceiveInCall(s, m) ==
    LET ti == m.transaction
    IN  CASE m.kind = "start_dtmf" ->
               QueueDownlink(s, "start_dtmf_acknowledge", ti)
          [] m.kind = "stop_dtmf" ->
               QueueDownlink(s, "stop_dtmf_acknowledge", ti)
          [] m.kind = "hold" ->
               SwitchLeg(s, ti, "active", "held", "call_hold_acknowledge")
          [] m.kind = "retrieve" ->
               SwitchLeg(s, ti, "held", "active", "call_retrieve_acknowledge")
          [] m.kind \in MultipartyKind -> ReceiveMultiparty(s, m)
          [] m.kind = "cm_service_request" /\ Cardinality(LiveLegs(s)) = 1 ->
               SecondCmServiceRequest(s)
          [] OTHER -> s

CallControlState ==
    {"incoming_call_active", "outgoing_call_alerting",
     "awaiting_traffic_assignment", "awaiting_assignment_complete",
     "awaiting_incoming_call_setup_acknowledgement"}

ReceiveCallControl(s, n, m) ==
    CASE m.kind = "call_confirmed" -> ReceiveCallConfirmed(s)
      [] m.kind = "alerting" -> ReceiveAlerting(s, n)
      [] m.kind = "connect" -> ReceiveConnect(s, m.transaction)
      [] m.kind = "disconnect" -> ReceiveDisconnect(s, m.transaction)
      [] OTHER ->
           IF s.state = "incoming_call_active" THEN ReceiveInCall(s, m) ELSE s

------------------------------------------------------------------------------
(* Ending a call the network disconnects *)

ReceiveAfterDisconnect(s, m) ==
    LET answered == IF m.kind \in CallControlKind
                    THEN [s EXCEPT !.call.release_waiting = FALSE] ELSE s
    IN  CASE m.kind = "release" ->
               AnswerCall(answered, "awaiting_call_release_acknowledgement",
                          "release_complete", m.transaction)
          [] m.kind = "release_complete" ->
               BeginChannelRelease(
                 [answered EXCEPT !.call.release_complete_received = TRUE])
          [] OTHER -> answered

ReceiveAssignmentComplete(s) ==
    IF s.mobile_originated = "call"
    THEN AnswerCall([s EXCEPT !.call.alerting = TRUE],
                    "awaiting_call_alerting_acknowledgement",
                    "call_alerting", s.call.transaction)
    ELSE InState(s, "incoming_call_active")

ReceiveConnectAcknowledge(s) ==
    LET quiet == [s EXCEPT !.call.alerting = FALSE,
                           !.call.release_waiting = FALSE]
        leg == CallLegIndex(s, s.call.transaction)
    IN  ApplyOutgoingTermination(
          Settle(SetCallLegState(quiet, leg, "active"), "incoming_call_active"))

\* The last CC message of an incoming call; only here do its legs go.
ReceiveFinalReleaseComplete(s) ==
    LET completed == s.incoming_service # "none"
    IN
    ClearDedicatedCipher(InState(
      [s EXCEPT
         !.established = "none",
         !.release_completes_registration = FALSE,
         !.mobile_originated = "none",
         !.incoming_service_completed = completed,
         !.incoming_service = "none",
         !.call = [CallReset EXCEPT !.release_waiting = s.call.release_waiting,
                                    !.forwarded = s.call.forwarded,
                                    !.no_reply_timer = s.call.no_reply_timer],
         !.outgoing = ClearOutgoing([@ EXCEPT !.request_pending = FALSE]),
         !.ussd.request_pending = FALSE], "idle"))

------------------------------------------------------------------------------
(* Short messages, on SAPI 3 *)

\* The RP result counts only after the CP-ACK of the CP-DATA it answers.
ReceiveDeliveryAnswer(s, m) ==
    LET delivered == m.kind = "rp_ack"
    IN  CASE m.kind = "cp_ack" -> [s EXCEPT !.sms.cp_data_acknowledged = TRUE]
          [] m.kind \in {"rp_ack", "rp_error"} /\ s.sms.cp_data_acknowledged ->
               Answer([s EXCEPT !.sms.rp_acknowledged = delivered],
                      "awaiting_sms_cp_ack_acknowledgement", "sms_cp_ack")
          [] OTHER -> s

ReceiveSubmit(s, n, m) ==
    LET report == m.kind = "submit_with_report"
        asked == [s EXCEPT
                    !.sms.status_report_requested = report,
                    !.sms.request_id = NextRequestId(s.sms.request_id),
                    !.sms.request_pending = TRUE,
                    !.sms.decision_accepted = FALSE]
    IN  CASE m.kind \notin {"submit", "submit_with_report"} -> s
          [] m.kind \in {"submit", "submit_with_report"}
             /\ n.sms_outcome = "cp_silence" ->
               InState(asked, "awaiting_mobile_sms_timeout")
          [] OTHER ->
               Answer(asked, "awaiting_mobile_sms_cp_ack_acknowledgement",
                      "sms_cp_ack")

ReceiveSms(s, n, m) ==
    CASE s.state = "awaiting_sms_handset_response" -> ReceiveDeliveryAnswer(s, m)
      [] s.state = "awaiting_mobile_sms_submit" -> ReceiveSubmit(s, n, m)
      [] s.state = "awaiting_mobile_sms_final_cp_ack" /\ m.kind = "cp_ack" ->
           BeginChannelRelease(s)
      [] OTHER -> s

------------------------------------------------------------------------------
\* Mutant of HandoverEnded: the target is not forgotten.
HandoverKeepingTarget(s, arfcn) ==
    Settle([s EXCEPT !.serving_arfcn = arfcn], "incoming_call_active")

\* A handover that ended, on the target cell or back on the old one.
HandoverEnded(s, arfcn) ==
    Settle([s EXCEPT !.serving_arfcn = arfcn, !.handover_target_arfcn = NoCell],
           "incoming_call_active")

ReceiveHandoverResult(s, m) ==
    CASE m.kind = "handover_complete" -> HandoverEnded(s, s.handover_target_arfcn)
      [] m.kind = "handover_failure" -> HandoverEnded(s, s.serving_arfcn)
      [] OTHER -> s

ReceiveMainLink(s, n, m) ==
    LET At(state) == s.state = state
    IN
    CASE At("awaiting_handover_result") -> ReceiveHandoverResult(s, m)
      [] At("awaiting_supplementary_request") -> ReceiveSupplementary(s, n, m)
      [] At("awaiting_supplementary_response") -> ReceiveContinuation(s, m)
      [] At("awaiting_network_ussd_response") -> ReceiveNetworkUssdAnswer(s, m)
      [] At("awaiting_authentication_response") ->
           ReceiveAuthenticationResponse(s, n, m)
      [] s.state \in {"awaiting_outgoing_call_setup",
                      "awaiting_second_outgoing_call_setup"}
         /\ m.kind = "setup" -> ReceiveSetup(s, n, m.transaction)
      [] At("awaiting_assignment_complete") /\ m.kind = "assignment_complete" ->
           ReceiveAssignmentComplete(s)
      [] s.state \in CallControlState
         /\ m.kind # "assignment_complete" ->
           ReceiveCallControl(s, n, m)
      [] At("awaiting_handset_release") -> ReceiveAfterDisconnect(s, m)
      [] At("awaiting_network_disconnect_acknowledgement")
         /\ m.kind = "release_complete" ->
           BeginChannelRelease([s EXCEPT !.call.release_complete_received = TRUE])
      [] At("awaiting_outgoing_connect_acknowledgement")
         /\ m.kind = "connect_acknowledge" -> ReceiveConnectAcknowledge(s)
      [] At("awaiting_release_complete") /\ m.kind = "release_complete" ->
           ReceiveFinalReleaseComplete(s)
      [] OTHER -> s

ReceiveLayer3(s, n, m) ==
    CASE m.kind \in SmsKind -> ReceiveSms(s, n, m)
      [] m.kind = "cipher_mode_complete" -> ReceiveCipherModeComplete(s)
      [] OTHER -> ReceiveMainLink(s, n, m)
==============================================================================
