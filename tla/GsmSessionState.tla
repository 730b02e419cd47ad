--------------------------- MODULE GsmSessionState ---------------------------
(***************************************************************************)
(* The state of nokia_gsm_session_device, the Layer-3 network side of one  *)
(* dedicated connection, and the helpers its handlers share.               *)
(*                                                                         *)
(* The device is a record whose fields carry the member names without m_;  *)
(* members of one procedure are grouped (call, outgoing, sms, ussd,        *)
(* cipher).  A handler is an operator from the record, and the network's   *)
(* configuration where it reads it, to the record it leaves.  A Layer-3    *)
(* message is its kind and its CC transaction: digits, texts, identities   *)
(* and the DTMF, hold and multiparty counters are left out.                *)
(***************************************************************************)
EXTENDS Naturals, FiniteSets

CONSTANTS
    Transaction,    \* CC transaction identifiers, 0 and 1 at least
    Cells,          \* ARFCNs of the cells a call can be handed over to
    NoCell,         \* ARFCN 0: no handover is in progress
    MaxRequestId,   \* the last value of a request counter before it wraps
    SmsCount,       \* incoming_sms_message_count()
    SmartParts,     \* incoming_smart_message_part_count()
    Replayed        \* deliveries that repeat the one before them exactly

ASSUME SessionAssumption ==
    /\ {0, 1} \subseteq Transaction
    /\ Cells # {} /\ NoCell \notin Cells
    /\ MaxRequestId \in Nat /\ MaxRequestId > 1
    /\ SmsCount \in Nat \ {0}
    /\ SmartParts \in Nat \ {0}
    /\ Replayed \subseteq Nat

------------------------------------------------------------------------------
(* The network's configuration, and the forwarding records it keeps *)

CallOutcome == {"connect", "busy", "no_answer", "service_reject"}
SmsOutcome  == {"accept", "rp_error", "rp_silence", "cp_silence"}
UssdOutcome ==
    {"success", "return_error", "reject", "silence", "continuation_request"}

ForwardingCondition == {"unconditional", "busy", "no_reply"}
ForwardingRecord == {"erased", "registered", "active"}

Network ==
    [host_call_adapter : BOOLEAN,      \* the fallbacks are off
     decision_delayed : BOOLEAN,       \* outgoing_decision_delay_ms # 0
     authentication_required : BOOLEAN,
     ciphered : BOOLEAN,               \* cipher_algorithm() # a5_0
     location_update_allowed : BOOLEAN,
     call_outcome : CallOutcome,
     sms_outcome : SmsOutcome,
     ussd_outcome : UssdOutcome,
     forwarding : [ForwardingCondition -> ForwardingRecord]]

SpeechForwarding(n, condition) == n.forwarding[condition] = "active"

------------------------------------------------------------------------------
(* Downlink messages *)

Sapi3Kind ==
    {"sapi3_establishment", "incoming_sms_cp_data", "sms_cp_ack",
     "outgoing_sms_rp_ack", "outgoing_sms_rp_error"}

CallKind ==
    {"incoming_call_setup", "call_proceeding", "call_alerting",
     "call_connect", "call_disconnect", "connect_acknowledge",
     "start_dtmf_acknowledge", "stop_dtmf_acknowledge",
     "call_hold_acknowledge", "call_retrieve_acknowledge", "call_release",
     "release_complete", "multiparty_facility_result"}

DownlinkKind ==
    Sapi3Kind \cup CallKind \cup
    {"none", "authentication_request", "authentication_reject",
     "location_update_accept", "location_update_reject", "channel_release",
     "cm_service_accept", "cm_service_reject", "cipher_mode_command",
     "mm_information", "traffic_assignment", "handover_command",
     "physical_information", "supplementary_release_complete",
     "supplementary_facility", "supplementary_register"}

DownlinkMessage == [kind : DownlinkKind, transaction : Transaction]
Message(kind, ti) == [kind |-> kind, transaction |-> ti]
NoMessage == Message("none", 0)

SapiOf(message) == IF message.kind \in Sapi3Kind THEN 3 ELSE 0

------------------------------------------------------------------------------
(* State *)

IncomingService ==
    {"none", "call", "sms", "smart_message", "status_report",
     "ussd_request", "ussd_notification"}

\* What the information field of the SABM asks for: established_layer3.
LocationUpdate == {"location_update_imsi", "location_update_tmsi"}
CmService == {"cm_call", "cm_sms", "cm_supplementary"}
Establishment == LocationUpdate \cup CmService \cup {"paging_response"}

\* The three m_mobile_originated_* flags: establish_layer3 sets at most one.
Originated == {"none", "call", "sms", "supplementary"}

Leg == {0, 1}
NoLeg == 2          \* 0xff
LegState == {"inactive", "alerting", "active", "held"}
RequestId == 0 .. MaxRequestId
\* Mutant of NextRequestId: the counter is never wrapped.
EndlessRequestId(id) == id + 1
NextRequestId(id) == IF id = MaxRequestId THEN 1 ELSE id + 1

\* What the message awaiting its acknowledgement may be in each state.  In
\* a state that a handset message or a host decision ends it may be "none".
PendingKinds ==
  [ idle |-> {"none"},
    awaiting_paging_response |-> {"none"},
    awaiting_contention_resolution |-> {"none"},
    awaiting_paging_contention_resolution |-> {"none"},
    awaiting_authentication_request_acknowledgement |-> {"authentication_request"},
    awaiting_authentication_response |-> {"none"},
    awaiting_authentication_reject_acknowledgement |-> {"authentication_reject"},
    awaiting_location_update_accept_acknowledgement |-> {"location_update_accept"},
    awaiting_location_update_reject_acknowledgement |-> {"location_update_reject"},
    awaiting_channel_release_acknowledgement |-> {"channel_release"},
    awaiting_cm_service_accept_acknowledgement |-> {"cm_service_accept"},
    awaiting_second_cm_service_accept_acknowledgement |-> {"cm_service_accept"},
    awaiting_cm_service_reject_acknowledgement |-> {"cm_service_reject"},
    awaiting_outgoing_call_setup |-> {"none"},
    awaiting_second_outgoing_call_setup |-> {"none"},
    awaiting_supplementary_request |-> {"none"},
    awaiting_supplementary_release_acknowledgement |-> {"supplementary_release_complete"},
    awaiting_supplementary_facility_acknowledgement |-> {"supplementary_facility"},
    awaiting_supplementary_response |-> {"none"},
    awaiting_mobile_ussd_host_response |-> {"none"},
    awaiting_network_ussd_register_acknowledgement |-> {"supplementary_register"},
    awaiting_network_ussd_response |-> {"none"},
    awaiting_network_ussd_release_acknowledgement |-> {"supplementary_release_complete"},
    awaiting_call_proceeding_acknowledgement |-> {"call_proceeding"},
    awaiting_outgoing_decision |-> {"none"},
    awaiting_call_alerting_acknowledgement |-> {"call_alerting"},
    awaiting_outgoing_connect_acknowledgement |-> {"call_connect", "none"},
    outgoing_call_alerting |-> {"none"},
    awaiting_network_disconnect_acknowledgement |-> {"call_disconnect"},
    awaiting_handset_release |-> {"none"},
    awaiting_cipher_mode_command_acknowledgement |-> {"cipher_mode_command", "none"},
    awaiting_mm_information_acknowledgement |-> {"mm_information"},
    awaiting_incoming_call_setup_acknowledgement |-> {"incoming_call_setup"},
    incoming_call_active |->
       {"none", "incoming_call_setup", "start_dtmf_acknowledge",
        "stop_dtmf_acknowledge", "call_hold_acknowledge",
        "call_retrieve_acknowledge", "multiparty_facility_result"},
    awaiting_traffic_assignment |-> {"traffic_assignment", "none"},
    awaiting_assignment_complete |-> {"none"},
    awaiting_connect_acknowledgement |-> {"connect_acknowledge"},
    awaiting_call_release_acknowledgement |-> {"call_release", "release_complete"},
    awaiting_release_complete |-> {"none"},
    awaiting_sms_sapi3_establishment |-> {"sapi3_establishment"},
    awaiting_sms_cp_data_acknowledgement |-> {"incoming_sms_cp_data"},
    awaiting_sms_handset_response |-> {"none"},
    awaiting_sms_cp_ack_acknowledgement |-> {"sms_cp_ack"},
    awaiting_mobile_sms_sapi3_establishment |-> {"none"},
    awaiting_mobile_sms_submit |-> {"none"},
    awaiting_mobile_sms_cp_ack_acknowledgement |-> {"sms_cp_ack"},
    awaiting_mobile_sms_host_decision |-> {"none"},
    awaiting_mobile_sms_final_cp_ack |-> {"outgoing_sms_rp_ack", "outgoing_sms_rp_error"},
    awaiting_mobile_sms_timeout |-> {"none"},
    awaiting_handover_result |-> {"handover_command", "physical_information", "none"} ]

State == DOMAIN PendingKinds

CipherState ==
    [algorithm : {"a5_0", "a5_1"}, key_valid : BOOLEAN,
     command_pending : BOOLEAN, active : BOOLEAN,
     authentication_for_service : BOOLEAN]

CallState ==
    [alerting : BOOLEAN, release_waiting : BOOLEAN,
     release_complete_received : BOOLEAN,
     traffic_assignment_issued : BOOLEAN,
     second_mobile_originated : BOOLEAN, answered : BOOLEAN,
     multiparty_active : BOOLEAN, multiparty_held : BOOLEAN,
     waiting_queued : BOOLEAN, forwarded : BOOLEAN,
     no_reply_timer : BOOLEAN,
     leg_transactions : [Leg -> Transaction], leg_states : [Leg -> LegState],
     releasing_leg : Leg \cup {NoLeg}, transaction : Transaction]

OutgoingState ==
    [request_pending : BOOLEAN, request_id : RequestId,
     decision_accepted : BOOLEAN, decision : CallOutcome,
     decision_request_id : RequestId, policy_request_id : RequestId,
     termination_accepted : BOOLEAN, termination_request_id : RequestId,
     decision_timer : BOOLEAN]

SmsState ==
    [delivery_index : Nat, cp_data_acknowledged : BOOLEAN,
     rp_acknowledged : BOOLEAN, status_report_requested : BOOLEAN,
     request_pending : BOOLEAN, request_id : RequestId,
     decision_accepted : BOOLEAN, decision : SmsOutcome]

UssdState ==
    [request_pending : BOOLEAN, request_id : RequestId,
     policy_request_id : RequestId]

SessionState ==
    [state : State, pending : DownlinkMessage,
     established : Establishment \cup {"none"},
     mobile_originated : Originated,
     release_completes_registration : BOOLEAN, registered : BOOLEAN,
     incoming_service : IncomingService,
     incoming_service_completed : BOOLEAN,
     serving_arfcn : Cells, handover_target_arfcn : Cells \cup {NoCell},
     cipher : CipherState, call : CallState, outgoing : OutgoingState,
     sms : SmsState, ussd : UssdState]

------------------------------------------------------------------------------
(* device_reset, and the part of it clear_outgoing_call_state repeats *)

ClearOutgoing(o) ==
    [o EXCEPT !.decision_accepted = FALSE,
              !.decision_request_id = 0,
              !.policy_request_id = 0,
              !.termination_accepted = FALSE,
              !.termination_request_id = 0,
              !.decision_timer = FALSE]

CallReset ==
    [alerting |-> FALSE, release_waiting |-> FALSE,
     release_complete_received |-> FALSE, traffic_assignment_issued |-> FALSE,
     second_mobile_originated |-> FALSE, answered |-> FALSE,
     multiparty_active |-> FALSE, multiparty_held |-> FALSE,
     waiting_queued |-> FALSE, forwarded |-> FALSE, no_reply_timer |-> FALSE,
     leg_transactions |-> [leg \in Leg |-> 0],
     leg_states |-> [leg \in Leg |-> "inactive"],
     releasing_leg |-> NoLeg, transaction |-> 0]

OutgoingReset ==
    [request_pending |-> FALSE, request_id |-> 0, decision_accepted |-> FALSE,
     decision |-> "connect", decision_request_id |-> 0, policy_request_id |-> 0,
     termination_accepted |-> FALSE, termination_request_id |-> 0,
     decision_timer |-> FALSE]

\* The last SMS decision is the one member device_reset keeps.
SmsReset(decision) ==
    [delivery_index |-> 0, cp_data_acknowledged |-> FALSE,
     rp_acknowledged |-> FALSE, status_report_requested |-> FALSE,
     request_pending |-> FALSE, request_id |-> 0,
     decision_accepted |-> FALSE, decision |-> decision]

CipherReset ==
    [algorithm |-> "a5_0", key_valid |-> FALSE, command_pending |-> FALSE,
     active |-> FALSE, authentication_for_service |-> FALSE]

DeviceReset(registered, arfcn, sms_decision) ==
    [state |-> "idle", pending |-> NoMessage, established |-> "none",
     mobile_originated |-> "none", release_completes_registration |-> FALSE,
     registered |-> registered, incoming_service |-> "none",
     incoming_service_completed |-> FALSE, serving_arfcn |-> arfcn,
     handover_target_arfcn |-> NoCell, cipher |-> CipherReset,
     call |-> CallReset, outgoing |-> OutgoingReset,
     sms |-> SmsReset(sms_decision),
     ussd |-> [request_pending |-> FALSE, request_id |-> 0,
               policy_request_id |-> 0]]

\* The registered identity and the serving cell survive the link.
RadioLinkFailed(s) ==
    DeviceReset(s.registered, s.serving_arfcn, s.sms.decision)

------------------------------------------------------------------------------
(* Helpers *)

InState(s, state) == [s EXCEPT !.state = state]
ClearPendingDownlink(s) == [s EXCEPT !.pending = NoMessage]

\* A message replaces whatever was still pending.
QueueDownlink(s, kind, ti) == [s EXCEPT !.pending = Message(kind, ti)]

\* The state moves on and a message is queued: how most handlers end.
Answer(s, state, kind) == QueueDownlink(InState(s, state), kind, 0)
AnswerCall(s, state, kind, ti) == QueueDownlink(InState(s, state), kind, ti)
Settle(s, state) == ClearPendingDownlink(InState(s, state))

BeginChannelRelease(s) ==
    Answer(s, "awaiting_channel_release_acknowledgement", "channel_release")

LiveLegs(s) == {leg \in Leg : s.call.leg_states[leg] # "inactive"}

\* The live leg of a transaction; the direction flag is not compared.
LegsOf(s, ti) == {leg \in LiveLegs(s) : s.call.leg_transactions[leg] = ti}
CallLegIndex(s, ti) ==
    IF LegsOf(s, ti) = {} THEN NoLeg
    ELSE CHOOSE leg \in LegsOf(s, ti) : \A other \in LegsOf(s, ti) : leg <= other

SetCallLegState(s, leg, state) ==
    IF leg \in Leg THEN [s EXCEPT !.call.leg_states[leg] = state] ELSE s

ClearDedicatedCipher(s) ==
    [s EXCEPT !.cipher.active = FALSE, !.cipher.command_pending = FALSE]

------------------------------------------------------------------------------
(* The host's decision about a mobile-originated call *)

ApplyOutgoingTermination(s) ==
    IF s.outgoing.termination_accepted
       /\ s.outgoing.termination_request_id = s.outgoing.request_id
    THEN AnswerCall([s EXCEPT !.call.alerting = FALSE],
                    "awaiting_network_disconnect_acknowledgement",
                    "call_disconnect", s.call.transaction)
    ELSE s

DecisionStands(s) ==
    /\ s.outgoing.decision_accepted
    /\ s.outgoing.decision_request_id = s.outgoing.request_id

ApplyOutgoingDecision(s) ==
    LET ti == s.call.transaction
        busy == s.outgoing.decision = "busy"
        issued == [s EXCEPT !.call.traffic_assignment_issued = TRUE]
    IN  CASE ~DecisionStands(s) -> s
          [] DecisionStands(s) /\ busy ->
               AnswerCall(s, "awaiting_network_disconnect_acknowledgement",
                          "call_disconnect", ti)
          [] DecisionStands(s) /\ ~busy /\ s.call.second_mobile_originated ->
               AnswerCall(s, "awaiting_call_alerting_acknowledgement",
                          "call_alerting", ti)
          [] OTHER ->
               Answer(issued, "awaiting_traffic_assignment", "traffic_assignment")

\* Mutant of SubmitOutgoingDecision: a decision already taken is replaced.
SubmitDecisionAgain(s, id, outcome) ==
    LET accepted ==
            [s EXCEPT !.outgoing.decision_accepted = TRUE,
                      !.outgoing.decision = outcome,
                      !.outgoing.decision_request_id = id]
    IN  IF /\ s.outgoing.request_pending
           /\ id # 0
           /\ id = s.outgoing.request_id
           /\ outcome # "service_reject"
        THEN IF s.state = "awaiting_outgoing_decision"
             THEN ApplyOutgoingDecision(accepted) ELSE accepted
        ELSE s

SubmitOutgoingDecision(s, id, outcome) ==
    LET accepted ==
            [s EXCEPT !.outgoing.decision_accepted = TRUE,
                      !.outgoing.decision = outcome,
                      !.outgoing.decision_request_id = id]
    IN  IF /\ s.outgoing.request_pending
           /\ id # 0
           /\ id = s.outgoing.request_id
           /\ ~s.outgoing.decision_accepted
           /\ outcome # "service_reject"
        THEN IF s.state = "awaiting_outgoing_decision"
             THEN ApplyOutgoingDecision(accepted) ELSE accepted
        ELSE s
==============================================================================
