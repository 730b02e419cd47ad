----------------------------- MODULE MCGsmSession -----------------------------
(***************************************************************************)
(* GsmSession on small instances.  A scenario fixes what handsets ask for  *)
(* and send and the networks they meet; the order of messages,             *)
(* acknowledgements, host decisions, timers, link failures and resets is   *)
(* free in all of them.                                                    *)
(***************************************************************************)
EXTENDS GsmSessionRefinement

CONSTANTS c1, c2   \* cells

Fallback ==
    [host_call_adapter |-> FALSE, decision_delayed |-> FALSE,
     authentication_required |-> FALSE, ciphered |-> FALSE,
     location_update_allowed |-> TRUE, call_outcome |-> "connect",
     sms_outcome |-> "accept", ussd_outcome |-> "success",
     forwarding |-> [condition \in ForwardingCondition |-> "erased"]]

Adapted == [Fallback EXCEPT !.host_call_adapter = TRUE]
Ciphered(n) == [n EXCEPT !.ciphered = TRUE, !.authentication_required = TRUE]

------------------------------------------------------------------------------
(* Calls the handset makes: two at most, decided by the host or a timer *)

OutgoingNetworks ==
    {Adapted, [Fallback EXCEPT !.decision_delayed = TRUE],
     [Fallback EXCEPT !.call_outcome = "no_answer"],
     [Fallback EXCEPT !.call_outcome = "service_reject"]}

OutgoingKinds ==
    {"setup", "connect_acknowledge", "disconnect", "release",
     "release_complete", "assignment_complete", "cm_service_request",
     "start_dtmf", "stop_dtmf"}

------------------------------------------------------------------------------
(* Calls the handset receives: a waiting one, conferences, forwarding when *)
(* nobody answers, handover                                                *)

IncomingNetworks == {[Adapted EXCEPT !.forwarding["no_reply"] = "active"]}

IncomingKinds ==
    {"cipher_mode_complete", "call_confirmed", "alerting", "connect",
     "disconnect", "release", "release_complete", "assignment_complete",
     "hold", "retrieve", "build_mpty", "hold_mpty", "retrieve_mpty",
     "split_mpty", "handover_complete", "handover_failure"}

------------------------------------------------------------------------------
(* Short messages both ways, with every outcome *)

MessageNetworks ==
    {[Fallback EXCEPT !.sms_outcome = outcome] : outcome \in SmsOutcome}
      \cup {Ciphered(Adapted)}

MessageKinds ==
    {"cp_ack", "rp_ack", "rp_error", "submit", "submit_with_report",
     "cipher_mode_complete", "authentication_response_valid",
     "authentication_response_invalid"}

------------------------------------------------------------------------------
(* Supplementary services and USSD both ways, and location updates *)

SupplementaryNetworks ==
    LET answering ==
            {[Fallback EXCEPT !.ussd_outcome = outcome] :
                outcome \in {"success", "silence", "continuation_request"}}
    IN  answering \cup {Ciphered(Fallback), Ciphered(Adapted),
                        [Ciphered(Fallback) EXCEPT
                           !.location_update_allowed = FALSE]}

SupplementaryKinds ==
    {"process_uss_request", "register_ss", "activate_ss", "deactivate_ss",
     "erase_ss", "interrogate_ss", "ss_result", "ss_result_empty",
     "ss_release_complete", "cipher_mode_complete",
     "authentication_response_valid", "authentication_response_invalid"}

------------------------------------------------------------------------------
(* Scenarios *)

Scenario(networks, establishments, services, kinds) ==
    [networks |-> networks, cells |-> {c1}, establishments |-> establishments,
     services |-> services, kinds |-> kinds,
     waiting |-> FALSE, handover |-> FALSE]

Outgoing ==
    Scenario(OutgoingNetworks,
             {"cm_call", "location_update_imsi", "paging_response"}, {"call"},
             OutgoingKinds)
Incoming ==
    [Scenario(IncomingNetworks, {"location_update_imsi", "paging_response"},
              {"call"}, IncomingKinds)
     EXCEPT !.waiting = TRUE, !.handover = TRUE]
Messages ==
    Scenario(MessageNetworks,
             {"location_update_imsi", "paging_response", "cm_sms"},
             {"sms", "smart_message", "status_report"}, MessageKinds)
Supplementary ==
    Scenario(SupplementaryNetworks,
             {"location_update_imsi", "location_update_tmsi", "paging_response",
              "cm_supplementary"},
             {"ussd_request", "ussd_notification"}, SupplementaryKinds)

AllScenarios == {Outgoing, Incoming, Messages, Supplementary}
IncomingScenarios == {Incoming}
CallScenarios == {[Outgoing EXCEPT !.establishments = {"cm_call"},
                                   !.services = {}]}
MessageScenarios == {Messages}
==============================================================================
