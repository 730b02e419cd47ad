------------------------ MODULE GsmSessionRefinement ------------------------
(***************************************************************************)
(* The detailed session implements HostSession: the view of it that the    *)
(* finders of nokia_gsm_session.h give takes only the steps HostSession    *)
(* allows.                                                                 *)
(***************************************************************************)
EXTENDS GsmSession

OutgoingSetup ==
    {"awaiting_call_proceeding_acknowledgement",
     "awaiting_call_alerting_acknowledgement",
     "awaiting_outgoing_connect_acknowledgement"}
Assigning == {"awaiting_traffic_assignment", "awaiting_assignment_complete"}

StageOf(state) ==
    CASE state = "idle" -> "idle"
      [] state = "awaiting_paging_response" -> "paging"
      [] state = "awaiting_outgoing_decision" -> "deciding"
      [] state \in OutgoingSetup -> "outgoing_setup"
      [] state \in Assigning -> "assigning"
      [] state = "awaiting_incoming_call_setup_acknowledgement" ->
           "incoming_setup"
      [] state = "outgoing_call_alerting" -> "alerting"
      [] state = "incoming_call_active" -> "active"
      [] OTHER -> "other"

HostView ==
    [stage |-> StageOf(session.state),
     originated |-> session.mobile_originated = "call",
     ringing |-> session.call.alerting,
     answered |-> session.call.answered,
     forwarded |-> session.call.forwarded,
     service |-> session.incoming_service,
     completed |-> session.incoming_service_completed,
     call |-> [pending |-> session.outgoing.request_pending,
               id |-> session.outgoing.request_id,
               decision |-> IF session.outgoing.decision_accepted
                            THEN session.outgoing.decision ELSE "none",
               terminated |-> session.outgoing.termination_accepted],
     sms |-> [pending |-> session.sms.request_pending,
              id |-> session.sms.request_id,
              decided |-> session.sms.decision_accepted],
     ussd |-> [pending |-> session.ussd.request_pending,
               id |-> session.ussd.request_id,
               asking |-> session.state = "awaiting_mobile_ussd_host_response"]]

Promised == INSTANCE HostSession WITH phone <- HostView

(* What the adapter can observe of the session is a behaviour of           *)
(* HostSession: a call is heard only under a decision, a request is closed *)
(* with its transaction, and its counter never goes back but by a reset.   *)
ImplementsHostSession == Promised!Spec
==============================================================================
