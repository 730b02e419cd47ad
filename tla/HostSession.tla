----------------------------- MODULE HostSession -----------------------------
(***************************************************************************)
(* What nokia_gsm_session_device promises the host call adapter and the    *)
(* radio peer: the requests it publishes, the answers it takes, and which  *)
(* of idle, paging, alerting and connected they can observe.  How calls    *)
(* and messages get there is left free.  GsmSessionRefinement shows that   *)
(* the detailed session implements this module, and HostTelephony composes *)
(* the adapter and the bridges with it.                                    *)
(*                                                                         *)
(* An operator on a phone is what one entry point, or one step of the      *)
(* handset and the network, does to that view.                             *)
(***************************************************************************)
EXTENDS Naturals

CONSTANT MaxRequestId   \* the last value of a request counter before it wraps

ASSUME RequestAssumption == MaxRequestId \in Nat \ {0}

VARIABLE phone

RequestId == 0 .. MaxRequestId
NextRequestId(id) == IF id = MaxRequestId THEN 1 ELSE id + 1

CallOutcome == {"connect", "busy", "no_answer"}

PageService ==
    {"call", "sms", "smart_message", "status_report",
     "ussd_request", "ussd_notification"}

Stage ==
    {"idle",
     "paging",      \* awaiting_paging_response
     "deciding",         \* awaiting_outgoing_decision
     "outgoing_setup",   \* the rest from CALL PROCEEDING up to CONNECT
     "assigning",        \* the traffic channel is assigned
     "incoming_setup",   \* awaiting_incoming_call_setup_acknowledgement
     "alerting",    \* outgoing_call_alerting
     "active",      \* incoming_call_active
     "other"}       \* any other state: signalling, messages, release

CallRequest ==
    [pending : BOOLEAN, id : RequestId, decision : CallOutcome \cup {"none"},
     terminated : BOOLEAN]
SmsRequest == [pending : BOOLEAN, id : RequestId, decided : BOOLEAN]
UssdRequest == [pending : BOOLEAN, id : RequestId, asking : BOOLEAN]

Phone ==
    [stage : Stage,
     originated : BOOLEAN,      \* m_mobile_originated_call
     ringing : BOOLEAN,         \* m_call_alerting
     answered : BOOLEAN,        \* m_incoming_call_answered
     forwarded : BOOLEAN,       \* m_incoming_call_forwarded
     service : PageService \cup {"none"},
     completed : BOOLEAN,       \* m_incoming_service_completed
     call : CallRequest, sms : SmsRequest, ussd : UssdRequest]

PhoneReset ==
    [stage |-> "idle", originated |-> FALSE, ringing |-> FALSE,
     answered |-> FALSE, forwarded |-> FALSE, service |-> "none",
     completed |-> FALSE,
     call |-> [pending |-> FALSE, id |-> 0, decision |-> "none",
               terminated |-> FALSE],
     sms |-> [pending |-> FALSE, id |-> 0, decided |-> FALSE],
     ussd |-> [pending |-> FALSE, id |-> 0, asking |-> FALSE]]

------------------------------------------------------------------------------
(* What the adapter and the peer observe *)

Idle(p) == p.stage = "idle"
OutgoingCallConnected(p) == p.originated /\ p.stage = "active"
OutgoingCallAlerting(p) == p.originated /\ p.stage = "alerting"
IncomingCallConnected(p) == ~p.originated /\ p.answered /\ p.stage = "active"
IncomingCallAlerting(p) == ~p.originated /\ p.ringing

------------------------------------------------------------------------------
(* What the host may do *)

AcceptsDecision(p, id) ==
    p.call.pending /\ id # 0 /\ id = p.call.id
    /\ p.call.decision = "none"

\* A second call of the connection needs no channel of its own.
StageDecided(p, outcome) ==
    CASE p.stage # "deciding" -> {p.stage}
      [] p.stage = "deciding" /\ outcome = "busy" -> {"other"}
      [] OTHER -> {"assigning", "outgoing_setup"}
Decide(p, outcome, stage) ==
    [p EXCEPT !.call.decision = outcome, !.stage = stage]

\* Until the call is heard its termination waits for that.
Deferring == {"deciding", "outgoing_setup", "assigning"}
AcceptsOutgoingTermination(p, id) ==
    /\ p.originated /\ p.call.pending
    /\ id # 0 /\ id = p.call.id
    /\ p.call.decision # "none" /\ ~p.call.terminated
    /\ p.stage \in Deferring \cup {"alerting", "active"}
TerminateOutgoing(p) ==
    LET marked == [p EXCEPT !.call.terminated = TRUE]
    IN  IF p.stage \in Deferring THEN marked
        ELSE [marked EXCEPT !.stage = "other", !.ringing = FALSE]

AcceptsIncomingTermination(p) ==
    ~p.originated /\ p.stage \in {"incoming_setup", "assigning", "active"}
TerminateIncoming(p) == [p EXCEPT !.stage = "other", !.ringing = FALSE]

AcceptsSmsDecision(p, id) ==
    p.sms.pending /\ id # 0 /\ id = p.sms.id /\ ~p.sms.decided
DecideSms(p) == [p EXCEPT !.sms.decided = TRUE]

AcceptsUssdResponse(p, id) ==
    p.ussd.pending /\ id # 0 /\ id = p.ussd.id /\ p.ussd.asking
AnswerUssd(p) == [p EXCEPT !.ussd.asking = FALSE]

TakeForwarded(p) == [p EXCEPT !.forwarded = FALSE]

------------------------------------------------------------------------------
(* What the handset and the network do *)

\* A page, its answer or its cancellation, or a request of the handset.
Paged(p, service) ==
    [p EXCEPT !.stage = "paging", !.service = service,
              !.answered = FALSE, !.completed = FALSE]
PageCancelled(p) ==
    [p EXCEPT !.stage = "idle", !.service = "none", !.completed = FALSE]
PageAnswered(p) ==
    [p EXCEPT !.stage = "other", !.originated = FALSE, !.completed = FALSE]
Originates(p, call) ==
    [p EXCEPT !.stage = "other", !.originated = call, !.completed = FALSE]

\* The request counters only ever advance.
AsksForCall(p, decision) ==
    [p EXCEPT !.stage = "outgoing_setup",
              !.call = [@ EXCEPT !.pending = TRUE,
                                 !.id = NextRequestId(@),
                                 !.decision = decision]]
AsksForSms(p) ==
    [p EXCEPT !.sms = [pending |-> TRUE, id |-> NextRequestId(@.id),
                       decided |-> FALSE]]
AsksForUssd(p) ==
    [p EXCEPT !.ussd = [pending |-> TRUE, id |-> NextRequestId(@.id),
                        asking |-> TRUE]]

\* The stages a connection may go through next.
Follows(stage) ==
    CASE stage = "outgoing_setup" ->
           {"deciding", "assigning", "alerting", "active", "other"}
      [] stage = "assigning" -> {"outgoing_setup", "active", "other"}
      [] stage = "incoming_setup" -> {"active", "other"}
      [] stage = "alerting" -> {"other"}
      [] stage = "active" -> {"assigning", "other"}
      [] stage = "other" -> {"incoming_setup", "active"}
      [] OTHER -> {}

\* A call the handset makes is heard at the other end only under a decision,
\* and one it receives is set up only after its page.
Heard(p, stage) ==
    /\ p.originated /\ stage \in {"alerting", "active"} =>
         /\ p.call.pending /\ ~p.call.terminated
         /\ p.call.decision \in {"connect", "no_answer"}
    /\ stage = "deciding" => p.call.decision = "none"
    /\ p.originated /\ p.stage = "outgoing_setup" /\ stage = "active" =>
         p.call.decision = "connect"
    /\ stage = "incoming_setup" =>
         /\ ~p.originated /\ ~p.ringing /\ ~p.answered
         /\ p.service = "call"
    /\ p.stage = "other" /\ stage = "active" /\ ~p.originated =>
         p.service = "call" \/ p.call.pending
Advances(p, stage, ringing) == [p EXCEPT !.stage = stage, !.ringing = ringing]

\* The handset answers, or alerts its user, once it has the Setup.
Reached(p) == ~p.originated /\ p.stage \in {"incoming_setup", "assigning", "active"}
Rings(p) == [p EXCEPT !.ringing = TRUE]
Answers(p) ==
    [p EXCEPT !.stage = "other", !.ringing = FALSE, !.answered = TRUE]
DivertsUnanswered(p) ==
    [p EXCEPT !.stage = "other", !.ringing = FALSE, !.forwarded = TRUE]

\* Ending a transaction closes every request of it, whatever the service.
Retired(p, service, completed) ==
    [p EXCEPT !.stage = "idle", !.originated = FALSE,
              !.service = service, !.completed = completed,
              !.call = [@ EXCEPT !.pending = FALSE, !.decision = "none",
                                 !.terminated = FALSE],
              !.sms = [@ EXCEPT !.pending = FALSE, !.decided = FALSE],
              !.ussd = [@ EXCEPT !.pending = FALSE, !.asking = FALSE]]

------------------------------------------------------------------------------
(* Every step the adapter may see the session take *)

Init == phone = PhoneReset

HostActs ==
    \/ /\ AcceptsDecision(phone, phone.call.id)
       /\ \E outcome \in CallOutcome :
            \E stage \in StageDecided(phone, outcome) :
                phone' = Decide(phone, outcome, stage)
    \/ /\ AcceptsOutgoingTermination(phone, phone.call.id)
       /\ phone' = TerminateOutgoing(phone)
    \/ /\ AcceptsIncomingTermination(phone)
       /\ phone' = TerminateIncoming(phone)
    \/ /\ AcceptsSmsDecision(phone, phone.sms.id)
       /\ phone' = DecideSms(phone)
    \/ /\ AcceptsUssdResponse(phone, phone.ussd.id)
       /\ phone' = AnswerUssd(phone)
    \/ phone' = TakeForwarded(phone)
    \/ Idle(phone) /\ \E service \in PageService : phone' = Paged(phone, service)
    \/ phone.stage \in {"idle", "paging"} /\ phone' = PageCancelled(phone)

HandsetActs ==
    \/ phone.stage = "paging" /\ phone' = PageAnswered(phone)
    \/ Idle(phone) /\ \E call \in BOOLEAN : phone' = Originates(phone, call)
    \/ /\ phone.stage = "other"
       /\ \E decision \in CallOutcome \cup {"none"} :
            phone' = AsksForCall(phone, decision)
    \/ phone.stage = "other" /\ phone' = AsksForSms(phone)
    \/ phone.stage = "other" /\ phone' = AsksForUssd(phone)

CallActs ==
    \/ \E stage \in Follows(phone.stage), ringing \in BOOLEAN :
         /\ Heard(phone, stage)
         /\ ringing =>
              \/ phone.ringing
              \/ phone.originated /\ phone.stage = "assigning"
                                  /\ stage = "outgoing_setup"
         /\ phone.originated /\ stage = "other" => ~ringing
         /\ phone' = Advances(phone, stage, ringing)
    \/ Reached(phone) /\ phone' = Rings(phone)
    \/ Reached(phone) /\ ~phone.answered /\ phone' = Answers(phone)

NetworkActs ==
    \/ CallActs
    \/ Reached(phone) /\ phone.ringing /\ phone' = DivertsUnanswered(phone)
    \/ \E answered \in {phone.answered, FALSE}, completed \in BOOLEAN,
          service \in {"none", "status_report", phone.service} :
         /\ phone.stage = "other" /\ ~phone.ringing
         /\ phone' = Retired([phone EXCEPT !.answered = answered],
                             service, completed)
    \/ \E completed \in BOOLEAN :
         phone.stage = "other" /\ phone' = [phone EXCEPT !.completed = completed]
    \/ phone' = PhoneReset

Next == HostActs \/ HandsetActs \/ NetworkActs

Spec == Init /\ [][Next]_phone

TypeOK == phone \in Phone
==============================================================================
