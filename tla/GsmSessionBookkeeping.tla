------------------------ MODULE GsmSessionBookkeeping ------------------------
(***************************************************************************)
(* What GsmSession's fields say of each other, for every value of the      *)
(* constants: the cipher, the legs of a call, the host's requests and the  *)
(* handover target agree with the state and among themselves.              *)
(*                                                                         *)
(* Books is the inductive invariant's part about a session: for each of    *)
(* the properties, the states in which what it speaks of may hold.  A      *)
(* handler that leaves the fields of the books as they are keeps them when *)
(* the books allow the Passage between the two states; the lemmas about    *)
(* the other handlers follow the fields they write.  Sound(s, t, n) adds   *)
(* to Books(t, n) what the step from s to t may never do.                  *)
(***************************************************************************)
EXTENDS GsmSessionProofs, FiniteSetTheorems

USE SessionAssumption

\* The states in which nothing is ciphered yet.
PreCipher ==
    {"idle", "awaiting_paging_response", "awaiting_contention_resolution",
     "awaiting_paging_contention_resolution",
     "awaiting_authentication_request_acknowledgement",
     "awaiting_authentication_response",
     "awaiting_cipher_mode_command_acknowledgement"}
Commanded == "awaiting_cipher_mode_command_acknowledgement"

\* The end of every transaction, and all that mobility management sends.
Releasing == "awaiting_channel_release_acknowledgement"
Ending == {Releasing, "awaiting_release_complete"}
Signalling ==
    PreCipher \cup Ending \cup
    {"awaiting_authentication_reject_acknowledgement",
     "awaiting_location_update_accept_acknowledgement",
     "awaiting_location_update_reject_acknowledgement",
     "awaiting_cm_service_reject_acknowledgement"}

\* The states of a call, of a USSD request of the handset's and of a short
\* message it submits: what the host may be asked in.
HandoverState == "awaiting_handover_result"
LegReleasing == "awaiting_call_release_acknowledgement"
InCall ==
    {"awaiting_call_proceeding_acknowledgement", "awaiting_outgoing_decision",
     "awaiting_call_alerting_acknowledgement",
     "awaiting_outgoing_connect_acknowledgement", "outgoing_call_alerting",
     "awaiting_network_disconnect_acknowledgement", "awaiting_handset_release",
     "awaiting_second_cm_service_accept_acknowledgement",
     "awaiting_second_outgoing_call_setup",
     "awaiting_incoming_call_setup_acknowledgement", "incoming_call_active",
     "awaiting_traffic_assignment", "awaiting_assignment_complete",
     "awaiting_connect_acknowledgement", LegReleasing, HandoverState}
InUssd ==
    {"awaiting_mobile_ussd_host_response",
     "awaiting_supplementary_release_acknowledgement",
     "awaiting_supplementary_facility_acknowledgement",
     "awaiting_supplementary_response"}
InSubmit ==
    {"awaiting_mobile_sms_sapi3_establishment", "awaiting_mobile_sms_submit",
     "awaiting_mobile_sms_cp_ack_acknowledgement",
     "awaiting_mobile_sms_host_decision", "awaiting_mobile_sms_final_cp_ack",
     "awaiting_mobile_sms_timeout"}
Unserved == {"idle", "awaiting_paging_response"}

------------------------------------------------------------------------------
(* The books *)

\* A command is pending only while its acknowledgement or completion is, and
\* past signalling a ciphered network's connection is ciphered.
CipherBooks(state, cipher, n) ==
    /\ cipher.active => cipher.key_valid /\ cipher.algorithm = "a5_1"
    /\ state \in PreCipher => ~cipher.active
    /\ cipher.command_pending => state = Commanded
    /\ state = Commanded =>
         /\ cipher.algorithm = IF n.ciphered THEN "a5_1" ELSE "a5_0"
         /\ cipher.command_pending = n.ciphered
         /\ n.ciphered => cipher.key_valid
    /\ n.ciphered /\ state \notin Signalling => cipher.active

DecisionBooks(outgoing) ==
    outgoing.decision_accepted =>
        /\ outgoing.request_pending
        /\ outgoing.decision_request_id = outgoing.request_id
        /\ outgoing.request_id # 0

Live(states) == {leg \in Leg : states[leg] # "inactive"}

LegBooks(state, call) ==
    /\ call.releasing_leg # NoLeg =>
         state = LegReleasing /\ call.releasing_leg \in Live(call.leg_states)
    /\ call.multiparty_active => Live(call.leg_states) = Leg
    /\ call.multiparty_held => call.multiparty_active

\* The host's requests belong to the states of their procedure, which an
\* incoming call and a transaction of the handset's never share.
RequestBooks(s) ==
    /\ s.outgoing.request_pending \/ s.outgoing.decision_timer =>
         s.state \in InCall \cup Ending
    /\ s.ussd.request_pending => s.state \in InUssd \cup Ending
    /\ s.sms.request_pending =>
         s.state \in InSubmit \cup {Releasing} /\ s.incoming_service # "call"

ServiceBooks(s) ==
    /\ s.mobile_originated # "none" => s.incoming_service # "call"
    /\ s.state = "idle" => s.incoming_service # "call"
    /\ s.state \in Unserved => s.mobile_originated = "none"
    /\ s.state \in InSubmit => s.mobile_originated = "sms"

HandoverBooks(s) ==
    s.handover_target_arfcn # NoCell <=> s.state = HandoverState

Books(s, n) ==
    /\ CipherBooks(s.state, s.cipher, n)
    /\ DecisionBooks(s.outgoing)
    /\ LegBooks(s.state, s.call)
    /\ RequestBooks(s)
    /\ ServiceBooks(s)
    /\ HandoverBooks(s)

\* The decision about one request is never replaced, and a channel whose leg
\* was being released is released with its last leg only.
Sound(s, t, n) ==
    /\ Books(t, n)
    /\ (/\ s.outgoing.decision_accepted /\ t.outgoing.decision_accepted
        /\ t.outgoing.request_id = s.outgoing.request_id)
          => t.outgoing.decision = s.outgoing.decision
    /\ s.call.releasing_leg # NoLeg /\ t.state = Releasing
         => Live(t.call.leg_states) = {}

------------------------------------------------------------------------------
(* Steps that leave the books alone, but for legs that come alive *)

LegsKept(call, other) ==
    /\ Live(call.leg_states) \subseteq Live(other.leg_states)
    /\ other.releasing_leg = call.releasing_leg
    /\ other.multiparty_active = call.multiparty_active
    /\ other.multiparty_held = call.multiparty_held

Kept(s, t) ==
    /\ t.cipher = s.cipher /\ t.outgoing = s.outgoing
    /\ LegsKept(s.call, t.call)
    /\ t.ussd.request_pending = s.ussd.request_pending
    /\ t.sms.request_pending = s.sms.request_pending
    /\ t.incoming_service = s.incoming_service
    /\ t.mobile_originated = s.mobile_originated
    /\ t.handover_target_arfcn = s.handover_target_arfcn

\* The moves between states that need no entry in the books.
Passage(n, from, to) ==
    /\ {from, to} \cap {Commanded, HandoverState} = {}
    /\ to \in PreCipher => from \in PreCipher
    /\ n.ciphered /\ to \notin Signalling => from \notin Signalling
    /\ from \in InCall \cup Ending => to \in InCall \cup Ending
    /\ from \in InUssd \cup Ending => to \in InUssd \cup Ending
    /\ from \in InSubmit \cup {Releasing} => to \in InSubmit \cup {Releasing}
    /\ to \in InSubmit => from \in InSubmit
    /\ to \in Unserved => from = to
    /\ from # LegReleasing

LEMMA LegsKeptBooks ==
    ASSUME NEW state, NEW call, NEW other, LegBooks(state, call),
           LegsKept(call, other)
    PROVE  /\ LegBooks(state, other)
           /\ call.releasing_leg = NoLeg => \A to : LegBooks(to, other)
<1>1. Live(other.leg_states) \subseteq Leg
  BY DEF Live
<1> QED
  BY <1>1 DEF LegBooks, LegsKept

LEMMA StaySound ==
    ASSUME NEW s, NEW t, NEW n, Books(s, n), Kept(s, t), t.state = s.state
    PROVE  Sound(s, t, n)
<1>1. /\ CipherBooks(t.state, t.cipher, n) /\ DecisionBooks(t.outgoing)
      /\ LegBooks(t.state, t.call) /\ RequestBooks(t)
      /\ ServiceBooks(t) /\ HandoverBooks(t)
  BY LegsKeptBooks
     DEF Books, Kept, RequestBooks, ServiceBooks, HandoverBooks
<1>2. s.call.releasing_leg # NoLeg => t.state # Releasing
  BY DEF Books, LegBooks, LegReleasing, Releasing
<1> QED
  BY <1>1, <1>2 DEF Sound, Books, Kept

LEMMA PassageSound ==
    ASSUME NEW s, NEW t, NEW n, Books(s, n), Kept(s, t),
           Passage(n, s.state, t.state)
    PROVE  Sound(s, t, n)
<1>1. CipherBooks(t.state, t.cipher, n)
  BY DEF Books, Kept, CipherBooks, Passage
<1>2. s.call.releasing_leg = NoLeg
  BY DEF Books, LegBooks, Passage
<1>3. LegBooks(t.state, t.call)
  BY <1>2, LegsKeptBooks DEF Books, Kept
<1>4. RequestBooks(t)
  BY DEF Books, Kept, RequestBooks, Passage
<1>5. ServiceBooks(t)
  BY DEF Books, Kept, ServiceBooks, Passage, Unserved
<1>6. HandoverBooks(t)
  BY DEF Books, Kept, HandoverBooks, Passage
<1> QED
  BY <1>1, <1>2, <1>3, <1>4, <1>5, <1>6 DEF Sound, Books, Kept

LEMMA MoveKept ==
    ASSUME NEW s \in SessionState, NEW state
    PROVE  /\ Kept(s, InState(s, state)) /\ InState(s, state).state = state
           /\ Kept(s, Settle(s, state)) /\ Settle(s, state).state = state
  BY DEF InState, Settle, ClearPendingDownlink, SessionState, Kept, LegsKept

LEMMA CallMoveKept ==
    ASSUME NEW s \in SessionState, NEW state, NEW kind, NEW ti
    PROVE  /\ Kept(s, AnswerCall(s, state, kind, ti))
           /\ AnswerCall(s, state, kind, ti).state = state
  BY DEF AnswerCall, QueueDownlink, InState, SessionState, Kept, LegsKept

LEMMA AnswerKept ==
    ASSUME NEW s \in SessionState, NEW state, NEW kind
    PROVE  /\ Kept(s, Answer(s, state, kind))
           /\ Answer(s, state, kind).state = state
  BY CallMoveKept DEF Answer, AnswerCall

\* A handler that writes into the books proves them anew.
LEMMA BooksSound ==
    ASSUME NEW s, NEW t, NEW n, Books(s, n), Books(t, n),
           t.outgoing = s.outgoing \/ ~t.outgoing.decision_accepted,
           s.state # LegReleasing \/ t.state # Releasing
    PROVE  Sound(s, t, n)
  BY DEF Sound, Books, LegBooks

\* The sets of states are enumerations.
USE DEF PreCipher, Commanded, Releasing, Ending, Signalling, HandoverState,
        LegReleasing, InCall, InUssd, InSubmit, Unserved

LEMMA ReleaseSound ==
    ASSUME NEW s \in SessionState, NEW n, Books(s, n),
           s.state \notin {Commanded, HandoverState, LegReleasing}
    PROVE  Sound(s, BeginChannelRelease(s), n)
<1>1. /\ Kept(s, BeginChannelRelease(s))
      /\ BeginChannelRelease(s).state = Releasing
  BY AnswerKept DEF BeginChannelRelease
<1>2. Passage(n, s.state, Releasing)
  BY DEF Passage
<1> QED
  BY <1>1, <1>2, PassageSound

------------------------------------------------------------------------------
(* Reset *)

LEMMA DeviceResetBooks ==
    ASSUME NEW registered, NEW arfcn, NEW decision, NEW n
    PROVE  LET t == DeviceReset(registered, arfcn, decision)
           IN  Books(t, n) /\ t.state = "idle" /\ ~t.outgoing.decision_accepted
<1> DEFINE t == DeviceReset(registered, arfcn, decision)
<1>1. /\ t.state = "idle" /\ t.cipher = CipherReset /\ t.call = CallReset
      /\ t.outgoing = OutgoingReset
      /\ ~t.ussd.request_pending /\ ~t.sms.request_pending
      /\ t.incoming_service = "none" /\ t.mobile_originated = "none"
      /\ t.handover_target_arfcn = NoCell
  BY DEF DeviceReset, SmsReset
<1>2. Books(t, n)
  BY <1>1 DEF Books, CipherBooks, DecisionBooks, LegBooks, RequestBooks,
     ServiceBooks, HandoverBooks, CipherReset, CallReset, OutgoingReset, Live
<1> QED
  BY <1>1, <1>2 DEF OutgoingReset

LEMMA ResetBooks ==
    ASSUME NEW registered, NEW arfcn, NEW decision, NEW n, NEW s, Books(s, n)
    PROVE  Sound(s, DeviceReset(registered, arfcn, decision), n)
  BY DeviceResetBooks, BooksSound

------------------------------------------------------------------------------
(* Establishment, authentication and ciphering *)

LEMMA EstablishSound ==
    ASSUME NEW s \in SessionState, NEW n, Books(s, n),
           NEW request \in Establishment, NEW arfcn \in Cells
    PROVE  Sound(s, EstablishLayer3(s, request, arfcn), n)
<1> DEFINE t == EstablishLayer3(s, request, arfcn)
<1>1. CASE ~Establishes(s, request)
  BY <1>1, StaySound DEF EstablishLayer3, Kept, LegsKept
<1>2. CASE Establishes(s, request)
  <2>1. /\ t.cipher = s.cipher /\ t.outgoing = s.outgoing
        /\ LegsKept(s.call, t.call)
        /\ t.ussd = s.ussd /\ t.sms = s.sms
        /\ t.incoming_service = s.incoming_service
        /\ t.mobile_originated = OriginatedBy(request)
        /\ t.handover_target_arfcn = s.handover_target_arfcn
        /\ t.state \in {"awaiting_paging_contention_resolution",
                        "awaiting_contention_resolution"}
    BY <1>2 DEF EstablishLayer3, Settle, ClearPendingDownlink, InState,
       SessionState, CallState, LegsKept
  <2>2. s.state \in Unserved
    BY <1>2 DEF Establishes
  <2>3. OriginatedBy(request) # "none" => s.state = "idle"
    BY <1>2 DEF Establishes, OriginatedBy, LocationUpdate, CmService
  <2> HIDE DEF t
  <2>4. /\ CipherBooks(t.state, t.cipher, n) /\ DecisionBooks(t.outgoing)
        /\ LegBooks(t.state, t.call)
    <3>1. s.call.releasing_leg = NoLeg
      BY <2>2 DEF Books, LegBooks
    <3> QED
      BY <2>1, <2>2, <3>1, LegsKeptBooks DEF Books, CipherBooks
  <2>5. /\ RequestBooks(t) /\ ServiceBooks(t) /\ HandoverBooks(t)
    BY <2>1, <2>2, <2>3 DEF Books, RequestBooks, ServiceBooks, HandoverBooks
  <2> QED
    BY <2>1, <2>2, <2>4, <2>5, BooksSound DEF Books, t
<1> QED
  BY <1>1, <1>2

LEMMA LocationReplySound ==
    ASSUME NEW s \in SessionState, NEW n, Books(s, n),
           s.state \in {"awaiting_contention_resolution",
                        "awaiting_authentication_response"}
    PROVE  Sound(s, LocationUpdateReply(s, n), n)
<1> DEFINE t == LocationUpdateReply(s, n)
<1>1. /\ Kept(s, t)
      /\ t.state \in {"awaiting_location_update_accept_acknowledgement",
                      "awaiting_location_update_reject_acknowledgement"}
  BY DEF LocationUpdateReply, Answer, QueueDownlink, InState, SessionState,
         Kept, LegsKept
<1>2. Passage(n, s.state, t.state)
  BY <1>1 DEF Passage
<1> QED
  BY <1>1, <1>2, PassageSound

\* Before the command, a key may come and go.
KeyOnly(s, t) ==
    /\ t.state = s.state /\ t.outgoing = s.outgoing /\ t.call = s.call
    /\ t.ussd = s.ussd /\ t.sms = s.sms
    /\ t.incoming_service = s.incoming_service
    /\ t.mobile_originated = s.mobile_originated
    /\ t.handover_target_arfcn = s.handover_target_arfcn
    /\ t.cipher.active = s.cipher.active
    /\ t.cipher.command_pending = s.cipher.command_pending
    /\ t.cipher.algorithm = s.cipher.algorithm

LEMMA KeyBooks ==
    ASSUME NEW s, NEW t, NEW n, Books(s, n), KeyOnly(s, t),
           s.state \in PreCipher \ {Commanded}
    PROVE  Books(t, n)
  BY DEF Books, KeyOnly, CipherBooks, RequestBooks, ServiceBooks, HandoverBooks

Keying == {"awaiting_contention_resolution",
           "awaiting_paging_contention_resolution",
           "awaiting_authentication_response"}

LEMMA AuthenticationSound ==
    ASSUME NEW s \in SessionState, NEW n, Books(s, n), s.state \in Keying
    PROVE  Sound(s, RequestAuthentication(s), n)
<1> DEFINE t == RequestAuthentication(s)
<1>1. /\ Kept(s, t)
      /\ t.state = "awaiting_authentication_request_acknowledgement"
  BY AnswerKept DEF RequestAuthentication
<1>2. Passage(n, s.state, t.state)
  BY <1>1 DEF Passage, Keying
<1> QED
  BY <1>1, <1>2, PassageSound

LEMMA CommandSound ==
    ASSUME NEW s \in SessionState, NEW n \in Network, Books(s, n),
           s.state \in Keying, n.ciphered => s.cipher.key_valid
    PROVE  Sound(s, CommandCipherMode(s, n), n)
<1> DEFINE t == CommandCipherMode(s, n)
<1>1. /\ t.state = Commanded /\ t.outgoing = s.outgoing
      /\ t.call = s.call /\ t.ussd = s.ussd /\ t.sms = s.sms
      /\ t.incoming_service = s.incoming_service
      /\ t.mobile_originated = s.mobile_originated
      /\ t.handover_target_arfcn = s.handover_target_arfcn
      /\ t.cipher.algorithm = (IF n.ciphered THEN "a5_1" ELSE "a5_0")
      /\ t.cipher.command_pending = n.ciphered
      /\ t.cipher.key_valid = s.cipher.key_valid
      /\ t.cipher.active = s.cipher.active
  BY DEF CommandCipherMode, Answer, QueueDownlink, InState, SessionState,
         CipherState
<1> HIDE DEF t
<1>2. ~s.cipher.active
  BY DEF Books, CipherBooks, Keying
<1>3. /\ CipherBooks(t.state, t.cipher, n) /\ DecisionBooks(t.outgoing)
      /\ LegBooks(t.state, t.call)
  BY <1>1, <1>2 DEF Books, CipherBooks, LegBooks, Keying
<1>4. RequestBooks(t) /\ ServiceBooks(t) /\ HandoverBooks(t)
  BY <1>1 DEF Books, RequestBooks, ServiceBooks, HandoverBooks, Keying
<1> QED
  BY <1>1, <1>3, <1>4, BooksSound DEF Books, Keying, t

LEMMA KeptTransitive ==
    ASSUME NEW s, NEW t, NEW u, Kept(s, t), Kept(t, u)
    PROVE  Kept(s, u)
  BY DEF Kept, LegsKept

\* A handler that first edits what is not in the books.
LEMMA ThroughSound ==
    ASSUME NEW s, NEW t, NEW u, NEW n, Sound(u, t, n),
           u.outgoing = s.outgoing,
           u.call.releasing_leg = s.call.releasing_leg
    PROVE  Sound(s, t, n)
  BY DEF Sound

LEMMA ServiceCipherSound ==
    ASSUME NEW s \in SessionState, NEW n \in Network, Books(s, n),
           s.state \in Keying
    PROVE  Sound(s, CipherForService(s, n), n)
<1> DEFINE keyed == [s EXCEPT !.cipher.authentication_for_service = TRUE]
<1>1. keyed \in SessionState /\ KeyOnly(s, keyed)
  BY DEF SessionState, CipherState, KeyOnly
<1> HIDE DEF keyed
<1>2. Books(keyed, n)
  BY <1>1, KeyBooks DEF Keying
<1>3. Sound(keyed, RequestAuthentication(keyed), n)
  BY <1>1, <1>2, AuthenticationSound DEF KeyOnly
<1>4. Sound(s, RequestAuthentication(keyed), n)
  BY <1>1, <1>3, ThroughSound DEF KeyOnly
<1>5. n.ciphered /\ s.cipher.key_valid => Sound(s, CommandCipherMode(s, n), n)
  BY CommandSound
<1>6. ~n.ciphered => Sound(s, CommandCipherMode(s, n), n)
  BY CommandSound
<1> QED
  BY <1>4, <1>5, <1>6 DEF CipherForService, keyed

LEMMA AnswerSound ==
    ASSUME NEW s \in SessionState, NEW n, Books(s, n), NEW state,
           Passage(n, s.state, state)
    PROVE  /\ \A kind : Sound(s, Answer(s, state, kind), n)
           /\ \A kind, ti : Sound(s, AnswerCall(s, state, kind, ti), n)
           /\ Sound(s, Settle(s, state), n)
           /\ Sound(s, InState(s, state), n)
  BY MoveKept, AnswerKept, CallMoveKept, PassageSound

LEMMA ContentionSound ==
    ASSUME NEW s \in SessionState, NEW n \in Network, Books(s, n)
    PROVE  Sound(s, ContentionResolutionDelivered(s, n), n)
<1> DEFINE keyless == [s EXCEPT !.cipher.key_valid = FALSE,
                                !.cipher.authentication_for_service = FALSE]
<1>1. keyless \in SessionState /\ KeyOnly(s, keyless)
  BY DEF SessionState, CipherState, KeyOnly
<1> HIDE DEF keyless
<1>2. s.state \in Keying =>
        /\ Sound(s, CipherForService(s, n), n)
        /\ Sound(s, RequestAuthentication(keyless), n)
  <2> SUFFICES ASSUME s.state \in Keying
               PROVE  Sound(s, RequestAuthentication(keyless), n)
    BY ServiceCipherSound
  <2>1. Books(keyless, n)
    BY <1>1, KeyBooks DEF Keying
  <2>2. Sound(keyless, RequestAuthentication(keyless), n)
    BY <1>1, <2>1, AuthenticationSound DEF KeyOnly
  <2> QED
    BY <1>1, <2>2, ThroughSound DEF KeyOnly
<1>3. s.state = "awaiting_contention_resolution" =>
        /\ Sound(s, LocationUpdateReply(s, n), n)
        /\ Sound(s, Answer(s, "awaiting_cm_service_reject_acknowledgement",
                           "cm_service_reject"), n)
        /\ ~n.ciphered =>
             Sound(s, Answer(s, "awaiting_cm_service_accept_acknowledgement",
                             "cm_service_accept"), n)
  BY LocationReplySound, AnswerSound DEF Passage
<1>4. s.state \in Keying => Sound(s, BeginChannelRelease(s), n)
  BY ReleaseSound DEF Keying
<1>5. Sound(s, s, n)
  BY StaySound DEF Kept, LegsKept
<1> QED
  BY <1>2, <1>3, <1>4, <1>5 DEF ContentionResolutionDelivered, keyless, Keying

------------------------------------------------------------------------------
(* The host's decision, applied *)

\* The states of a call in which its progress leaves the legs alone.
Progressing == InCall \ {HandoverState, LegReleasing}

LEMMA ProgressSound ==
    ASSUME NEW s \in SessionState, NEW t, NEW n, Books(s, n), Kept(s, t),
           s.state \in Progressing,
           t.state \in Progressing \cup {Releasing, LegReleasing}
    PROVE  Sound(s, t, n)
<1>1. Passage(n, s.state, t.state)
  BY DEF Passage, Progressing
<1> QED
  BY <1>1, PassageSound

LEMMA ApplyKept ==
    ASSUME NEW s \in SessionState
    PROVE  /\ Kept(s, ApplyOutgoingTermination(s))
           /\ ApplyOutgoingTermination(s).state \in
                {s.state, "awaiting_network_disconnect_acknowledgement"}
           /\ Kept(s, ApplyOutgoingDecision(s))
           /\ ApplyOutgoingDecision(s).state \in
                {s.state, "awaiting_network_disconnect_acknowledgement",
                 "awaiting_call_alerting_acknowledgement",
                 "awaiting_traffic_assignment"}
<1>1. /\ Kept(s, ApplyOutgoingTermination(s))
      /\ ApplyOutgoingTermination(s).state \in
           {s.state, "awaiting_network_disconnect_acknowledgement"}
  BY DEF ApplyOutgoingTermination, AnswerCall, QueueDownlink, InState,
         SessionState, CallState, Kept, LegsKept
<1> DEFINE issued == [s EXCEPT !.call.traffic_assignment_issued = TRUE]
<1>2. issued \in SessionState /\ Kept(s, issued)
  BY DEF SessionState, CallState, Kept, LegsKept
<1> HIDE DEF issued
<1> DEFINE assigned == Answer(issued, "awaiting_traffic_assignment",
                              "traffic_assignment")
<1>3. Kept(s, assigned) /\ assigned.state = "awaiting_traffic_assignment"
  BY <1>2, AnswerKept, KeptTransitive
<1>4. Kept(s, s)
  BY DEF Kept, LegsKept
<1>5. \A state, kind, ti : /\ Kept(s, AnswerCall(s, state, kind, ti))
                           /\ AnswerCall(s, state, kind, ti).state = state
  BY CallMoveKept
<1>6. /\ Kept(s, ApplyOutgoingDecision(s))
      /\ ApplyOutgoingDecision(s).state \in
           {s.state, "awaiting_network_disconnect_acknowledgement",
            "awaiting_call_alerting_acknowledgement",
            "awaiting_traffic_assignment"}
  <2>1. \/ ApplyOutgoingDecision(s) \in {s, assigned}
        \/ \E state \in {"awaiting_network_disconnect_acknowledgement",
                         "awaiting_call_alerting_acknowledgement"} :
             \E kind, ti : ApplyOutgoingDecision(s) = AnswerCall(s, state, kind, ti)
    BY DEF ApplyOutgoingDecision, issued
  <2> HIDE DEF assigned
  <2> QED
    BY <2>1, <1>3, <1>4, <1>5
<1> QED
  BY <1>1, <1>6

------------------------------------------------------------------------------
(* downlink_acknowledged *)

LEMMA CallProgressSound ==
    ASSUME NEW s \in SessionState, NEW n, Books(s, n)
    PROVE  /\ s.state \in {"awaiting_call_proceeding_acknowledgement",
                           "awaiting_outgoing_decision"}
                => /\ Sound(s, ProceedingAcknowledged(s), n)
                   /\ Sound(s, ApplyOutgoingDecision(s), n)
           /\ s.state = "awaiting_call_alerting_acknowledgement"
                => Sound(s, AlertingAcknowledged(s), n)
<1> DEFINE alerting == Settle(s, "outgoing_call_alerting")
           decided == Settle(s, "awaiting_outgoing_decision")
<1>1. /\ Kept(s, alerting) /\ alerting.state = "outgoing_call_alerting"
      /\ Kept(s, decided) /\ decided.state = "awaiting_outgoing_decision"
      /\ Kept(s, Connecting(s))
      /\ Connecting(s).state = "awaiting_outgoing_connect_acknowledgement"
  BY MoveKept, CallMoveKept DEF Connecting
<1>2. alerting \in SessionState
  BY NoMessageType DEF Settle, ClearPendingDownlink, InState, SessionState,
     State, PendingKinds
<1> HIDE DEF alerting, decided
<1>3. /\ Kept(s, ApplyOutgoingTermination(alerting))
      /\ ApplyOutgoingTermination(alerting).state \in Progressing
      /\ Kept(s, ApplyOutgoingDecision(s))
      /\ s.state \in Progressing
           => ApplyOutgoingDecision(s).state \in Progressing
  BY <1>1, <1>2, ApplyKept, KeptTransitive DEF Progressing
<1>4. s.state \in Progressing =>
        /\ Sound(s, ApplyOutgoingTermination(alerting), n)
        /\ Sound(s, ApplyOutgoingDecision(s), n)
        /\ Sound(s, Connecting(s), n) /\ Sound(s, decided, n)
  BY <1>1, <1>3, ProgressSound DEF Progressing
<1> QED
  BY <1>4 DEF ProceedingAcknowledged, AlertingAcknowledged, Progressing,
     alerting, decided

LEMMA LegKept ==
    ASSUME NEW s \in SessionState, NEW leg,
           NEW state \in LegState \ {"inactive"}
    PROVE  /\ Kept(s, SetCallLegState(s, leg, state))
           /\ SetCallLegState(s, leg, state).state = s.state
  BY DEF SetCallLegState, SessionState, CallState, Kept, LegsKept, Live

LEMMA AlertedKept ==
    ASSUME NEW s \in SessionState, NEW leg \in Leg, NEW ti \in Transaction
    PROVE  Kept(s, AlertLeg(s, leg, ti)) /\ AlertLeg(s, leg, ti).state = s.state
<1> DEFINE named == [s EXCEPT !.call.leg_transactions[leg] = ti]
<1>1. named \in SessionState /\ Kept(s, named) /\ named.state = s.state
  BY DEF SessionState, CallState, Kept, LegsKept
<1> HIDE DEF named
<1>2. "alerting" \in LegState \ {"inactive"}
  BY DEF LegState
<1>3. /\ Kept(named, SetCallLegState(named, leg, "alerting"))
      /\ SetCallLegState(named, leg, "alerting").state = s.state
  BY <1>1, <1>2, LegKept
<1> QED
  BY <1>1, <1>3, KeptTransitive DEF AlertLeg, named

LEMMA InformationSound ==
    ASSUME NEW s \in SessionState, NEW n, Books(s, n),
           s.state = "awaiting_mm_information_acknowledgement"
    PROVE  Sound(s, InformationAcknowledged(s), n)
<1> DEFINE zeroed == [s EXCEPT !.call.transaction = 0]
           alerted == AlertLeg(zeroed, 0, 0)
           setup == AnswerCall(alerted,
                               "awaiting_incoming_call_setup_acknowledgement",
                               "incoming_call_setup", 0)
<1>1. /\ zeroed \in SessionState /\ Kept(s, zeroed)
      /\ zeroed.state = s.state
  BY DEF SessionState, CallState, Kept, LegsKept
<1> HIDE DEF zeroed
<1>2. Kept(zeroed, alerted) /\ alerted \in SessionState
  BY <1>1, AlertedKept, AlertLegType DEF Leg
<1> HIDE DEF alerted
<1>3. /\ Kept(alerted, setup)
      /\ setup.state = "awaiting_incoming_call_setup_acknowledgement"
  BY <1>2, CallMoveKept
<1> HIDE DEF setup
<1>4. Kept(s, setup)
  BY <1>1, <1>2, <1>3, KeptTransitive
<1>5. Sound(s, setup, n)
  BY <1>3, <1>4, PassageSound DEF Passage
<1>6. /\ Sound(s, Answer(s, "awaiting_sms_sapi3_establishment",
                         "sapi3_establishment"), n)
      /\ Sound(s, Answer(s, "awaiting_network_ussd_register_acknowledgement",
                         "supplementary_register"), n)
      /\ Sound(s, Settle(s, "awaiting_outgoing_call_setup"), n)
      /\ Sound(s, Answer(s, "awaiting_cm_service_accept_acknowledgement",
                         "cm_service_accept"), n)
  BY AnswerSound DEF Passage
<1>7. Sound(s, s, n)
  BY StaySound DEF Kept, LegsKept
<1> QED
  BY <1>5, <1>6, <1>7 DEF InformationAcknowledged, setup, alerted, zeroed

LEMMA Sapi3Sound ==
    ASSUME NEW s \in SessionState, NEW n, Books(s, n),
           s.state = "awaiting_sms_sapi3_establishment"
    PROVE  Sound(s, Sapi3Acknowledged(s), n)
<1> DEFINE t == Sapi3Acknowledged(s)
<1>1. Kept(s, t) /\ t.state = "awaiting_sms_cp_data_acknowledgement"
  BY DEF Sapi3Acknowledged, Answer, QueueDownlink, InState, SessionState,
         SmsState, Kept, LegsKept
<1> QED
  BY <1>1, PassageSound DEF Passage

LEMMA AnswerSubmitSound ==
    ASSUME NEW s \in SessionState, NEW outcome
    PROVE  /\ Kept(s, AnswerSubmit(s, outcome))
           /\ AnswerSubmit(s, outcome).state \in
                {"awaiting_mobile_sms_timeout",
                 "awaiting_mobile_sms_final_cp_ack"}
  BY DEF AnswerSubmit, Settle, ClearPendingDownlink, Answer, QueueDownlink,
         InState, SessionState, SmsState, Kept, LegsKept

\* Submission proceeds within its own states.
LEMMA SubmissionSound ==
    ASSUME NEW s, NEW t, NEW n, Books(s, n), Kept(s, t),
           s.state \in InSubmit, t.state \in InSubmit \cup {Releasing}
    PROVE  Sound(s, t, n)
<1>1. Passage(n, s.state, t.state)
  BY DEF Passage
<1> QED
  BY <1>1, PassageSound

LEMMA SubmitCpSound ==
    ASSUME NEW s \in SessionState, NEW n, Books(s, n), s.state \in InSubmit
    PROVE  Sound(s, SubmitCpAcknowledged(s, n), n)
<1>1. /\ Sound(s, Settle(s, "awaiting_mobile_sms_host_decision"), n)
      /\ \A outcome : Sound(s, AnswerSubmit(s, outcome), n)
  BY MoveKept, AnswerSubmitSound, SubmissionSound
<1> QED
  BY <1>1 DEF SubmitCpAcknowledged

LEMMA CallReleaseSound ==
    ASSUME NEW s \in SessionState, NEW n, Books(s, n), s.state = LegReleasing
    PROVE  Sound(s, CallReleaseAcknowledged(s), n)
<1> DEFINE leg == s.call.releasing_leg
           gone == SetCallLegState(s, leg, "inactive")
           conference == Cardinality(LiveLegs(gone)) >= 2
           active == gone.call.multiparty_active /\ conference
           held == gone.call.multiparty_held /\ conference
           survivor ==
               [gone EXCEPT !.call = [@ EXCEPT !.multiparty_active = active,
                                               !.multiparty_held = held,
                                               !.releasing_leg = NoLeg]]
           t == CallReleaseAcknowledged(s)
\* All but the legs is as it was, and the call goes on or ends.
<1>1. CASE leg = NoLeg
  <2>1. t = BeginChannelRelease(s)
    BY <1>1 DEF CallReleaseAcknowledged
  <2>2. Kept(s, t) /\ t.state = Releasing
    BY <2>1, AnswerKept DEF BeginChannelRelease
  <2> HIDE DEF t
  <2>3. /\ CipherBooks(t.state, t.cipher, n) /\ DecisionBooks(t.outgoing)
        /\ LegBooks(t.state, t.call)
    BY <1>1, <2>2, LegsKeptBooks DEF Books, Kept, CipherBooks
  <2>4. RequestBooks(t) /\ ServiceBooks(t) /\ HandoverBooks(t)
    BY <2>2 DEF Books, Kept, RequestBooks, ServiceBooks, HandoverBooks
  <2>5. /\ t.outgoing = s.outgoing
        /\ s.call.releasing_leg = NoLeg
    BY <1>1, <2>2 DEF Kept
  <2> QED
    BY <2>3, <2>4, <2>5 DEF Sound, Books, t
<1>2. CASE leg # NoLeg
  <2>1. leg \in Leg
    BY <1>2 DEF SessionState, CallState
  <2>2. /\ gone = [s EXCEPT !.call.leg_states[leg] = "inactive"]
        /\ gone \in SessionState
    BY <2>1 DEF SetCallLegState, SessionState, CallState, LegState
  <2>3. LiveLegs(gone) \subseteq {1 - leg}
    BY <2>1, <2>2 DEF LiveLegs, Leg, SessionState, CallState
  <2>4. ~conference
    <3>1. LiveLegs(gone) = {} \/ LiveLegs(gone) = {1 - leg}
      BY <2>3
    <3>2. Cardinality({}) = 0 /\ Cardinality({1 - leg}) = 1
      BY FS_EmptySet, FS_Singleton
    <3> HIDE DEF gone, leg
    <3> QED
      BY <3>1, <3>2
  <2> HIDE DEF conference
  <2>5. ~active /\ ~held
    BY <2>4
  <2>6. /\ gone.state = s.state
        /\ gone.cipher = s.cipher /\ gone.outgoing = s.outgoing
        /\ gone.ussd = s.ussd /\ gone.sms = s.sms
        /\ gone.incoming_service = s.incoming_service
        /\ gone.mobile_originated = s.mobile_originated
        /\ gone.handover_target_arfcn = s.handover_target_arfcn
    BY <2>2 DEF SessionState
  <2>7. Live(gone.call.leg_states) = LiveLegs(gone)
    BY DEF Live, LiveLegs
  <2>8. active \in BOOLEAN /\ held \in BOOLEAN
    BY <2>5
  <2> HIDE DEF gone, active, held, leg
  <2>9. /\ survivor \in SessionState
        /\ survivor.state = s.state
        /\ survivor.call.releasing_leg = NoLeg
        /\ ~survivor.call.multiparty_active /\ ~survivor.call.multiparty_held
        /\ survivor.call.leg_states = gone.call.leg_states
        /\ survivor.cipher = s.cipher /\ survivor.outgoing = s.outgoing
        /\ survivor.ussd = s.ussd /\ survivor.sms = s.sms
        /\ survivor.incoming_service = s.incoming_service
        /\ survivor.mobile_originated = s.mobile_originated
        /\ survivor.handover_target_arfcn = s.handover_target_arfcn
    BY <2>2, <2>5, <2>6, <2>8 DEF SessionState, CallState
  <2>10. t = IF LiveLegs(gone) = {} THEN BeginChannelRelease(survivor)
             ELSE Settle(survivor, "incoming_call_active")
    BY <1>2 DEF CallReleaseAcknowledged, gone, active, held, conference, leg
  <2> HIDE DEF t, survivor
  <2>11. /\ t.cipher = s.cipher /\ t.outgoing = s.outgoing
         /\ t.call = survivor.call /\ t.ussd = s.ussd /\ t.sms = s.sms
         /\ t.incoming_service = s.incoming_service
         /\ t.mobile_originated = s.mobile_originated
         /\ t.handover_target_arfcn = s.handover_target_arfcn
         /\ t.state = IF LiveLegs(gone) = {} THEN Releasing
                      ELSE "incoming_call_active"
    BY <2>9, <2>10 DEF BeginChannelRelease, Answer, QueueDownlink, Settle,
       ClearPendingDownlink, InState, SessionState
  <2>12. /\ CipherBooks(t.state, t.cipher, n) /\ DecisionBooks(t.outgoing)
         /\ LegBooks(t.state, t.call)
    BY <2>9, <2>11 DEF Books, CipherBooks, LegBooks
  <2>13. RequestBooks(t) /\ ServiceBooks(t) /\ HandoverBooks(t)
    BY <2>11 DEF Books, RequestBooks, ServiceBooks, HandoverBooks
  <2>14. t.state = Releasing => Live(t.call.leg_states) = {}
    BY <2>7, <2>9, <2>11
  <2> QED
    BY <2>11, <2>12, <2>13, <2>14 DEF Sound, Books, t
<1> QED
  BY <1>1, <1>2

------------------------------------------------------------------------------
(* The end of a transaction *)

\* What a transaction that has ended leaves in the books.
Retired(s, t) ==
    /\ t.state = "idle"
    /\ t.mobile_originated = "none" /\ t.incoming_service # "call"
    /\ ~t.cipher.active /\ ~t.cipher.command_pending
    /\ ~t.outgoing.request_pending /\ ~t.outgoing.decision_timer
    /\ ~t.outgoing.decision_accepted
    /\ ~t.sms.request_pending /\ ~t.ussd.request_pending
    /\ LegBooks(t.state, t.call)
    /\ t.handover_target_arfcn = s.handover_target_arfcn

LEMMA RetiredSound ==
    ASSUME NEW s, NEW t, NEW n, Books(s, n), Retired(s, t),
           s.state # HandoverState
    PROVE  Sound(s, t, n)
<1>1. Books(t, n)
  BY DEF Books, Retired, CipherBooks, DecisionBooks, RequestBooks,
         ServiceBooks, HandoverBooks
<1> QED
  BY <1>1, BooksSound DEF Retired

LEMMA ClearedOutgoing ==
    ASSUME NEW o \in OutgoingState
    PROVE  LET cleared == ClearOutgoing([o EXCEPT !.request_pending = FALSE])
           IN  /\ ~cleared.request_pending /\ ~cleared.decision_accepted
               /\ ~cleared.decision_timer
<1> DEFINE ended == [o EXCEPT !.request_pending = FALSE]
<1>1. ended \in OutgoingState /\ ~ended.request_pending
  BY DEF OutgoingState
<1> HIDE DEF ended
<1>2. /\ ~ClearOutgoing(ended).request_pending
      /\ ~ClearOutgoing(ended).decision_accepted
      /\ ~ClearOutgoing(ended).decision_timer
  BY <1>1 DEF ClearOutgoing, OutgoingState
<1> QED
  BY <1>2 DEF ended

LEMMA RetireSound ==
    ASSUME NEW s \in SessionState, NEW n, Books(s, n), s.state = Releasing
    PROVE  Retired(s, RetireTransaction(s))
<1> DEFINE received == s.call.release_complete_received
                         /\ s.incoming_service # "call"
           delivered == RetireDelivery(s)
           outgoing == ClearOutgoing(
                          [delivered.outgoing EXCEPT !.request_pending = FALSE])
           call == [delivered.call EXCEPT !.release_complete_received = received,
                                          !.transaction = 0]
           ussd == [delivered.ussd EXCEPT !.request_pending = FALSE]
           retired == [delivered EXCEPT
                         !.established = "none",
                         !.release_completes_registration = FALSE,
                         !.mobile_originated = "none",
                         !.call = call, !.outgoing = outgoing, !.ussd = ussd]
           t == ClearDedicatedCipher(InState(retired, "idle"))
<1>1. /\ delivered.call = s.call /\ delivered.cipher = s.cipher
      /\ delivered.handover_target_arfcn = s.handover_target_arfcn
      /\ delivered.incoming_service = RemainingService(s)
      /\ ~delivered.sms.request_pending
  BY DEF RetireDelivery, SessionState, SmsState
<1>2. RemainingService(s) # "call"
  BY DEF RemainingService, MoreDeliveries
<1>3. delivered \in SessionState
  BY RetireDeliveryType
<1> HIDE DEF delivered
<1>4. /\ outgoing \in OutgoingState
      /\ ~outgoing.request_pending /\ ~outgoing.decision_accepted
      /\ ~outgoing.decision_timer
  BY <1>3, ClearedOutgoing, ClearOutgoingType DEF SessionState
<1>5. LegBooks("idle", call)
  <2>1. LegsKept(s.call, call) /\ s.call.releasing_leg = NoLeg
    BY <1>1, <1>3 DEF Books, LegBooks, LegsKept, SessionState, CallState
  <2> QED
    BY <2>1, LegsKeptBooks DEF Books
<1>6. ussd \in UssdState /\ ~ussd.request_pending /\ call \in CallState
  BY <1>3 DEF SessionState, UssdState, CallState
<1> HIDE DEF outgoing, call, ussd
<1>7. /\ retired.call = call /\ retired.outgoing = outgoing
      /\ retired.ussd = ussd /\ retired.sms = delivered.sms
      /\ retired.mobile_originated = "none"
      /\ retired.incoming_service = delivered.incoming_service
      /\ retired.handover_target_arfcn = delivered.handover_target_arfcn
      /\ retired.cipher = delivered.cipher
      /\ retired \in SessionState
  BY <1>3, <1>4, <1>6 DEF SessionState, Originated
<1> HIDE DEF retired
<1>8. /\ t.state = "idle" /\ t.call = retired.call
      /\ t.outgoing = retired.outgoing
      /\ t.ussd = retired.ussd /\ t.sms = retired.sms
      /\ t.mobile_originated = retired.mobile_originated
      /\ t.incoming_service = retired.incoming_service
      /\ t.handover_target_arfcn = retired.handover_target_arfcn
      /\ ~t.cipher.active /\ ~t.cipher.command_pending
  BY <1>7 DEF ClearDedicatedCipher, InState, SessionState, CipherState
<1> HIDE DEF t
<1>9. RetireTransaction(s) = t
  BY DEF RetireTransaction, t, retired, outgoing, call, ussd, received,
         delivered, SessionState
<1> QED
  BY <1>1, <1>2, <1>4, <1>5, <1>6, <1>7, <1>8, <1>9 DEF Retired

LEMMA ReleaseAcknowledgedSound ==
    ASSUME NEW s \in SessionState, NEW n, Books(s, n), s.state = Releasing
    PROVE  Sound(s, ReleaseAcknowledged(s), n)
<1> DEFINE registered == s.registered \/ Registers(s)
           completed == s.incoming_service # "none"
           closed == ClearPendingDownlink(
               [s EXCEPT !.registered = registered,
                         !.incoming_service_completed = completed])
           t == InState(closed, "awaiting_release_complete")
<1>1. registered \in BOOLEAN /\ completed \in BOOLEAN
  BY DEF SessionState
<1> HIDE DEF registered, completed
<1>2. /\ closed \in SessionState /\ Kept(s, closed) /\ closed.state = s.state
  BY <1>1, NoMessageType DEF ClearPendingDownlink, SessionState, Kept, LegsKept
<1> HIDE DEF closed
<1>3. Books(closed, n)
  BY <1>2, StaySound DEF Sound
<1>4. Retired(closed, RetireTransaction(closed))
  BY <1>2, <1>3, RetireSound
<1>5. Sound(s, RetireTransaction(closed), n)
  <2>1. Retired(s, RetireTransaction(closed))
    BY <1>2, <1>4 DEF Retired, Kept
  <2> QED
    BY <2>1, RetiredSound
<1>6. ASSUME s.incoming_service = "call"
      PROVE  Sound(s, t, n)
  <2>1. Kept(closed, t) /\ t.state = "awaiting_release_complete"
    BY <1>2, MoveKept
  <2> HIDE DEF t
  <2>2. Kept(s, t)
    BY <1>2, <2>1, KeptTransitive
  <2>3. s.call.releasing_leg = NoLeg
    BY DEF Books, LegBooks
  <2>4. /\ CipherBooks(t.state, t.cipher, n) /\ DecisionBooks(t.outgoing)
        /\ LegBooks(t.state, t.call)
    BY <2>1, <2>2, <2>3, LegsKeptBooks DEF Books, Kept, CipherBooks
  <2>5. RequestBooks(t) /\ ServiceBooks(t) /\ HandoverBooks(t)
    BY <1>6, <2>1, <2>2
       DEF Books, Kept, RequestBooks, ServiceBooks, HandoverBooks
  <2> QED
    BY <2>1, <2>2, <2>4, <2>5, BooksSound DEF Books, Kept
<1> QED
  BY <1>5, <1>6 DEF ReleaseAcknowledged, t, closed, registered, completed

LEMMA DownlinkAcknowledgedSound ==
    ASSUME NEW s \in SessionState, NEW n, Books(s, n)
    PROVE  Sound(s, DownlinkAcknowledged(s, n), n)
<1> DEFINE unregistered == [s EXCEPT !.release_completes_registration = FALSE]
           waiting == [s EXCEPT !.call.release_waiting = TRUE]
           At(state) == s.state = state
<1>1. /\ unregistered \in SessionState /\ Kept(s, unregistered)
      /\ waiting \in SessionState /\ Kept(s, waiting)
      /\ unregistered.state = s.state /\ waiting.state = s.state
  BY DEF SessionState, CallState, Kept, LegsKept
<1> HIDE DEF unregistered, waiting
<1>2. /\ Books(unregistered, n) /\ Books(waiting, n)
      /\ unregistered.outgoing = s.outgoing /\ waiting.outgoing = s.outgoing
      /\ unregistered.call.releasing_leg = s.call.releasing_leg
      /\ waiting.call.releasing_leg = s.call.releasing_leg
  BY <1>1, StaySound DEF Sound, Kept, LegsKept
<1>3. s.state \in {"awaiting_cm_service_reject_acknowledgement",
                   "awaiting_supplementary_release_acknowledgement",
                   "awaiting_network_ussd_release_acknowledgement",
                   "awaiting_location_update_reject_acknowledgement",
                   "awaiting_location_update_accept_acknowledgement",
                   "awaiting_sms_cp_ack_acknowledgement"}
        => Sound(s, BeginChannelRelease(s), n)
  BY ReleaseSound
<1>4. At("awaiting_authentication_reject_acknowledgement")
        => Sound(s, BeginChannelRelease(unregistered), n)
  BY <1>1, <1>2, ReleaseSound, ThroughSound
<1>5. /\ At("awaiting_cm_service_accept_acknowledgement") =>
           /\ Sound(s, Settle(s, "awaiting_supplementary_request"), n)
           /\ Sound(s, Settle(s, "awaiting_outgoing_call_setup"), n)
      /\ At("awaiting_second_cm_service_accept_acknowledgement") =>
           Sound(s, Settle(s, "awaiting_second_outgoing_call_setup"), n)
      /\ At("awaiting_supplementary_facility_acknowledgement") =>
           Sound(s, Settle(s, "awaiting_supplementary_response"), n)
      /\ At("awaiting_network_ussd_register_acknowledgement") =>
           Sound(s, Settle(s, "awaiting_network_ussd_response"), n)
      /\ At("awaiting_authentication_request_acknowledgement") =>
           Sound(s, Settle(s, "awaiting_authentication_response"), n)
      /\ At("awaiting_incoming_call_setup_acknowledgement")
           \/ At("awaiting_connect_acknowledgement") =>
           Sound(s, Settle(s, "incoming_call_active"), n)
      /\ At("awaiting_sms_cp_data_acknowledgement") =>
           Sound(s, Settle(s, "awaiting_sms_handset_response"), n)
  BY AnswerSound DEF Passage
<1>6. At("awaiting_network_disconnect_acknowledgement")
        => Sound(s, Settle(waiting, "awaiting_handset_release"), n)
  <2> SUFFICES ASSUME At("awaiting_network_disconnect_acknowledgement")
               PROVE  Sound(s, Settle(waiting, "awaiting_handset_release"), n)
    OBVIOUS
  <2>1. Passage(n, waiting.state, "awaiting_handset_release")
    BY <1>1 DEF Passage
  <2>2. Sound(waiting, Settle(waiting, "awaiting_handset_release"), n)
    BY <1>1, <1>2, <2>1, AnswerSound
  <2> QED
    BY <1>2, <2>2, ThroughSound
\* A short message of the handset's: the state follows who asked.
<1>7. At("awaiting_cm_service_accept_acknowledgement")
        /\ s.mobile_originated = "sms"
        => Sound(s, Settle(s, "awaiting_mobile_sms_sapi3_establishment"), n)
  <2> SUFFICES ASSUME At("awaiting_cm_service_accept_acknowledgement"),
                      s.mobile_originated = "sms"
               PROVE  Sound(s, Settle(s, "awaiting_mobile_sms_sapi3_establishment"), n)
    OBVIOUS
  <2> DEFINE t == Settle(s, "awaiting_mobile_sms_sapi3_establishment")
  <2>1. Kept(s, t) /\ t.state = "awaiting_mobile_sms_sapi3_establishment"
    BY MoveKept
  <2> HIDE DEF t
  <2>2. s.call.releasing_leg = NoLeg
    BY DEF Books, LegBooks
  <2>3. /\ CipherBooks(t.state, t.cipher, n) /\ DecisionBooks(t.outgoing)
        /\ LegBooks(t.state, t.call)
    BY <2>1, <2>2, LegsKeptBooks DEF Books, Kept, CipherBooks
  <2>4. RequestBooks(t) /\ ServiceBooks(t) /\ HandoverBooks(t)
    BY <2>1 DEF Books, Kept, RequestBooks, ServiceBooks, HandoverBooks
  <2> QED
    BY <2>1, <2>3, <2>4, BooksSound DEF Books, Kept, t
<1>8. /\ At("awaiting_call_proceeding_acknowledgement")
           => Sound(s, ProceedingAcknowledged(s), n)
      /\ At("awaiting_call_alerting_acknowledgement")
           => Sound(s, AlertingAcknowledged(s), n)
      /\ At("awaiting_mm_information_acknowledgement")
           => Sound(s, InformationAcknowledged(s), n)
      /\ At("awaiting_sms_sapi3_establishment")
           => Sound(s, Sapi3Acknowledged(s), n)
      /\ At("awaiting_mobile_sms_cp_ack_acknowledgement")
           => Sound(s, SubmitCpAcknowledged(s, n), n)
      /\ At("awaiting_call_release_acknowledgement")
           => Sound(s, CallReleaseAcknowledged(s), n)
      /\ At("awaiting_channel_release_acknowledgement")
           => Sound(s, ReleaseAcknowledged(s), n)
  BY CallProgressSound, InformationSound, Sapi3Sound, SubmitCpSound,
     CallReleaseSound, ReleaseAcknowledgedSound
<1>9. Sound(s, ClearPendingDownlink(s), n) /\ Sound(s, s, n)
  <2>1. /\ Kept(s, ClearPendingDownlink(s)) /\ Kept(s, s)
        /\ ClearPendingDownlink(s).state = s.state
    BY DEF ClearPendingDownlink, SessionState, Kept, LegsKept
  <2> QED
    BY <2>1, StaySound
<1> QED
  BY <1>3, <1>4, <1>5, <1>6, <1>7, <1>8, <1>9, SMTT(60)
     DEF DownlinkAcknowledged, unregistered, waiting

------------------------------------------------------------------------------
(* receive_layer3: supplementary services, keys and ciphering *)

LEMMA UssdRequestSound ==
    ASSUME NEW s \in SessionState, NEW n, Books(s, n),
           s.state = "awaiting_supplementary_request"
    PROVE  Sound(s, ReceiveUssdRequest(s, n), n)
<1> DEFINE id == NextRequestId(s.ussd.policy_request_id)
           t == InState([s EXCEPT !.ussd.request_pending = TRUE,
                                  !.ussd.policy_request_id = id,
                                  !.ussd.request_id = id],
                        "awaiting_mobile_ussd_host_response")
<1>1. /\ t.cipher = s.cipher /\ t.outgoing = s.outgoing /\ t.call = s.call
      /\ t.sms = s.sms /\ t.incoming_service = s.incoming_service
      /\ t.mobile_originated = s.mobile_originated
      /\ t.handover_target_arfcn = s.handover_target_arfcn
      /\ t.state = "awaiting_mobile_ussd_host_response"
  BY DEF InState, SessionState
<1> HIDE DEF t
<1>2. /\ CipherBooks(t.state, t.cipher, n) /\ DecisionBooks(t.outgoing)
      /\ LegBooks(t.state, t.call)
  BY <1>1 DEF Books, CipherBooks, LegBooks
<1>3. RequestBooks(t) /\ ServiceBooks(t) /\ HandoverBooks(t)
  BY <1>1 DEF Books, RequestBooks, ServiceBooks, HandoverBooks
<1>4. Sound(s, t, n)
  BY <1>1, <1>2, <1>3, BooksSound DEF Books
<1>5. /\ Sound(s, Answer(s, "awaiting_supplementary_facility_acknowledgement",
                         "supplementary_facility"), n)
      /\ Sound(s, Answer(s, "awaiting_supplementary_release_acknowledgement",
                         "supplementary_release_complete"), n)
  BY AnswerSound DEF Passage
<1>6. Sound(s, s, n)
  BY StaySound DEF Kept, LegsKept
<1> QED
  BY <1>4, <1>5, <1>6 DEF ReceiveUssdRequest, t, id

LEMMA SupplementarySound ==
    ASSUME NEW s \in SessionState, NEW n, NEW m, Books(s, n)
    PROVE  /\ s.state = "awaiting_supplementary_request"
                => Sound(s, ReceiveSupplementary(s, n, m), n)
           /\ s.state = "awaiting_supplementary_response"
                => Sound(s, ReceiveContinuation(s, m), n)
           /\ s.state = "awaiting_network_ussd_response"
                => Sound(s, ReceiveNetworkUssdAnswer(s, m), n)
<1>1. s.state \in {"awaiting_supplementary_request",
                   "awaiting_supplementary_response"} =>
        Sound(s, Answer(s, "awaiting_supplementary_release_acknowledgement",
                        "supplementary_release_complete"), n)
  BY AnswerSound DEF Passage
<1>2. s.state = "awaiting_network_ussd_response" =>
        Sound(s, Answer(s, "awaiting_network_ussd_release_acknowledgement",
                        "supplementary_release_complete"), n)
  BY AnswerSound DEF Passage
<1>3. s.state \in {"awaiting_supplementary_response",
                   "awaiting_network_ussd_response"}
        => Sound(s, BeginChannelRelease(s), n)
  BY ReleaseSound
<1>4. Sound(s, s, n)
  BY StaySound DEF Kept, LegsKept
<1> QED
  BY <1>1, <1>2, <1>3, <1>4, UssdRequestSound
     DEF ReceiveSupplementary, ReceiveContinuation, ReceiveNetworkUssdAnswer

LEMMA AuthenticationResponseSound ==
    ASSUME NEW s \in SessionState, NEW n \in Network, NEW m, Books(s, n),
           s.state = "awaiting_authentication_response"
    PROVE  Sound(s, ReceiveAuthenticationResponse(s, n, m), n)
<1> DEFINE keyed == [s EXCEPT !.cipher.key_valid = TRUE,
                              !.cipher.authentication_for_service = FALSE]
           refused == [s EXCEPT !.cipher.key_valid = FALSE,
                                !.cipher.authentication_for_service = FALSE]
<1>1. /\ keyed \in SessionState /\ KeyOnly(s, keyed) /\ keyed.cipher.key_valid
      /\ refused \in SessionState /\ KeyOnly(s, refused)
  BY DEF SessionState, CipherState, KeyOnly
<1> HIDE DEF keyed, refused
<1>2. Books(keyed, n) /\ Books(refused, n)
  BY <1>1, KeyBooks
<1>3. /\ Sound(keyed, CommandCipherMode(keyed, n), n)
      /\ Sound(keyed, LocationUpdateReply(keyed, n), n)
  BY <1>1, <1>2, CommandSound, LocationReplySound DEF KeyOnly, Keying
<1>4. Passage(n, refused.state, "awaiting_authentication_reject_acknowledgement")
  BY <1>1 DEF Passage, KeyOnly
<1>5. Sound(refused, Answer(refused,
                            "awaiting_authentication_reject_acknowledgement",
                            "authentication_reject"), n)
  BY <1>1, <1>2, <1>4, AnswerSound
<1>6. /\ keyed.outgoing = s.outgoing /\ refused.outgoing = s.outgoing
      /\ keyed.call = s.call /\ refused.call = s.call
  BY <1>1 DEF KeyOnly
<1>7. /\ Sound(s, CommandCipherMode(keyed, n), n)
      /\ Sound(s, LocationUpdateReply(keyed, n), n)
      /\ Sound(s, Answer(refused,
                         "awaiting_authentication_reject_acknowledgement",
                         "authentication_reject"), n)
  BY <1>3, <1>5, <1>6, ThroughSound
<1> QED
  BY <1>7 DEF ReceiveAuthenticationResponse, keyed, refused

\* A Cipher Mode Complete counts only for a command that is outstanding, and
\* a clear one only on a network without ciphering.
LEMMA CipherModeCompleteSound ==
    ASSUME NEW s \in SessionState, NEW n \in Network, Books(s, n)
    PROVE  Sound(s, ReceiveCipherModeComplete(s), n)
<1> DEFINE activate == /\ s.cipher.algorithm = "a5_1"
                       /\ s.cipher.key_valid
                       /\ s.cipher.command_pending
           clear == /\ s.state = "awaiting_cipher_mode_command_acknowledgement"
                    /\ s.cipher.algorithm = "a5_0"
           active == s.cipher.active \/ activate
           commanded == s.cipher.command_pending /\ ~activate
           ciphered == [s EXCEPT !.cipher.active = active,
                                 !.cipher.command_pending = commanded]
           t == Answer(ciphered, "awaiting_mm_information_acknowledgement",
                       "mm_information")
<1>1. Sound(s, s, n)
  BY StaySound DEF Kept, LegsKept
<1>2. ASSUME activate \/ clear
      PROVE  Sound(s, t, n)
  <2>1. /\ s.state = Commanded /\ ~s.cipher.active
        /\ n.ciphered => activate
        /\ ~n.ciphered => ~s.cipher.command_pending
    BY <1>2 DEF Books, CipherBooks, Network
  <2>2. /\ active = n.ciphered /\ commanded = FALSE
    BY <1>2, <2>1 DEF Network, SessionState, CipherState
  <2>3. activate => s.cipher.algorithm = "a5_1" /\ s.cipher.key_valid
    OBVIOUS
  <2> HIDE DEF active, commanded, activate, clear
  <2>4. /\ t.state = "awaiting_mm_information_acknowledgement"
        /\ t.cipher.active = active
        /\ t.cipher.command_pending = commanded
        /\ t.cipher.algorithm = s.cipher.algorithm
        /\ t.cipher.key_valid = s.cipher.key_valid
        /\ t.outgoing = s.outgoing /\ t.call = s.call
        /\ t.ussd = s.ussd /\ t.sms = s.sms
        /\ t.incoming_service = s.incoming_service
        /\ t.mobile_originated = s.mobile_originated
        /\ t.handover_target_arfcn = s.handover_target_arfcn
    BY DEF Answer, QueueDownlink, InState, SessionState, CipherState
  <2> HIDE DEF t
  <2>5. /\ CipherBooks(t.state, t.cipher, n) /\ DecisionBooks(t.outgoing)
        /\ LegBooks(t.state, t.call)
    BY <2>1, <2>2, <2>3, <2>4 DEF Books, CipherBooks, LegBooks
  <2>6. RequestBooks(t) /\ ServiceBooks(t) /\ HandoverBooks(t)
    BY <2>1, <2>4 DEF Books, RequestBooks, ServiceBooks, HandoverBooks
  <2> QED
    BY <2>4, <2>5, <2>6, BooksSound DEF Books
<1> QED
  BY <1>1, <1>2 DEF ReceiveCipherModeComplete, t, ciphered, active, commanded,
                    activate, clear

------------------------------------------------------------------------------
(* receive_layer3: call control *)

\* All of the session but the outgoing request.
ButOutgoing(s, t) ==
    /\ t.state = s.state /\ t.cipher = s.cipher /\ t.call = s.call
    /\ t.ussd = s.ussd /\ t.sms = s.sms
    /\ t.incoming_service = s.incoming_service
    /\ t.mobile_originated = s.mobile_originated
    /\ t.handover_target_arfcn = s.handover_target_arfcn

\* A decision that is taken is the first about its request.
LEMMA DecisionTaken ==
    ASSUME NEW s \in SessionState, NEW id \in RequestId,
           NEW outcome \in CallOutcome,
           DecisionBooks(s.outgoing)
    PROVE  \E o \in OutgoingState, accepted \in SessionState :
             /\ DecisionBooks(o)
             /\ o.request_id = s.outgoing.request_id
             /\ o.request_pending = s.outgoing.request_pending
             /\ o.decision_timer = s.outgoing.decision_timer
             /\ s.outgoing.decision_accepted => o = s.outgoing
             /\ accepted.outgoing = o /\ ButOutgoing(s, accepted)
             /\ SubmitOutgoingDecision(s, id, outcome) =
                  IF s.state = "awaiting_outgoing_decision" /\ o # s.outgoing
                  THEN ApplyOutgoingDecision(accepted) ELSE accepted
<1> DEFINE taken == [s EXCEPT !.outgoing.decision_accepted = TRUE,
                              !.outgoing.decision = outcome,
                              !.outgoing.decision_request_id = id]
           stands == /\ s.outgoing.request_pending
                     /\ id # 0
                     /\ id = s.outgoing.request_id
                     /\ ~s.outgoing.decision_accepted
                     /\ outcome # "service_reject"
<1>1. /\ taken \in SessionState /\ ButOutgoing(s, taken)
      /\ taken.outgoing \in OutgoingState
      /\ taken.outgoing.request_id = s.outgoing.request_id
      /\ taken.outgoing.request_pending = s.outgoing.request_pending
      /\ taken.outgoing.decision_timer = s.outgoing.decision_timer
      /\ taken.outgoing.decision_accepted
      /\ taken.outgoing.decision_request_id = id
  BY DEF SessionState, OutgoingState, ButOutgoing
<1>2. s.outgoing \in OutgoingState /\ ButOutgoing(s, s)
  BY DEF SessionState, ButOutgoing
<1>3. SubmitOutgoingDecision(s, id, outcome) =
        IF stands
        THEN IF s.state = "awaiting_outgoing_decision"
             THEN ApplyOutgoingDecision(taken) ELSE taken
        ELSE s
  BY DEF SubmitOutgoingDecision
<1> HIDE DEF taken
<1>4. CASE stands
  <2>1. DecisionBooks(taken.outgoing) /\ taken.outgoing # s.outgoing
    BY <1>1, <1>4 DEF DecisionBooks
  <2> QED
    BY <1>1, <1>3, <1>4, <2>1
<1>5. CASE ~stands
  BY <1>2, <1>3, <1>5
<1> QED
  BY <1>4, <1>5

LEMMA RequestOutgoingBooks ==
    ASSUME NEW s \in SessionState, NEW n \in Network,
           s.state # "awaiting_outgoing_decision"
    PROVE  /\ ButOutgoing(s, RequestOutgoing(s, n))
           /\ DecisionBooks(RequestOutgoing(s, n).outgoing)
           /\ RequestOutgoing(s, n).outgoing.request_id # s.outgoing.request_id
<1> DEFINE id == NextRequestId(s.outgoing.request_id)
           fallback == ~n.host_call_adapter
           timed == s.outgoing.decision_timer \/ (fallback /\ n.decision_delayed)
           policy == IF fallback THEN id ELSE s.outgoing.policy_request_id
           asked == [s EXCEPT !.outgoing =
                       [@ EXCEPT !.request_id = id,
                                 !.request_pending = TRUE,
                                 !.decision_accepted = FALSE,
                                 !.decision_request_id = 0,
                                 !.policy_request_id = policy,
                                 !.decision_timer = timed]]
           submitted == SubmitOutgoingDecision(asked, id, n.call_outcome)
<1>1. s.outgoing \in OutgoingState /\ s.outgoing.request_id \in RequestId
        /\ s.outgoing.policy_request_id \in RequestId
  BY DEF SessionState, OutgoingState
<1>2. id \in RequestId /\ id # s.outgoing.request_id
  BY <1>1 DEF RequestId, NextRequestId
<1>3. policy \in RequestId /\ timed \in BOOLEAN /\ 0 \in RequestId
  BY <1>1, <1>2 DEF RequestId
<1> HIDE DEF id, policy, timed
<1>4. /\ asked \in SessionState /\ ButOutgoing(s, asked)
      /\ asked.outgoing.request_id = id
      /\ ~asked.outgoing.decision_accepted
  BY <1>2, <1>3 DEF SessionState, OutgoingState, ButOutgoing
<1>5. n.call_outcome \in CallOutcome
  BY DEF Network
<1> HIDE DEF asked
<1>6. DecisionBooks(asked.outgoing)
  BY <1>4 DEF DecisionBooks
<1>7. /\ ButOutgoing(s, submitted) /\ DecisionBooks(submitted.outgoing)
      /\ submitted.outgoing.request_id = id
  <2>1. asked.state # "awaiting_outgoing_decision"
    BY <1>4 DEF ButOutgoing
  <2>2. PICK o \in OutgoingState, accepted \in SessionState :
          /\ DecisionBooks(o) /\ o.request_id = asked.outgoing.request_id
          /\ accepted.outgoing = o /\ ButOutgoing(asked, accepted)
          /\ submitted = accepted
    BY <1>2, <1>4, <1>5, <1>6, <2>1, DecisionTaken
  <2> QED
    BY <1>4, <2>2 DEF ButOutgoing
<1>8. RequestOutgoing(s, n) \in {asked, submitted}
  BY DEF RequestOutgoing, asked, policy, timed, id
<1> QED
  BY <1>2, <1>4, <1>6, <1>7, <1>8

LEMMA SetupSound ==
    ASSUME NEW s \in SessionState, NEW n \in Network, NEW ti \in Transaction,
           Books(s, n), Good(s),
           s.state \in {"awaiting_outgoing_call_setup",
                        "awaiting_second_outgoing_call_setup"}
    PROVE  Sound(s, ReceiveSetup(s, n, ti), n)
<1> DEFINE leg == IF s.state = "awaiting_second_outgoing_call_setup" THEN 1 ELSE 0
           addressed == [s EXCEPT !.call.transaction = ti]
           named == AlertLeg(addressed, leg, ti)
           asked == RequestOutgoing(named, n)
           t == AnswerCall(asked, "awaiting_call_proceeding_acknowledgement",
                           "call_proceeding", ti)
<1>1. /\ addressed \in SessionState /\ Kept(s, addressed)
      /\ addressed.state = s.state /\ addressed.pending = s.pending
      /\ addressed.handover_target_arfcn = s.handover_target_arfcn
      /\ leg \in Leg
  BY DEF SessionState, CallState, Kept, LegsKept, Leg
<1> HIDE DEF addressed, leg
<1>2. /\ named \in SessionState /\ Kept(s, named) /\ named.state = s.state
      /\ Good(named)
  BY <1>1, AlertLegType, AlertedKept, KeptTransitive, SameGood
<1> HIDE DEF named
<1>3. /\ ButOutgoing(named, asked) /\ DecisionBooks(asked.outgoing)
      /\ asked.outgoing.request_id # named.outgoing.request_id
      /\ asked \in SessionState
  BY <1>2, RequestOutgoingBooks, RequestOutgoingGood DEF Good
<1> HIDE DEF asked
<1>4. Kept(asked, t) /\ t.state = "awaiting_call_proceeding_acknowledgement"
  BY <1>3, CallMoveKept
<1> HIDE DEF t
<1>5. /\ t.cipher = s.cipher /\ LegsKept(s.call, t.call)
      /\ t.ussd.request_pending = s.ussd.request_pending
      /\ t.sms.request_pending = s.sms.request_pending
      /\ t.incoming_service = s.incoming_service
      /\ t.mobile_originated = s.mobile_originated
      /\ t.handover_target_arfcn = s.handover_target_arfcn
      /\ DecisionBooks(t.outgoing)
      /\ t.outgoing.request_id # s.outgoing.request_id
  BY <1>2, <1>3, <1>4 DEF Kept, LegsKept, ButOutgoing
<1>6. s.call.releasing_leg = NoLeg
  BY DEF Books, LegBooks
<1>7. CipherBooks(t.state, t.cipher, n) /\ LegBooks(t.state, t.call)
  BY <1>4, <1>5, <1>6, LegsKeptBooks DEF Books, CipherBooks
<1>8. RequestBooks(t) /\ ServiceBooks(t) /\ HandoverBooks(t)
  BY <1>4, <1>5 DEF Books, RequestBooks, ServiceBooks, HandoverBooks
<1> QED
  BY <1>5, <1>6, <1>7, <1>8
     DEF Sound, Books, ReceiveSetup, t, asked, named, addressed, leg

LEMMA CallLegIndexLive ==
    ASSUME NEW s, NEW ti, CallLegIndex(s, ti) # NoLeg
    PROVE  CallLegIndex(s, ti) \in LiveLegs(s)
<1>1. LegsOf(s, ti) # {} /\ LegsOf(s, ti) \subseteq {0, 1}
  BY DEF CallLegIndex, LegsOf, LiveLegs, Leg
<1>2. \E leg \in LegsOf(s, ti) : \A other \in LegsOf(s, ti) : leg <= other
  BY <1>1
<1>3. CallLegIndex(s, ti) \in LegsOf(s, ti)
  BY <1>1, <1>2 DEF CallLegIndex
<1> QED
  BY <1>3 DEF LegsOf

LEMMA QueueKept ==
    ASSUME NEW s \in SessionState, NEW kind, NEW ti
    PROVE  /\ Kept(s, QueueDownlink(s, kind, ti))
           /\ QueueDownlink(s, kind, ti).state = s.state
  BY DEF QueueDownlink, SessionState, Kept, LegsKept

LEMMA SetUpSound ==
    ASSUME NEW s \in SessionState, NEW n, NEW ti, Books(s, n),
           s.state \in CallControlState
    PROVE  /\ Sound(s, ReceiveCallConfirmed(s), n)
           /\ Sound(s, ReceiveAlerting(s, n), n)
           /\ Sound(s, ReceiveConnect(s, ti), n)
<1> DEFINE issued == [s EXCEPT !.call.traffic_assignment_issued = TRUE]
           assigned == Answer(issued, "awaiting_traffic_assignment",
                              "traffic_assignment")
           switched == SetCallLegState(s, CallLegIndex(s, ti), "active")
           connected == [switched EXCEPT !.call.no_reply_timer = FALSE,
                                         !.call.answered = TRUE,
                                         !.call.alerting = FALSE]
           accepted == AnswerCall(connected, "awaiting_connect_acknowledgement",
                                  "connect_acknowledge", ti)
<1>1. s.state \in Progressing /\ Kept(s, s)
  BY DEF CallControlState, Progressing, Kept, LegsKept
<1>2. Kept(s, issued) /\ issued \in SessionState
  BY DEF SessionState, CallState, Kept, LegsKept
<1> HIDE DEF issued
<1>3. Kept(s, assigned) /\ assigned.state = "awaiting_traffic_assignment"
  BY <1>2, AnswerKept, KeptTransitive
<1> HIDE DEF assigned
<1>4. Sound(s, ReceiveCallConfirmed(s), n)
  BY <1>1, <1>3, ProgressSound, StaySound
     DEF Progressing, ReceiveCallConfirmed, assigned, issued
<1>5. Kept(s, ReceiveAlerting(s, n)) /\ ReceiveAlerting(s, n).state = s.state
  BY DEF ReceiveAlerting, SessionState, CallState, Kept, LegsKept
<1>6. Sound(s, ReceiveAlerting(s, n), n)
  BY <1>5, StaySound
<1>7. "active" \in LegState \ {"inactive"}
  BY DEF LegState
<1>8. switched \in SessionState /\ Kept(s, switched)
  BY <1>7, SetLegType, LegKept
<1> HIDE DEF switched
<1>9. connected \in SessionState /\ Kept(switched, connected)
  BY <1>8 DEF SessionState, CallState, Kept, LegsKept
<1> HIDE DEF connected
<1>10. Kept(connected, accepted)
         /\ accepted.state = "awaiting_connect_acknowledgement"
  BY <1>9, CallMoveKept
<1> HIDE DEF accepted
<1>11. Kept(s, accepted)
  BY <1>8, <1>9, <1>10, KeptTransitive
<1>12. Sound(s, accepted, n)
  BY <1>1, <1>10, <1>11, ProgressSound DEF Progressing
<1> QED
  BY <1>4, <1>6, <1>12 DEF ReceiveConnect, accepted, connected, switched

LEMMA DisconnectSound ==
    ASSUME NEW s \in SessionState, NEW n, NEW ti, Books(s, n),
           s.state \in CallControlState
    PROVE  Sound(s, ReceiveDisconnect(s, ti), n)
<1> DEFINE leg == CallLegIndex(s, ti)
           releasing == [s EXCEPT !.call.releasing_leg = leg,
                                  !.call.alerting = FALSE]
           t == AnswerCall(releasing, "awaiting_call_release_acknowledgement",
                           "call_release", ti)
<1>1. Sound(s, s, n)
  BY StaySound DEF Kept, LegsKept
<1>2. ASSUME leg # NoLeg
      PROVE  Sound(s, t, n)
  <2>1. leg \in Live(s.call.leg_states)
    BY <1>2, CallLegIndexLive DEF LiveLegs, Live
  <2> HIDE DEF leg
  <2>2. /\ t.state = LegReleasing
        /\ t.call.releasing_leg = leg
        /\ t.call.leg_states = s.call.leg_states
        /\ t.call.multiparty_active = s.call.multiparty_active
        /\ t.call.multiparty_held = s.call.multiparty_held
        /\ t.cipher = s.cipher /\ t.outgoing = s.outgoing
        /\ t.ussd = s.ussd /\ t.sms = s.sms
        /\ t.incoming_service = s.incoming_service
        /\ t.mobile_originated = s.mobile_originated
        /\ t.handover_target_arfcn = s.handover_target_arfcn
    BY DEF AnswerCall, QueueDownlink, InState, SessionState, CallState
  <2> HIDE DEF t
  <2>3. /\ CipherBooks(t.state, t.cipher, n) /\ DecisionBooks(t.outgoing)
        /\ LegBooks(t.state, t.call)
    BY <2>1, <2>2 DEF Books, CipherBooks, LegBooks, CallControlState
  <2>4. RequestBooks(t) /\ ServiceBooks(t) /\ HandoverBooks(t)
    BY <2>2 DEF Books, RequestBooks, ServiceBooks, HandoverBooks,
                CallControlState
  <2> QED
    BY <2>2, <2>3, <2>4, BooksSound DEF Books
<1> QED
  BY <1>1, <1>2 DEF ReceiveDisconnect, t, releasing, leg

LEMMA SwitchLegSound ==
    ASSUME NEW s \in SessionState, NEW n, NEW ti, NEW from, NEW kind,
           NEW to \in LegState \ {"inactive"}, Books(s, n)
    PROVE  Sound(s, SwitchLeg(s, ti, from, to, kind), n)
<1> DEFINE switched == SetCallLegState(s, CallLegIndex(s, ti), to)
           t == QueueDownlink(switched, kind, ti)
<1>1. /\ switched \in SessionState
      /\ Kept(s, switched) /\ switched.state = s.state
  BY SetLegType, LegKept
<1> HIDE DEF switched
<1>2. Kept(switched, t) /\ t.state = s.state
  BY <1>1, QueueKept
<1> HIDE DEF t
<1>3. Kept(s, t)
  BY <1>1, <1>2, KeptTransitive
<1>4. Sound(s, t, n)
  BY <1>2, <1>3, StaySound
<1>5. Sound(s, s, n)
  BY StaySound DEF Kept, LegsKept
<1> QED
  BY <1>4, <1>5 DEF SwitchLeg, t, switched

\* A conference is formed, held, retrieved or split of two live legs.
LEMMA ConferenceSound ==
    ASSUME NEW s \in SessionState, NEW n, Books(s, n),
           s.state = "incoming_call_active",
           NEW legs \in [Leg -> LegState \ {"inactive"}],
           NEW is_active \in BOOLEAN, NEW is_held \in BOOLEAN,
           is_held => is_active, NEW kind, NEW ti
    PROVE  LET conference == [[s EXCEPT !.call.leg_states = legs] EXCEPT
                                 !.call.multiparty_active = is_active,
                                 !.call.multiparty_held = is_held]
           IN  Sound(s, QueueDownlink(conference, kind, ti), n)
<1> DEFINE moved == [s EXCEPT !.call.leg_states = legs]
           conference == [moved EXCEPT !.call.multiparty_active = is_active,
                                       !.call.multiparty_held = is_held]
           t == QueueDownlink(conference, kind, ti)
<1>1. /\ moved \in SessionState /\ moved.call.leg_states = legs
      /\ moved.state = s.state
      /\ moved.call.releasing_leg = s.call.releasing_leg
      /\ moved.cipher = s.cipher /\ moved.outgoing = s.outgoing
      /\ moved.ussd = s.ussd /\ moved.sms = s.sms
      /\ moved.incoming_service = s.incoming_service
      /\ moved.mobile_originated = s.mobile_originated
      /\ moved.handover_target_arfcn = s.handover_target_arfcn
  BY DEF SessionState, CallState
<1> HIDE DEF moved
<1>2. /\ t.state = s.state /\ t.call.leg_states = legs
      /\ t.call.releasing_leg = s.call.releasing_leg
      /\ t.call.multiparty_active = is_active
      /\ t.call.multiparty_held = is_held
      /\ t.cipher = s.cipher /\ t.outgoing = s.outgoing
      /\ t.ussd = s.ussd /\ t.sms = s.sms
      /\ t.incoming_service = s.incoming_service
      /\ t.mobile_originated = s.mobile_originated
      /\ t.handover_target_arfcn = s.handover_target_arfcn
  BY <1>1 DEF QueueDownlink, SessionState, CallState
<1> HIDE DEF t
<1>3. Live(legs) = Leg
  BY DEF Live
<1>4. /\ CipherBooks(t.state, t.cipher, n) /\ DecisionBooks(t.outgoing)
      /\ LegBooks(t.state, t.call)
  BY <1>2, <1>3 DEF Books, CipherBooks, LegBooks
<1>5. RequestBooks(t) /\ ServiceBooks(t) /\ HandoverBooks(t)
  BY <1>2 DEF Books, RequestBooks, ServiceBooks, HandoverBooks
<1>6. Sound(s, t, n)
  BY <1>2, <1>4, <1>5, BooksSound DEF Books
<1> QED
  BY <1>6 DEF t, conference, moved

LEMMA MultipartySound ==
    ASSUME NEW s \in SessionState, NEW n, NEW m, Books(s, n),
           s.state = "incoming_call_active"
    PROVE  Sound(s, ReceiveMultiparty(s, m), n)
<1> DEFINE ti == m.transaction
           kind == "multiparty_facility_result"
           selected == CallLegIndex(s, ti)
           all_active == [leg \in Leg |-> "active"]
           all_held == [leg \in Leg |-> "held"]
           split == [leg \in Leg |-> IF leg = selected THEN "active" ELSE "held"]
           Conference(legs, is_active, is_held) ==
             [[s EXCEPT !.call.leg_states = legs] EXCEPT
                 !.call.multiparty_active = is_active,
                 !.call.multiparty_held = is_held]
           joined == Conference(all_active, TRUE, FALSE)
           parked == Conference(all_held, TRUE, TRUE)
           parted == Conference(split, FALSE, FALSE)
<1>1. /\ all_active \in [Leg -> LegState \ {"inactive"}]
      /\ all_held \in [Leg -> LegState \ {"inactive"}]
      /\ split \in [Leg -> LegState \ {"inactive"}]
  BY DEF LegState
<1> HIDE DEF all_active, all_held, split
<1>2. /\ Sound(s, QueueDownlink(joined, kind, ti), n)
      /\ Sound(s, QueueDownlink(parked, kind, ti), n)
      /\ Sound(s, QueueDownlink(parted, kind, ti), n)
  BY <1>1, ConferenceSound
<1> HIDE DEF joined, parked, parted
<1>3. Sound(s, QueueDownlink(s, kind, ti), n)
  BY QueueKept, StaySound
<1>4. PICK t \in {s, joined, parked, parted} :
         ReceiveMultiparty(s, m) = QueueDownlink(t, kind, ti)
  BY DEF ReceiveMultiparty, AllLegs, joined, parked, parted, all_active,
         all_held, split
<1> QED
  BY <1>2, <1>3, <1>4

LEMMA InCallSound ==
    ASSUME NEW s \in SessionState, NEW n, NEW m, Books(s, n),
           s.state = "incoming_call_active"
    PROVE  Sound(s, ReceiveInCall(s, m), n)
<1> DEFINE second == [s EXCEPT !.call.second_mobile_originated = TRUE]
           accepted == Answer(second,
                              "awaiting_second_cm_service_accept_acknowledgement",
                              "cm_service_accept")
<1>1. second \in SessionState /\ Kept(s, second)
  BY DEF SessionState, CallState, Kept, LegsKept
<1> HIDE DEF second
<1>2. /\ Kept(s, accepted)
      /\ accepted.state = "awaiting_second_cm_service_accept_acknowledgement"
  BY <1>1, AnswerKept, KeptTransitive
<1> HIDE DEF accepted
<1>3. Sound(s, accepted, n)
  BY <1>2, ProgressSound DEF Progressing
<1>4. "held" \in LegState \ {"inactive"} /\ "active" \in LegState \ {"inactive"}
  BY DEF LegState
<1>5. /\ \A ti, from, kind : Sound(s, SwitchLeg(s, ti, from, "held", kind), n)
      /\ \A ti, from, kind : Sound(s, SwitchLeg(s, ti, from, "active", kind), n)
  BY <1>4, SwitchLegSound
<1>6. \A kind, ti : Sound(s, QueueDownlink(s, kind, ti), n)
  BY QueueKept, StaySound
<1>7. Sound(s, s, n) /\ Sound(s, ReceiveMultiparty(s, m), n)
  BY StaySound, MultipartySound DEF Kept, LegsKept
<1> QED
  BY <1>3, <1>5, <1>6, <1>7
     DEF ReceiveInCall, SecondCmServiceRequest, accepted, second

LEMMA CallControlSound ==
    ASSUME NEW s \in SessionState, NEW n, NEW m, Books(s, n),
           s.state \in CallControlState
    PROVE  Sound(s, ReceiveCallControl(s, n, m), n)
<1>1. Sound(s, s, n)
  BY StaySound DEF Kept, LegsKept
<1> QED
  BY <1>1, SetUpSound, DisconnectSound, InCallSound DEF ReceiveCallControl

------------------------------------------------------------------------------
(* receive_layer3: the end of a call *)

LEMMA AfterDisconnectSound ==
    ASSUME NEW s \in SessionState, NEW n, NEW m, Books(s, n),
           s.state = "awaiting_handset_release"
    PROVE  Sound(s, ReceiveAfterDisconnect(s, m), n)
<1> DEFINE answered == IF m.kind \in CallControlKind
                       THEN [s EXCEPT !.call.release_waiting = FALSE] ELSE s
           completed == [answered EXCEPT !.call.release_complete_received = TRUE]
           released == AnswerCall(answered,
                                  "awaiting_call_release_acknowledgement",
                                  "release_complete", m.transaction)
           ended == BeginChannelRelease(completed)
<1>1. answered \in SessionState /\ Kept(s, answered) /\ answered.state = s.state
  <2> DEFINE quiet == [s EXCEPT !.call.release_waiting = FALSE]
  <2>1. quiet \in SessionState /\ Kept(s, quiet) /\ quiet.state = s.state
    BY DEF SessionState, CallState, Kept, LegsKept
  <2>2. answered \in {quiet, s} /\ Kept(s, s)
    BY DEF Kept, LegsKept
  <2> HIDE DEF quiet, answered
  <2> QED
    BY <2>1, <2>2
<1> HIDE DEF answered
<1>2. completed \in SessionState /\ Kept(answered, completed)
  BY <1>1 DEF SessionState, CallState, Kept, LegsKept
<1> HIDE DEF completed
<1>3. /\ Kept(answered, released) /\ released.state = LegReleasing
      /\ Kept(completed, ended) /\ ended.state = Releasing
  BY <1>1, <1>2, CallMoveKept, AnswerKept DEF BeginChannelRelease
<1> HIDE DEF released, ended
<1>4. Kept(s, released) /\ Kept(s, ended)
  BY <1>1, <1>2, <1>3, KeptTransitive
<1>5. Sound(s, released, n) /\ Sound(s, ended, n)
  BY <1>3, <1>4, ProgressSound DEF Progressing
<1>6. Sound(s, answered, n)
  BY <1>1, StaySound
<1> QED
  BY <1>5, <1>6
     DEF ReceiveAfterDisconnect, released, ended, completed, answered

LEMMA AssignmentCompleteSound ==
    ASSUME NEW s \in SessionState, NEW n, Books(s, n),
           s.state = "awaiting_assignment_complete"
    PROVE  Sound(s, ReceiveAssignmentComplete(s), n)
<1> DEFINE ringing == [s EXCEPT !.call.alerting = TRUE]
           alerted == AnswerCall(ringing, "awaiting_call_alerting_acknowledgement",
                                 "call_alerting", s.call.transaction)
<1>1. ringing \in SessionState /\ Kept(s, ringing)
  BY DEF SessionState, CallState, Kept, LegsKept
<1> HIDE DEF ringing
<1>2. Kept(s, alerted) /\ alerted.state = "awaiting_call_alerting_acknowledgement"
  BY <1>1, CallMoveKept, KeptTransitive
<1> HIDE DEF alerted
<1>3. Sound(s, alerted, n) /\ Sound(s, InState(s, "incoming_call_active"), n)
  BY <1>2, MoveKept, ProgressSound DEF Progressing
<1> QED
  BY <1>3 DEF ReceiveAssignmentComplete, alerted, ringing

LEMMA ConnectAcknowledgeSound ==
    ASSUME NEW s \in SessionState, NEW n, Books(s, n),
           s.state = "awaiting_outgoing_connect_acknowledgement"
    PROVE  Sound(s, ReceiveConnectAcknowledge(s), n)
<1> DEFINE quiet == [s EXCEPT !.call.alerting = FALSE,
                              !.call.release_waiting = FALSE]
           leg == CallLegIndex(s, s.call.transaction)
           heard == SetCallLegState(quiet, leg, "active")
           active == Settle(heard, "incoming_call_active")
<1>1. quiet \in SessionState /\ Kept(s, quiet)
  BY DEF SessionState, CallState, Kept, LegsKept
<1> HIDE DEF quiet, leg
<1>2. "active" \in LegState \ {"inactive"}
  BY DEF LegState
<1>3. heard \in SessionState /\ Kept(quiet, heard)
  BY <1>1, <1>2, SetLegType, LegKept
<1> HIDE DEF heard
<1>4. "incoming_call_active" \in State
  BY DEF State, PendingKinds
<1>5. /\ Kept(heard, active) /\ active.state = "incoming_call_active"
      /\ active \in SessionState
  BY <1>3, <1>4, MoveKept, NoMessageType
     DEF Settle, ClearPendingDownlink, InState, SessionState
<1> HIDE DEF active
<1>6. /\ Kept(active, ApplyOutgoingTermination(active))
      /\ ApplyOutgoingTermination(active).state \in Progressing
  BY <1>5, ApplyKept DEF Progressing
<1>7. Kept(s, ApplyOutgoingTermination(active))
  BY <1>1, <1>3, <1>5, <1>6, KeptTransitive
<1>8. Sound(s, ApplyOutgoingTermination(active), n)
  BY <1>6, <1>7, ProgressSound DEF Progressing
<1> QED
  BY <1>8 DEF ReceiveConnectAcknowledge, active, heard, quiet, leg

LEMMA FinalReleaseSound ==
    ASSUME NEW s \in SessionState, NEW n, Books(s, n),
           s.state = "awaiting_release_complete"
    PROVE  Sound(s, ReceiveFinalReleaseComplete(s), n)
<1> DEFINE completed == s.incoming_service # "none"
           call == [CallReset EXCEPT !.release_waiting = s.call.release_waiting,
                                     !.forwarded = s.call.forwarded,
                                     !.no_reply_timer = s.call.no_reply_timer]
           outgoing == ClearOutgoing([s.outgoing EXCEPT !.request_pending = FALSE])
           ussd == [s.ussd EXCEPT !.request_pending = FALSE]
           ended == [s EXCEPT
                       !.established = "none",
                       !.release_completes_registration = FALSE,
                       !.mobile_originated = "none",
                       !.incoming_service_completed = completed,
                       !.incoming_service = "none",
                       !.call = call, !.outgoing = outgoing, !.ussd = ussd]
           t == ClearDedicatedCipher(InState(ended, "idle"))
<1>1. /\ call.releasing_leg = NoLeg
      /\ ~call.multiparty_active /\ ~call.multiparty_held
  BY DEF CallReset
<1>2. LegBooks("idle", call)
  BY <1>1 DEF LegBooks
<1>3. /\ outgoing \in OutgoingState
      /\ ~outgoing.request_pending /\ ~outgoing.decision_accepted
      /\ ~outgoing.decision_timer
  BY ClearedOutgoing, ClearOutgoingType DEF SessionState
<1>4. ussd \in UssdState /\ ~ussd.request_pending
  BY DEF SessionState, UssdState
<1> HIDE DEF completed, call, outgoing, ussd
<1>5. /\ t.state = "idle" /\ t.call = call /\ t.outgoing = outgoing
      /\ t.ussd = ussd /\ t.sms = s.sms
      /\ t.mobile_originated = "none" /\ t.incoming_service = "none"
      /\ t.handover_target_arfcn = s.handover_target_arfcn
      /\ ~t.cipher.active /\ ~t.cipher.command_pending
  BY DEF ClearDedicatedCipher, InState, SessionState, CipherState
<1>6. ~s.sms.request_pending
  BY DEF Books, RequestBooks
<1> HIDE DEF t
<1>7. Retired(s, t)
  BY <1>2, <1>3, <1>4, <1>5, <1>6 DEF Retired
<1>8. Sound(s, t, n)
  BY <1>7, RetiredSound
<1>9. ReceiveFinalReleaseComplete(s) = t
  BY DEF ReceiveFinalReleaseComplete, t, ended, completed, call, outgoing,
         ussd, SessionState
<1> QED
  BY <1>8, <1>9

------------------------------------------------------------------------------
(* receive_layer3: short messages and the result of a handover *)

LEMMA DeliveryAnswerSound ==
    ASSUME NEW s \in SessionState, NEW n, NEW m, Books(s, n),
           s.state = "awaiting_sms_handset_response"
    PROVE  Sound(s, ReceiveDeliveryAnswer(s, m), n)
<1> DEFINE t == ReceiveDeliveryAnswer(s, m)
<1>1. /\ Kept(s, t)
      /\ t.state \in {s.state, "awaiting_sms_cp_ack_acknowledgement"}
  BY DEF ReceiveDeliveryAnswer, Answer, QueueDownlink, InState, SessionState,
         SmsState, Kept, LegsKept
<1> HIDE DEF t
<1>2. t.state = "awaiting_sms_cp_ack_acknowledgement"
        => Passage(n, s.state, t.state)
  BY DEF Passage
<1> QED
  BY <1>1, <1>2, StaySound, PassageSound DEF t

LEMMA SubmitSound ==
    ASSUME NEW s \in SessionState, NEW n, NEW m, Books(s, n),
           s.state = "awaiting_mobile_sms_submit"
    PROVE  Sound(s, ReceiveSubmit(s, n, m), n)
<1> DEFINE report == m.kind = "submit_with_report"
           id == NextRequestId(s.sms.request_id)
           asked == [s EXCEPT !.sms.status_report_requested = report,
                              !.sms.request_id = id,
                              !.sms.request_pending = TRUE,
                              !.sms.decision_accepted = FALSE]
           silent == InState(asked, "awaiting_mobile_sms_timeout")
           answered == Answer(asked, "awaiting_mobile_sms_cp_ack_acknowledgement",
                              "sms_cp_ack")
<1>1. /\ asked.state = s.state /\ asked.cipher = s.cipher
      /\ asked.outgoing = s.outgoing /\ asked.call = s.call
      /\ asked.ussd = s.ussd
      /\ asked.incoming_service = s.incoming_service
      /\ asked.mobile_originated = s.mobile_originated
      /\ asked.handover_target_arfcn = s.handover_target_arfcn
      /\ asked \in SessionState
  <2>1. id \in RequestId /\ report \in BOOLEAN
    BY NextRequestIdType DEF SessionState, SmsState
  <2> HIDE DEF id, report
  <2> QED
    BY <2>1 DEF SessionState, SmsState
<1> HIDE DEF asked
<1>2. ASSUME NEW t \in {silent, answered}
      PROVE  Sound(s, t, n)
  <2>1. /\ t.state \in InSubmit
        /\ t.cipher = s.cipher /\ t.outgoing = s.outgoing
        /\ t.call = s.call /\ t.ussd = s.ussd
        /\ t.incoming_service = s.incoming_service
        /\ t.mobile_originated = s.mobile_originated
        /\ t.handover_target_arfcn = s.handover_target_arfcn
    BY <1>1 DEF InState, Answer, QueueDownlink, SessionState
  <2> HIDE DEF silent, answered
  <2>2. /\ CipherBooks(t.state, t.cipher, n) /\ DecisionBooks(t.outgoing)
        /\ LegBooks(t.state, t.call)
    BY <2>1 DEF Books, CipherBooks, LegBooks
  <2>3. RequestBooks(t) /\ ServiceBooks(t) /\ HandoverBooks(t)
    BY <2>1 DEF Books, RequestBooks, ServiceBooks, HandoverBooks
  <2> QED
    BY <2>1, <2>2, <2>3, BooksSound DEF Books
<1>3. Sound(s, s, n)
  BY StaySound DEF Kept, LegsKept
<1> QED
  BY <1>2, <1>3 DEF ReceiveSubmit, silent, answered, asked, id, report

LEMMA SmsSound ==
    ASSUME NEW s \in SessionState, NEW n, NEW m, Books(s, n)
    PROVE  Sound(s, ReceiveSms(s, n, m), n)
<1>1. s.state = "awaiting_mobile_sms_final_cp_ack"
        => Sound(s, BeginChannelRelease(s), n)
  BY ReleaseSound
<1>2. Sound(s, s, n)
  BY StaySound DEF Kept, LegsKept
<1> QED
  BY <1>1, <1>2, DeliveryAnswerSound, SubmitSound DEF ReceiveSms

LEMMA HandoverEndedSound ==
    ASSUME NEW s \in SessionState, NEW n, NEW arfcn, Books(s, n),
           s.state = HandoverState
    PROVE  Sound(s, HandoverEnded(s, arfcn), n)
<1> DEFINE t == HandoverEnded(s, arfcn)
<1>1. /\ t.state = "incoming_call_active"
      /\ t.handover_target_arfcn = NoCell
      /\ t.cipher = s.cipher /\ t.outgoing = s.outgoing
      /\ t.call = s.call /\ t.ussd = s.ussd /\ t.sms = s.sms
      /\ t.incoming_service = s.incoming_service
      /\ t.mobile_originated = s.mobile_originated
  BY DEF HandoverEnded, Settle, ClearPendingDownlink, InState, SessionState
<1> HIDE DEF t
<1>2. /\ CipherBooks(t.state, t.cipher, n) /\ DecisionBooks(t.outgoing)
      /\ LegBooks(t.state, t.call)
  BY <1>1 DEF Books, CipherBooks, LegBooks
<1>3. RequestBooks(t) /\ ServiceBooks(t) /\ HandoverBooks(t)
  BY <1>1 DEF Books, RequestBooks, ServiceBooks, HandoverBooks
<1> QED
  BY <1>1, <1>2, <1>3, BooksSound DEF Books, t

LEMMA MainLinkSound ==
    ASSUME NEW s \in SessionState, NEW n \in Network, NEW m \in HandsetMessage,
           Books(s, n), Good(s)
    PROVE  Sound(s, ReceiveMainLink(s, n, m), n)
<1> DEFINE received == [s EXCEPT !.call.release_complete_received = TRUE]
<1>1. Sound(s, s, n)
  BY StaySound DEF Kept, LegsKept
<1>2. s.state = HandoverState => Sound(s, ReceiveHandoverResult(s, m), n)
  BY <1>1, HandoverEndedSound DEF ReceiveHandoverResult
<1>3. /\ s.state = "awaiting_supplementary_request"
           => Sound(s, ReceiveSupplementary(s, n, m), n)
      /\ s.state = "awaiting_supplementary_response"
           => Sound(s, ReceiveContinuation(s, m), n)
      /\ s.state = "awaiting_network_ussd_response"
           => Sound(s, ReceiveNetworkUssdAnswer(s, m), n)
      /\ s.state = "awaiting_authentication_response"
           => Sound(s, ReceiveAuthenticationResponse(s, n, m), n)
  BY SupplementarySound, AuthenticationResponseSound
<1>4. m.transaction \in Transaction
  BY DEF HandsetMessage
<1>5. /\ s.state \in {"awaiting_outgoing_call_setup",
                      "awaiting_second_outgoing_call_setup"}
           => Sound(s, ReceiveSetup(s, n, m.transaction), n)
      /\ s.state \in CallControlState => Sound(s, ReceiveCallControl(s, n, m), n)
      /\ s.state = "awaiting_assignment_complete"
           => Sound(s, ReceiveAssignmentComplete(s), n)
      /\ s.state = "awaiting_handset_release"
           => Sound(s, ReceiveAfterDisconnect(s, m), n)
      /\ s.state = "awaiting_outgoing_connect_acknowledgement"
           => Sound(s, ReceiveConnectAcknowledge(s), n)
      /\ s.state = "awaiting_release_complete"
           => Sound(s, ReceiveFinalReleaseComplete(s), n)
  BY <1>4, SetupSound, CallControlSound, AssignmentCompleteSound,
     AfterDisconnectSound, ConnectAcknowledgeSound, FinalReleaseSound
<1>6. s.state = "awaiting_network_disconnect_acknowledgement"
        => Sound(s, BeginChannelRelease(received), n)
  <2>1. /\ received \in SessionState /\ Kept(s, received)
        /\ received.state = s.state
    BY DEF SessionState, CallState, Kept, LegsKept
  <2> HIDE DEF received
  <2>2. Books(received, n)
    BY <2>1, StaySound DEF Sound
  <2>3. s.state = "awaiting_network_disconnect_acknowledgement"
          => Sound(received, BeginChannelRelease(received), n)
    BY <2>1, <2>2, ReleaseSound
  <2> QED
    BY <2>1, <2>3, ThroughSound DEF Kept, LegsKept
<1> QED
  BY <1>1, <1>2, <1>3, <1>5, <1>6 DEF ReceiveMainLink

LEMMA ReceiveLayer3Sound ==
    ASSUME NEW s \in SessionState, NEW n \in Network, NEW m \in HandsetMessage,
           Books(s, n), Good(s)
    PROVE  Sound(s, ReceiveLayer3(s, n, m), n)
  BY SmsSound, CipherModeCompleteSound, MainLinkSound DEF ReceiveLayer3

------------------------------------------------------------------------------
(* The host and the timers *)

LEMMA OutgoingSound ==
    ASSUME NEW s, NEW t, NEW n, Books(s, n), ButOutgoing(s, t),
           DecisionBooks(t.outgoing),
           t.outgoing.request_pending \/ t.outgoing.decision_timer =>
             s.outgoing.request_pending \/ s.outgoing.decision_timer,
           (/\ s.outgoing.decision_accepted /\ t.outgoing.decision_accepted
            /\ t.outgoing.request_id = s.outgoing.request_id)
             => t.outgoing.decision = s.outgoing.decision
    PROVE  Sound(s, t, n)
<1>1. CipherBooks(t.state, t.cipher, n) /\ LegBooks(t.state, t.call)
  BY DEF Books, ButOutgoing
<1>2. RequestBooks(t) /\ ServiceBooks(t) /\ HandoverBooks(t)
  BY DEF Books, ButOutgoing, RequestBooks, ServiceBooks, HandoverBooks
<1>3. s.call.releasing_leg # NoLeg => t.state # Releasing
  BY DEF Books, LegBooks, ButOutgoing
<1> QED
  BY <1>1, <1>2, <1>3 DEF Sound, Books

\* What follows a change of the outgoing request leaves the request alone.
LEMMA ThenSound ==
    ASSUME NEW s, NEW t, NEW u, NEW n, Sound(s, u, n), Sound(u, t, n),
           t.outgoing = u.outgoing,
           u.call.releasing_leg = s.call.releasing_leg
    PROVE  Sound(s, t, n)
  BY DEF Sound

LEMMA SubmitDecisionSound ==
    ASSUME NEW s \in SessionState, NEW n, NEW id \in RequestId,
           NEW outcome \in CallOutcome, Books(s, n)
    PROVE  Sound(s, SubmitOutgoingDecision(s, id, outcome), n)
<1>1. DecisionBooks(s.outgoing)
  BY DEF Books
<1>2. PICK o \in OutgoingState, accepted \in SessionState :
        /\ DecisionBooks(o)
        /\ o.request_id = s.outgoing.request_id
        /\ o.request_pending = s.outgoing.request_pending
        /\ o.decision_timer = s.outgoing.decision_timer
        /\ s.outgoing.decision_accepted => o = s.outgoing
        /\ accepted.outgoing = o /\ ButOutgoing(s, accepted)
        /\ SubmitOutgoingDecision(s, id, outcome) =
             IF s.state = "awaiting_outgoing_decision" /\ o # s.outgoing
             THEN ApplyOutgoingDecision(accepted) ELSE accepted
  BY <1>1, DecisionTaken
<1> DEFINE t == ApplyOutgoingDecision(accepted)
<1>3. Sound(s, accepted, n)
  BY <1>2, OutgoingSound
<1>4. ASSUME s.state = "awaiting_outgoing_decision"
      PROVE  Sound(s, t, n)
  <2>1. Books(accepted, n) /\ accepted.state = s.state
    BY <1>2, <1>3 DEF Sound, ButOutgoing
  <2>2. Kept(accepted, t) /\ t.state \in Progressing
    BY <1>2, <1>4, <2>1, ApplyKept DEF Progressing
  <2> HIDE DEF t
  <2>3. Sound(accepted, t, n)
    BY <1>2, <1>4, <2>1, <2>2, ProgressSound DEF Progressing
  <2> QED
    BY <1>2, <1>3, <2>2, <2>3, ThenSound DEF Kept, ButOutgoing
<1> QED
  BY <1>2, <1>3, <1>4

LEMMA OutgoingTerminationSound ==
    ASSUME NEW s \in SessionState, NEW n, NEW id \in RequestId, Books(s, n)
    PROVE  Sound(s, SubmitOutgoingTermination(s, id), n)
<1> DEFINE accepted == [s EXCEPT !.outgoing.termination_accepted = TRUE,
                                 !.outgoing.termination_request_id = id]
           t == ApplyOutgoingTermination(accepted)
<1>1. /\ accepted \in SessionState /\ ButOutgoing(s, accepted)
      /\ accepted.outgoing.request_id = s.outgoing.request_id
      /\ accepted.outgoing.request_pending = s.outgoing.request_pending
      /\ accepted.outgoing.decision_timer = s.outgoing.decision_timer
      /\ accepted.outgoing.decision_accepted = s.outgoing.decision_accepted
      /\ accepted.outgoing.decision = s.outgoing.decision
      /\ accepted.outgoing.decision_request_id = s.outgoing.decision_request_id
  BY DEF SessionState, OutgoingState, ButOutgoing
<1> HIDE DEF accepted
<1>2. DecisionBooks(accepted.outgoing)
  BY <1>1 DEF Books, DecisionBooks
<1>3. Sound(s, accepted, n)
  BY <1>1, <1>2, OutgoingSound
<1>4. ASSUME s.state \in {"outgoing_call_alerting", "incoming_call_active"}
      PROVE  Sound(s, t, n)
  <2>1. Books(accepted, n) /\ accepted.state = s.state
    BY <1>1, <1>3 DEF Sound, ButOutgoing
  <2>2. Kept(accepted, t) /\ t.state \in Progressing
    BY <1>1, <1>4, <2>1, ApplyKept DEF Progressing
  <2> HIDE DEF t
  <2>3. Sound(accepted, t, n)
    BY <1>1, <1>4, <2>1, <2>2, ProgressSound DEF Progressing
  <2> QED
    BY <1>1, <1>3, <2>2, <2>3, ThenSound DEF Kept, ButOutgoing
<1>5. Sound(s, s, n)
  BY StaySound DEF Kept, LegsKept
<1> QED
  BY <1>3, <1>4, <1>5 DEF SubmitOutgoingTermination, t, accepted

LEMMA IncomingTerminationKept ==
    ASSUME NEW s \in SessionState
    PROVE  /\ Kept(s, SubmitIncomingTermination(s))
           /\ SubmitIncomingTermination(s).state =
                "awaiting_network_disconnect_acknowledgement"
           /\ SubmitIncomingTermination(s) \in SessionState
<1> DEFINE quiet == [s EXCEPT !.call.no_reply_timer = FALSE,
                              !.call.alerting = FALSE]
<1>1. quiet \in SessionState /\ Kept(s, quiet)
  BY DEF SessionState, CallState, Kept, LegsKept
<1> HIDE DEF quiet
<1>2. /\ Kept(s, AnswerCall(quiet, "awaiting_network_disconnect_acknowledgement",
                            "call_disconnect", s.call.transaction))
      /\ AnswerCall(quiet, "awaiting_network_disconnect_acknowledgement",
                    "call_disconnect", s.call.transaction).state
           = "awaiting_network_disconnect_acknowledgement"
  BY <1>1, CallMoveKept, KeptTransitive
<1>3. SubmitIncomingTermination(s) \in SessionState
  BY IncomingTerminationGood DEF Good
<1> QED
  BY <1>2, <1>3 DEF SubmitIncomingTermination, quiet

LEMMA NoReplyTimerSound ==
    ASSUME NEW s \in SessionState, NEW n, Books(s, n)
    PROVE  Sound(s, NoReplyTimer(s, n), n)
<1> DEFINE fired == [s EXCEPT !.call.no_reply_timer = FALSE]
           ended == SubmitIncomingTermination(fired)
           t == [ended EXCEPT !.call.forwarded = TRUE]
<1>1. fired \in SessionState /\ Kept(s, fired) /\ fired.state = s.state
  BY DEF SessionState, CallState, Kept, LegsKept
<1>2. Sound(s, fired, n)
  BY <1>1, StaySound
<1>3. AdmitsIncomingTermination(s) => s.state \in Progressing
  BY DEF AdmitsIncomingTermination, Progressing
<1> HIDE DEF fired
<1>4. /\ ended \in SessionState /\ Kept(fired, ended)
      /\ ended.state = "awaiting_network_disconnect_acknowledgement"
  BY <1>1, IncomingTerminationKept
<1> HIDE DEF ended
<1>5. Kept(ended, t) /\ t.state = ended.state
  BY <1>4 DEF SessionState, CallState, Kept, LegsKept
<1> HIDE DEF t
<1>6. Kept(s, t)
  BY <1>1, <1>4, <1>5, KeptTransitive
<1>7. AdmitsIncomingTermination(s) => Sound(s, t, n)
  BY <1>3, <1>4, <1>5, <1>6, ProgressSound DEF Progressing
<1>8. NoReplyTimer(s, n) \in {fired} \cup
        {x \in {t} : AdmitsIncomingTermination(s)}
  BY DEF NoReplyTimer, AdmitsIncomingTermination, t, ended, fired, SessionState
<1> QED
  BY <1>2, <1>7, <1>8

LEMMA DecisionTimerSound ==
    ASSUME NEW s \in SessionState, NEW n \in Network, Books(s, n)
    PROVE  Sound(s, OutgoingDecisionTimer(s, n), n)
<1> DEFINE fired == [s EXCEPT !.outgoing.decision_timer = FALSE]
           id == s.outgoing.policy_request_id
           t == SubmitOutgoingDecision(fired, id, n.call_outcome)
<1>1. /\ fired \in SessionState /\ ButOutgoing(s, fired)
      /\ fired.outgoing.request_id = s.outgoing.request_id
      /\ fired.outgoing.request_pending = s.outgoing.request_pending
      /\ ~fired.outgoing.decision_timer
      /\ fired.outgoing.decision_accepted = s.outgoing.decision_accepted
      /\ fired.outgoing.decision = s.outgoing.decision
      /\ fired.outgoing.decision_request_id = s.outgoing.decision_request_id
  BY DEF SessionState, OutgoingState, ButOutgoing
<1>2. id \in RequestId /\ n.call_outcome \in CallOutcome
  BY DEF SessionState, OutgoingState, Network
<1> HIDE DEF fired, id
<1>3. DecisionBooks(fired.outgoing)
  BY <1>1 DEF Books, DecisionBooks
<1>4. Sound(s, fired, n)
  BY <1>1, <1>3, OutgoingSound
<1>5. Sound(fired, t, n)
  BY <1>1, <1>2, <1>4, SubmitDecisionSound DEF Sound
<1> HIDE DEF t
<1>6. Sound(s, t, n)
  BY <1>1, <1>4, <1>5 DEF Sound, ButOutgoing
<1> QED
  BY <1>4, <1>6 DEF OutgoingDecisionTimer, t, fired, id

LEMMA SmsDecisionSound ==
    ASSUME NEW s \in SessionState, NEW n, NEW id, NEW outcome \in SmsOutcome,
           Books(s, n)
    PROVE  Sound(s, SubmitOutgoingSmsDecision(s, id, outcome), n)
<1> DEFINE accepted == [s EXCEPT !.sms.decision_accepted = TRUE,
                                 !.sms.decision = outcome]
           t == AnswerSubmit(accepted, outcome)
<1>1. /\ accepted \in SessionState /\ Kept(s, accepted)
      /\ accepted.state = s.state
  BY DEF SessionState, SmsState, Kept, LegsKept
<1> HIDE DEF accepted
<1>2. Sound(s, accepted, n) /\ Sound(s, s, n)
  BY <1>1, StaySound DEF Kept, LegsKept
<1>3. Kept(s, t) /\ t.state \in InSubmit
  BY <1>1, AnswerSubmitSound, KeptTransitive
<1> HIDE DEF t
<1>4. s.state = "awaiting_mobile_sms_host_decision" => Sound(s, t, n)
  BY <1>3, SubmissionSound
<1> QED
  BY <1>2, <1>4 DEF SubmitOutgoingSmsDecision, accepted, t

LEMMA UssdResponseSound ==
    ASSUME NEW s \in SessionState, NEW n, NEW id, Books(s, n)
    PROVE  /\ Sound(s, SubmitUssdResponse(s, id), n)
           /\ s.state = "awaiting_network_ussd_response"
                => Sound(s, TerminateNetworkUssd(s), n)
<1>1. Sound(s, s, n)
  BY StaySound DEF Kept, LegsKept
<1>2. s.state = "awaiting_mobile_ussd_host_response" =>
        Sound(s, Answer(s, "awaiting_supplementary_release_acknowledgement",
                        "supplementary_release_complete"), n)
  BY AnswerSound DEF Passage
<1>3. s.state = "awaiting_network_ussd_response" =>
        Sound(s, Answer(s, "awaiting_network_ussd_release_acknowledgement",
                        "supplementary_release_complete"), n)
  BY AnswerSound DEF Passage
<1> QED
  BY <1>1, <1>2, <1>3 DEF SubmitUssdResponse, TerminateNetworkUssd

LEMMA IncomingTerminationSound ==
    ASSUME NEW s \in SessionState, NEW n, Books(s, n),
           AdmitsIncomingTermination(s)
    PROVE  Sound(s, SubmitIncomingTermination(s), n)
  BY IncomingTerminationKept, ProgressSound
     DEF AdmitsIncomingTermination, Progressing

------------------------------------------------------------------------------
(* Paging and the waiting call *)

LEMMA PageSound ==
    ASSUME NEW s \in SessionState, NEW n, NEW service \in IncomingService,
           Books(s, n), s.state = "idle"
    PROVE  Sound(s, QueueIncomingPage(s, service), n)
<1> DEFINE continuing == s.incoming_service_completed
                           /\ s.incoming_service = service
           index == IF continuing THEN s.sms.delivery_index ELSE 0
           t == QueueIncomingPage(s, service)
<1>1. /\ t.state = "awaiting_paging_response"
      /\ t.cipher = s.cipher /\ t.outgoing = s.outgoing
      /\ LegsKept(s.call, t.call)
      /\ t.ussd = s.ussd /\ t.sms.request_pending = s.sms.request_pending
      /\ t.mobile_originated = s.mobile_originated
      /\ t.handover_target_arfcn = s.handover_target_arfcn
  BY DEF QueueIncomingPage, InState, SessionState, SmsState, CallState, LegsKept
<1> HIDE DEF t
<1>2. s.call.releasing_leg = NoLeg
  BY DEF Books, LegBooks
<1>3. /\ CipherBooks(t.state, t.cipher, n) /\ DecisionBooks(t.outgoing)
      /\ LegBooks(t.state, t.call)
  BY <1>1, <1>2, LegsKeptBooks DEF Books, CipherBooks
<1>4. RequestBooks(t) /\ ServiceBooks(t) /\ HandoverBooks(t)
  BY <1>1 DEF Books, RequestBooks, ServiceBooks, HandoverBooks
<1> QED
  BY <1>1, <1>3, <1>4, BooksSound DEF Books, t

LEMMA CancelSound ==
    ASSUME NEW s \in SessionState, NEW n, Books(s, n), s.state \in Unserved
    PROVE  Sound(s, CancelQueuedIncomingService(s), n)
<1> DEFINE t == CancelQueuedIncomingService(s)
<1>1. /\ t.state = "idle" /\ t.incoming_service = "none"
      /\ t.cipher = s.cipher /\ t.outgoing = s.outgoing /\ t.call = s.call
      /\ t.ussd = s.ussd /\ t.sms = s.sms
      /\ t.mobile_originated = s.mobile_originated
      /\ t.handover_target_arfcn = s.handover_target_arfcn
  BY DEF CancelQueuedIncomingService, Settle, ClearPendingDownlink, InState,
     SessionState
<1> HIDE DEF t
<1>2. Retired(s, t)
  BY <1>1 DEF Retired, Books, CipherBooks, DecisionBooks, LegBooks,
     RequestBooks, ServiceBooks
<1> QED
  BY <1>2, RetiredSound DEF t

LEMMA WaitingCallSound ==
    ASSUME NEW s \in SessionState, NEW n, NEW duplicate \in BOOLEAN, Books(s, n)
    PROVE  Sound(s, QueueWaitingCall(s, duplicate), n)
<1> DEFINE queued == [s EXCEPT !.call.waiting_queued = TRUE]
           first == AlertLeg(queued, 1, 1)
           from == IF duplicate THEN s ELSE first
           t == QueueDownlink(from, "incoming_call_setup", 1)
<1>1. /\ queued \in SessionState /\ Kept(s, queued) /\ queued.state = s.state
  BY DEF SessionState, CallState, Kept, LegsKept
<1> HIDE DEF queued
<1>2. 1 \in Leg /\ 1 \in Transaction
  BY DEF Leg
<1>3. /\ first \in SessionState /\ Kept(s, first) /\ first.state = s.state
  BY <1>1, <1>2, AlertedKept, AlertLegType, KeptTransitive
<1> HIDE DEF first
<1>4. from \in SessionState /\ Kept(s, from) /\ from.state = s.state
  BY <1>3 DEF Kept, LegsKept
<1> HIDE DEF from
<1>5. Kept(from, t) /\ t.state = from.state
  BY <1>4 DEF QueueDownlink, SessionState, Kept, LegsKept
<1> HIDE DEF t
<1>6. Sound(s, t, n)
  BY <1>4, <1>5, KeptTransitive, StaySound
<1> QED
  BY <1>6 DEF QueueWaitingCall, t, from, first, queued

LEMMA TakenSound ==
    ASSUME NEW s \in SessionState, NEW n, Books(s, n)
    PROVE  Sound(s, [s EXCEPT !.call.forwarded = FALSE], n)
<1> DEFINE t == [s EXCEPT !.call.forwarded = FALSE]
<1>1. Kept(s, t) /\ t.state = s.state
  BY DEF SessionState, CallState, Kept, LegsKept
<1> HIDE DEF t
<1>2. Sound(s, t, n)
  BY <1>1, StaySound
<1> QED
  BY <1>2 DEF t

------------------------------------------------------------------------------
(* What the radio peer tells the session *)

LEMMA MobileReleaseSound ==
    ASSUME NEW s \in SessionState, NEW n, Books(s, n)
    PROVE  Sound(s, MobileLinkReleaseAcknowledged(s), n)
<1> DEFINE ended == [s EXCEPT !.established = "none",
                              !.mobile_originated = "none",
                              !.sms.request_pending = FALSE,
                              !.sms.decision_accepted = FALSE,
                              !.sms.cp_data_acknowledged = FALSE,
                              !.sms.rp_acknowledged = FALSE,
                              !.sms.status_report_requested = FALSE]
           idle == Settle(ended, "idle")
           t == ClearDedicatedCipher(idle)
<1>1. /\ ended \in SessionState
      /\ ended.mobile_originated = "none" /\ ~ended.sms.request_pending
      /\ ended.cipher = s.cipher /\ ended.outgoing = s.outgoing
      /\ ended.call = s.call /\ ended.ussd = s.ussd
      /\ ended.incoming_service = s.incoming_service
      /\ ended.handover_target_arfcn = s.handover_target_arfcn
  BY DEF SessionState, SmsState, Originated
<1> HIDE DEF ended
<1>2. Kept(ended, idle) /\ idle.state = "idle"
  BY <1>1, MoveKept
<1>3. idle \in SessionState
  BY <1>1, SettledGood DEF Good
<1> HIDE DEF idle
<1>4. /\ t.state = "idle" /\ ~t.cipher.active /\ ~t.cipher.command_pending
      /\ t.outgoing = idle.outgoing /\ t.call = idle.call
      /\ t.ussd = idle.ussd /\ t.sms = idle.sms
      /\ t.incoming_service = idle.incoming_service
      /\ t.mobile_originated = idle.mobile_originated
      /\ t.handover_target_arfcn = idle.handover_target_arfcn
  BY <1>2, <1>3 DEF ClearDedicatedCipher, SessionState, CipherState
<1> HIDE DEF t
<1>5. ASSUME s.state = "awaiting_mobile_sms_timeout"
      PROVE  Sound(s, t, n)
  <2>1. /\ ~s.outgoing.request_pending /\ ~s.outgoing.decision_timer
        /\ ~s.outgoing.decision_accepted /\ ~s.ussd.request_pending
        /\ s.incoming_service # "call" /\ s.call.releasing_leg = NoLeg
    BY <1>5 DEF Books, DecisionBooks, LegBooks, RequestBooks, ServiceBooks
  <2>2. LegBooks("idle", t.call)
    BY <1>1, <1>2, <1>4, <2>1, LegsKeptBooks DEF Books, Kept
  <2>3. Retired(s, t)
    BY <1>1, <1>2, <1>4, <2>1, <2>2 DEF Retired, Kept
  <2> QED
    BY <1>5, <2>3, RetiredSound
<1>6. Sound(s, s, n)
  BY StaySound DEF Kept, LegsKept
<1> QED
  BY <1>5, <1>6 DEF MobileLinkReleaseAcknowledged, t, idle, ended

LEMMA RadioEntrySound ==
    ASSUME NEW s \in SessionState, NEW n, Books(s, n)
    PROVE  /\ Sound(s, MobileSmsSapi3Established(s), n)
           /\ s.state = "awaiting_traffic_assignment"
                => Sound(s, BeginTrafficAssignment(s), n)
<1> DEFINE submit == InState(s, "awaiting_mobile_sms_submit")
           assigned == Settle(s, "awaiting_assignment_complete")
<1>1. /\ Kept(s, submit) /\ submit.state = "awaiting_mobile_sms_submit"
      /\ Kept(s, assigned) /\ assigned.state = "awaiting_assignment_complete"
  BY MoveKept
<1> HIDE DEF submit, assigned
<1>2. s.state = "awaiting_mobile_sms_sapi3_establishment"
        => Sound(s, submit, n)
  BY <1>1, SubmissionSound
<1>3. s.state = "awaiting_traffic_assignment" => Sound(s, assigned, n)
  BY <1>1, ProgressSound DEF Progressing
<1>4. Sound(s, s, n)
  BY StaySound DEF Kept, LegsKept
<1> QED
  BY <1>2, <1>3, <1>4
     DEF MobileSmsSapi3Established, BeginTrafficAssignment, submit, assigned

LEMMA BeginHandoverSound ==
    ASSUME NEW s \in SessionState, NEW n, NEW target \in Cells, Books(s, n),
           s.state = "incoming_call_active"
    PROVE  Sound(s, BeginHandover(s, target), n)
<1> DEFINE t == BeginHandover(s, target)
<1>1. /\ t.state = HandoverState
      /\ t.handover_target_arfcn = target
      /\ t.cipher = s.cipher /\ t.outgoing = s.outgoing
      /\ t.call = s.call /\ t.ussd = s.ussd /\ t.sms = s.sms
      /\ t.incoming_service = s.incoming_service
      /\ t.mobile_originated = s.mobile_originated
  BY DEF BeginHandover, Answer, QueueDownlink, InState, SessionState
<1> HIDE DEF t
<1>2. /\ CipherBooks(t.state, t.cipher, n) /\ DecisionBooks(t.outgoing)
      /\ LegBooks(t.state, t.call)
  BY <1>1 DEF Books, CipherBooks, LegBooks
<1>3. RequestBooks(t) /\ ServiceBooks(t) /\ HandoverBooks(t)
  BY <1>1 DEF Books, RequestBooks, ServiceBooks, HandoverBooks
<1> QED
  BY <1>1, <1>2, <1>3, BooksSound DEF Books, t

\* A message queued or cleared moves no state and writes into no book.
LEMMA PendingSound ==
    ASSUME NEW s \in SessionState, NEW n, NEW kind, NEW ti, Books(s, n)
    PROVE  /\ Sound(s, ClearPendingDownlink(s), n)
           /\ Sound(s, QueueDownlink(s, kind, ti), n)
<1>1. /\ Kept(s, ClearPendingDownlink(s))
      /\ ClearPendingDownlink(s).state = s.state
      /\ Kept(s, QueueDownlink(s, kind, ti))
      /\ QueueDownlink(s, kind, ti).state = s.state
  BY DEF ClearPendingDownlink, QueueDownlink, SessionState, Kept, LegsKept
<1> QED
  BY <1>1, StaySound

------------------------------------------------------------------------------
(* The inductive invariant *)

Inv == IInv /\ Books(session, network)

\* The books read nothing of the network but whether it ciphers.
LEMMA NetworkBooks ==
    ASSUME NEW s, NEW n, NEW other, Books(s, n), other.ciphered = n.ciphered
    PROVE  Books(s, other)
  BY DEF Books, CipherBooks

LEMMA ServingKeepsCipher ==
    ASSUME NEW n \in Network, NEW m
    PROVE  ServeForwarding(n, m).ciphered = n.ciphered
  BY DEF ServeForwarding, Network

LEMMA LinkSound ==
    ASSUME Inv,
           \/ \E request \in Establishment, arfcn \in Cells :
                Establish(request, arfcn)
           \/ ContentionResolved \/ Transmit \/ MoveToTraffic
           \/ TrafficEstablished \/ HandsetEstablishesSapi3
           \/ HandsetDisconnectsLink \/ ReleaseConfigured
    PROVE  Sound(session, session', network) /\ network' = network
<1>1. /\ session \in SessionState /\ network \in Network
      /\ Books(session, network)
  BY DEF Inv, IInv, Good
<1>2. Sound(session, session, network)
  BY <1>1, StaySound DEF Kept, LegsKept
<1>3. CASE \E request \in Establishment, arfcn \in Cells :
             Establish(request, arfcn)
  BY <1>1, <1>3, EstablishSound DEF Establish
<1>4. CASE ContentionResolved
  BY <1>1, <1>4, ContentionSound DEF ContentionResolved
<1>5. CASE Transmit \/ TrafficEstablished
  BY <1>2, <1>5 DEF Transmit, TrafficEstablished
<1>6. CASE MoveToTraffic
  BY <1>1, <1>6, RadioEntrySound DEF MoveToTraffic
<1>7. CASE HandsetEstablishesSapi3
  BY <1>1, <1>7, RadioEntrySound DEF HandsetEstablishesSapi3
<1>8. CASE HandsetDisconnectsLink
  BY <1>1, <1>8, MobileReleaseSound DEF HandsetDisconnectsLink
<1>9. CASE ReleaseConfigured
  BY <1>1, <1>9, DownlinkAcknowledgedSound DEF ReleaseConfigured
<1> QED
  BY <1>3, <1>4, <1>5, <1>6, <1>7, <1>8, <1>9

LEMMA MessageSound ==
    ASSUME Inv,
           \/ \E sapi \in Sapis : Acknowledge(sapi)
           \/ \E m \in HandsetMessage : Receive(m)
           \/ LinkFailed \/ Reset
    PROVE  /\ Sound(session, session', network)
           /\ network'.ciphered = network.ciphered
<1>1. /\ session \in SessionState /\ network \in Network
      /\ Books(session, network) /\ Good(session)
  BY DEF Inv, IInv, Good
<1>2. CASE \E sapi \in Sapis : Acknowledge(sapi)
  BY <1>1, <1>2, DownlinkAcknowledgedSound DEF Acknowledge
<1>3. CASE \E m \in HandsetMessage : Receive(m)
  <2>1. PICK m \in HandsetMessage : Receive(m)
    BY <1>3
  <2>2. Sound(session, session', network)
    BY <1>1, <2>1, ReceiveLayer3Sound DEF Receive
  <2>3. network'.ciphered = network.ciphered
    BY <1>1, <2>1, ServingKeepsCipher DEF Receive
  <2> QED
    BY <2>2, <2>3
<1>4. CASE LinkFailed
  BY <1>1, <1>4, ResetBooks DEF LinkFailed, RadioLinkFailed
<1>5. CASE Reset
  BY <1>1, <1>5, ResetBooks DEF Reset
<1> QED
  BY <1>2, <1>3, <1>4, <1>5

LEMMA HostSound ==
    ASSUME Inv,
           \/ \E service \in IncomingService : Page(service)
           \/ Cancel
           \/ \E duplicate \in BOOLEAN : WaitingCall(duplicate)
           \/ HostDecision \/ TakeIncomingForwarded \/ Timers \/ Handover
    PROVE  Sound(session, session', network) /\ network' = network
<1>1. /\ session \in SessionState /\ network \in Network
      /\ Books(session, network)
      /\ session.outgoing.request_id \in RequestId
  BY DEF Inv, IInv, Good, SessionState, OutgoingState
<1>2. CASE \E service \in IncomingService : Page(service)
  BY <1>1, <1>2, PageSound DEF Page, Host
<1>3. CASE Cancel
  BY <1>1, <1>3, CancelSound DEF Cancel, Host
<1>4. CASE \E duplicate \in BOOLEAN : WaitingCall(duplicate)
  BY <1>1, <1>4, WaitingCallSound DEF WaitingCall, Host
<1>5. CASE HostDecision
  <2>1. /\ \A outcome \in CallOutcome :
             Sound(session,
                   SubmitOutgoingDecision(session, session.outgoing.request_id,
                                          outcome), network)
        /\ Sound(session,
                 SubmitOutgoingTermination(session,
                                           session.outgoing.request_id), network)
        /\ \A outcome \in SmsOutcome :
             Sound(session,
                   SubmitOutgoingSmsDecision(session, session.sms.request_id,
                                             outcome), network)
        /\ Sound(session, SubmitUssdResponse(session, session.ussd.request_id),
                 network)
    BY <1>1, SubmitDecisionSound, OutgoingTerminationSound, SmsDecisionSound,
       UssdResponseSound
  <2>2. /\ AdmitsIncomingTermination(session) =>
             Sound(session, SubmitIncomingTermination(session), network)
        /\ session.state = "awaiting_network_ussd_response" =>
             Sound(session, TerminateNetworkUssd(session), network)
    BY <1>1, IncomingTerminationSound, UssdResponseSound
  <2>3. PICK s : Sound(session, s, network) /\ Host(s)
    BY <1>5, <2>1, <2>2 DEF HostDecision
  <2> QED
    BY <2>3 DEF Host
<1>6. CASE TakeIncomingForwarded
  BY <1>1, <1>6, TakenSound DEF TakeIncomingForwarded, Host
<1>7. CASE Timers
  BY <1>1, <1>7, NoReplyTimerSound, DecisionTimerSound DEF Timers, Host
<1>8. CASE Handover
  BY <1>1, <1>8, BeginHandoverSound, HandoverEndedSound, PendingSound
     DEF Handover, Host
<1> QED
  BY <1>2, <1>3, <1>4, <1>5, <1>6, <1>7, <1>8

LEMMA StepSound ==
    ASSUME Inv, scenario \in Scenarios, Next
    PROVE  /\ Sound(session, session', network)
           /\ network'.ciphered = network.ciphered
<1>1. /\ scenario.establishments \subseteq Establishment
      /\ scenario.services \subseteq IncomingService
      /\ scenario.cells \subseteq Cells
  BY TrafficAssumption
<1>2. HandsetMessages \subseteq HandsetMessage
  BY TrafficAssumption DEF HandsetMessages, HandsetMessage
<1> QED
  BY <1>1, <1>2, LinkSound, MessageSound, HostSound DEF Next

LEMMA StepInvBooks ==
    ASSUME Inv, scenario \in Scenarios, [Next]_vars
    PROVE  Inv' /\ Sound(session, session', network)
<1>1. IInv'
  BY NextInv DEF Inv
<1>2. CASE UNCHANGED vars
  <2>1. session' = session /\ network' = network
    BY <1>2 DEF vars
  <2>2. Sound(session, session, network)
    BY StaySound DEF Inv, Kept, LegsKept
  <2> QED
    BY <1>1, <2>1, <2>2 DEF Inv
<1>3. CASE Next
  <2>1. /\ Sound(session, session', network)
        /\ network'.ciphered = network.ciphered
    BY <1>3, StepSound
  <2>2. Books(session', network')
    BY <2>1, NetworkBooks DEF Sound
  <2> QED
    BY <1>1, <2>1, <2>2 DEF Inv
<1> QED
  BY <1>2, <1>3

LEMMA InitBooks == Init => Inv
<1> SUFFICES ASSUME Init PROVE Inv
  OBVIOUS
<1>1. PICK arfcn \in Cells : session = DeviceReset(FALSE, arfcn, "accept")
  BY TrafficAssumption DEF Init
<1>2. Books(session, network)
  BY <1>1, DeviceResetBooks
<1> QED
  BY <1>2, InitInv DEF Inv

LEMMA SpecBooks == Spec => [](Inv /\ scenario \in Scenarios)
<1>1. Init => Inv /\ scenario \in Scenarios
  BY InitBooks DEF Init
<1>2. Inv /\ scenario \in Scenarios /\ [Next]_vars
        => Inv' /\ (scenario \in Scenarios)'
  BY StepInvBooks DEF Next, vars
<1> QED
  BY <1>1, <1>2, PTL DEF Spec

------------------------------------------------------------------------------
(* The theorems *)

(* On a ciphered network no service message is queued before the handset   *)
(* completed Cipher Mode with an authenticated key, whichever way the      *)
(* connection was established and whatever crosses the command; and the    *)
(* cipher is off again when the transaction ends (begin_cipher_mode,       *)
(* receive_cipher_mode_complete, clear_dedicated_cipher).                  *)
THEOREM CipherCorrect == Spec => []CipherBeforeService
<1>1. Inv => CipherBeforeService
  <2> SUFFICES ASSUME Inv PROVE CipherBeforeService
    OBVIOUS
  <2>1. session.pending.kind \in PendingKinds[session.state]
    BY DEF Inv, IInv, Good
  <2>2. session.state \in Signalling
          => session.pending.kind \in Unciphered
    BY <2>1 DEF PendingKinds, Unciphered
  <2>3. CipherBooks(session.state, session.cipher, network)
    BY DEF Inv, Books
  <2> QED
    BY <2>2, <2>3 DEF CipherBeforeService, CipherBooks
<1> QED
  BY <1>1, SpecBooks, PTL

(* A decision in force always belongs to the request in progress: one the  *)
(* host took for an earlier call of the connection is forgotten before the *)
(* next request takes a new identifier (request_outgoing_decision).        *)
THEOREM DecisionCurrent == Spec => []DecisionBelongsToRequest
<1>1. Inv => DecisionBelongsToRequest
  BY DEF Inv, Books, DecisionBooks, DecisionBelongsToRequest
<1> QED
  BY <1>1, SpecBooks, PTL

(* No step replaces the decision about a request, the host's second answer *)
(* and the decision timer included (submit_outgoing_decision).             *)
THEOREM DecisionFinal == Spec => DecisionIsFinal
<1>1. Inv /\ scenario \in Scenarios /\ [Next]_vars
        => ((/\ session.outgoing.decision_accepted
             /\ session'.outgoing.decision_accepted
             /\ session'.outgoing.request_id = session.outgoing.request_id)
              => session'.outgoing.decision = session.outgoing.decision)
  BY StepInvBooks DEF Sound
<1> QED
  BY <1>1, SpecBooks, PTL DEF Spec, DecisionIsFinal

(* A session that is idle has no request left for a late host answer or    *)
(* timer to act on, whichever of acknowledgement, DISC, failure, paging    *)
(* cancellation and reset ended its transaction.                           *)
THEOREM IdleClean == Spec => []IdleOwesNothing
<1>1. Inv => IdleOwesNothing
  BY DEF Inv, Books, RequestBooks, IdleOwesNothing
<1> QED
  BY <1>1, SpecBooks, PTL

(* A leg is being released only in the state its CC release awaits the     *)
(* acknowledgement in, and it is live; and a conference joins two live     *)
(* legs (release_call_leg, acknowledge_call_release, begin_multiparty).    *)
THEOREM LegsCorrect == Spec => []LegsAgree
<1>1. Inv => LegsAgree
  <2> SUFFICES ASSUME Inv PROVE LegsAgree
    OBVIOUS
  <2>1. LegBooks(session.state, session.call)
    BY DEF Inv, Books
  <2>2. Live(session.call.leg_states) = LiveLegs(session)
    BY DEF Live, LiveLegs
  <2> QED
    BY <2>1, <2>2
       DEF LegBooks, LegsAgree, ReleasingLegIsLive, ConferenceJoinsTwo
<1> QED
  BY <1>1, SpecBooks, PTL

(* When the handset disconnects one leg of two, RR is released only once   *)
(* no leg is live: the acknowledgement of the CC release keeps the channel *)
(* for the survivor, and no other step intervenes.                         *)
THEOREM SurvivorKept == Spec => HandsetKeepsSurvivor
<1>1. Inv /\ scenario \in Scenarios /\ [Next]_vars
        => (session.call.releasing_leg # NoLeg
              /\ session'.pending.kind = "channel_release"
              => LiveLegs(session') = {})
  <2> SUFFICES ASSUME Inv, scenario \in Scenarios, [Next]_vars,
                      session.call.releasing_leg # NoLeg,
                      session'.pending.kind = "channel_release"
               PROVE  LiveLegs(session') = {}
    OBVIOUS
  <2>1. Inv' /\ Sound(session, session', network)
    BY StepInvBooks
  <2>2. session'.pending.kind \in PendingKinds[session'.state]
          /\ session'.state \in State
    BY <2>1 DEF Inv, IInv, Good, SessionState
  <2>3. session'.state = Releasing
    BY <2>2 DEF PendingKinds, State
  <2>4. Live(session'.call.leg_states) = LiveLegs(session')
    BY DEF Live, LiveLegs
  <2> QED
    BY <2>1, <2>3, <2>4 DEF Sound
<1> QED
  BY <1>1, SpecBooks, PTL DEF Spec, HandsetKeepsSurvivor

(* The handover target is set exactly while the handover's result is       *)
(* awaited: a result is only ever taken with a cell to move to, and a      *)
(* target never outlives its handover (begin_handover, handover_ended).    *)
THEOREM HandoverTargetKnown == Spec => []HandoverHasTarget
<1>1. Inv => HandoverHasTarget
  BY DEF Inv, Books, HandoverBooks, HandoverHasTarget
<1> QED
  BY <1>1, SpecBooks, PTL
==============================================================================
