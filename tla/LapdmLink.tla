------------------------------ MODULE LapdmLink ------------------------------
(***************************************************************************)
(* The network-side LAPDm entity, nokia_lapdm_link_device.                 *)
(*                                                                         *)
(* The device is passive: the radio peer calls receive_uplink for a block  *)
(* of the handset, a build_* function for a block it sends, and            *)
(* advance_frame once per TDMA frame.  Each call is an operator from the   *)
(* device's state (a record, the fields named as the members without m_)   *)
(* to its outcome, so that the radio peer can chain the calls of one       *)
(* handler.  The state machine below makes the calls one at a time, in any *)
(* order the caller's contract allows.                                     *)
(*                                                                         *)
(* A frame is a record; its information field is a sequence of at most one *)
(* segment, a segment standing for up to maximum_information_length        *)
(* octets.  A block that is no frame the device parses has kind "other".   *)
(***************************************************************************)
EXTENDS Naturals, Sequences

CONSTANTS
    LinkCount,    \* link_count, the SAPIs the device keeps state for
    SeqModulus,   \* sequence numbers are taken & 0x07
    T200,         \* t200_control_frames
    N200,         \* n200_control_attempts
    MaxLayer3,    \* maximum_layer3_length, in segments
    Segment,      \* the contents a segment can have
    PollBits      \* the values the P bit of an uplink I frame takes

ASSUME LapdmAssumption ==
    /\ LinkCount \in Nat \ {0}
    /\ SeqModulus \in Nat /\ SeqModulus > 1
    /\ T200 \in Nat /\ T200 > 1
    /\ N200 \in Nat \ {0}
    /\ MaxLayer3 \in Nat \ {0}
    /\ PollBits \subseteq BOOLEAN

Sapi == 0 .. LinkCount - 1
SeqNumber == 0 .. SeqModulus - 1
\* Mutant of Successor: the mask forgotten.
UnmaskedSuccessor(n) == n + 1
Successor(n) == (n + 1) % SeqModulus

Information == {<<>>} \cup {<<x>> : x \in Segment}

------------------------------------------------------------------------------
(* Frames *)

Frame(kind, s, ns, nr, more, final, info) ==
    [kind |-> kind, sapi |-> s, ns |-> ns, nr |-> nr, more |-> more,
     final |-> final, info |-> info]

Fill == Frame("fill", 0, 0, 0, FALSE, FALSE, <<>>)

Sabm(s, info) == Frame("SABM", s, 0, 0, FALSE, TRUE, info)
Ua(s, info)   == Frame("UA", s, 0, 0, FALSE, TRUE, info)
Disc(s)       == Frame("DISC", s, 0, 0, FALSE, TRUE, <<>>)
Rr(s, nr, final) == Frame("RR", s, 0, nr, FALSE, final, <<>>)
IFrame(s, ns, nr, more, final, info) ==
    Frame("I", s, ns, nr, more, final, info)
Ui(s, info)   == Frame("UI", s, 0, 0, FALSE, FALSE, info)

SabmBlock == {Sabm(s, info) : s \in Sapi, info \in Information}
UaBlock   == {Ua(s, <<>>) : s \in Sapi}
DiscBlock == {Disc(s) : s \in Sapi}
RrBlock   ==
    [kind : {"RR"}, sapi : Sapi, ns : {0}, nr : SeqNumber,
     more : {FALSE}, final : {FALSE}, info : {<<>>}]
InformationBlock ==
    [kind : {"I"}, sapi : Sapi, ns : SeqNumber, nr : SeqNumber,
     more : BOOLEAN, final : PollBits, info : Information]
OtherBlock == Frame("other", 0, 0, 0, FALSE, FALSE, <<>>)

UplinkFrame ==
    SabmBlock \cup UaBlock \cup DiscBlock \cup RrBlock
      \cup InformationBlock \cup {OtherBlock}

Content == {info \in Seq(Segment) : Len(info) <= MaxLayer3}

DownlinkFrame ==
    [kind : {"fill", "SABM", "UA", "RR", "I", "UI"}, sapi : Sapi,
     ns : SeqNumber, nr : SeqNumber, more : BOOLEAN, final : BOOLEAN,
     info : Content]

UplinkResult ==
    {"ignored", "establish_indication", "establish_confirmation",
     "release_indication", "downlink_acknowledgement",
     "information_segment", "information_indication"}

ExpiryKind ==
    {"none", "retransmission", "establishment_failure",
     "acknowledgement_failure", "reassembly_failure"}

------------------------------------------------------------------------------
(* State *)

LinkState ==
    [established : BOOLEAN,
     mobile_establishment_expected : BOOLEAN,
     awaiting_establishment : BOOLEAN,
     downlink_segmentation_pending : BOOLEAN,
     downlink_acknowledgement_pending : BOOLEAN,
     uplink_final_response_pending : BOOLEAN,
     downlink_send_sequence : SeqNumber,
     next_uplink_receive_sequence : SeqNumber,
     pending_receive_sequence : SeqNumber,
     transaction_frames : 0 .. T200,
     transaction_attempts : 0 .. N200,
     retransmission_pending : BOOLEAN,
     last_downlink_frame : DownlinkFrame]

LapdmState ==
    [link : [Sapi -> LinkState],
     sapi : Sapi,
     layer3_information : Content,
     layer3_more_data : BOOLEAN,
     uplink_segmentation_active : BOOLEAN,
     reassembly_frames : 0 .. T200,
     last_downlink_acknowledged : BOOLEAN]

IdleLink ==
    [established |-> FALSE,
     mobile_establishment_expected |-> FALSE,
     awaiting_establishment |-> FALSE,
     downlink_segmentation_pending |-> FALSE,
     downlink_acknowledgement_pending |-> FALSE,
     uplink_final_response_pending |-> FALSE,
     downlink_send_sequence |-> 0,
     next_uplink_receive_sequence |-> 0,
     pending_receive_sequence |-> 0,
     transaction_frames |-> 0,
     transaction_attempts |-> 0,
     retransmission_pending |-> FALSE,
     last_downlink_frame |-> Fill]

LapdmReset ==
    [link |-> [s \in Sapi |-> IdleLink],
     sapi |-> 0,
     layer3_information |-> <<>>,
     layer3_more_data |-> FALSE,
     uplink_segmentation_active |-> FALSE,
     reassembly_frames |-> 0,
     last_downlink_acknowledged |-> FALSE]

(* Helpers on the state of one SAPI *)

ClearTransaction(c) ==
    [c EXCEPT !.transaction_frames = 0,
              !.transaction_attempts = 0,
              !.retransmission_pending = FALSE]

ArmTransaction(c, frame) ==
    [c EXCEPT !.last_downlink_frame = frame,
              !.transaction_frames = T200,
              !.transaction_attempts = 1,
              !.retransmission_pending = FALSE]

ClearLink(c) ==
    [ClearTransaction(c) EXCEPT
        !.established = FALSE,
        !.awaiting_establishment = FALSE,
        !.downlink_segmentation_pending = FALSE,
        !.downlink_acknowledgement_pending = FALSE,
        !.uplink_final_response_pending = FALSE]

\* What SABM in either direction and begin_mobile_establishment start from.
RestartedLink(c) ==
    [ClearLink(c) EXCEPT
        !.downlink_send_sequence = 0,
        !.next_uplink_receive_sequence = 0,
        !.pending_receive_sequence = 0]

SetLink(l, s, c) == [l EXCEPT !.link[s] = c]

\* Mutant of HoldInformation: the reassembly and its timer go on.
HoldDuringReassembly(l, s, info) ==
    [l EXCEPT !.sapi = s,
              !.layer3_information = info,
              !.layer3_more_data = FALSE]

\* The information field of a frame that ends whatever was being reassembled.
HoldInformation(l, s, info) ==
    [l EXCEPT !.sapi = s,
              !.layer3_information = info,
              !.layer3_more_data = FALSE,
              !.uplink_segmentation_active = FALSE,
              !.reassembly_frames = 0]

------------------------------------------------------------------------------
(* receive_uplink: the outcome is the new state and the uplink_result *)

Outcome(l, result) == [lapdm |-> l, result |-> result]

AcceptsSabm(c, f) ==
    \/ c.mobile_establishment_expected
    \/ f.sapi = 0 /\ f.info # <<>>

ReceiveSabm(l, f) ==
    LET c == l.link[f.sapi]
        fresh == [RestartedLink(c) EXCEPT !.mobile_establishment_expected = FALSE]
    IN  Outcome(SetLink(HoldInformation(l, f.sapi, f.info), f.sapi, fresh),
                "establish_indication")

ReceiveUa(l, f) ==
    LET c == [ClearTransaction(l.link[f.sapi]) EXCEPT
                !.established = TRUE, !.awaiting_establishment = FALSE]
    IN  Outcome(SetLink([l EXCEPT !.sapi = f.sapi], f.sapi, c),
                "establish_confirmation")

ReceiveDisc(l, f) ==
    LET was == l.link[f.sapi]
        c == [ClearLink(was) EXCEPT
                !.awaiting_establishment = was.awaiting_establishment]
    IN  Outcome(SetLink(HoldInformation(l, f.sapi, <<>>), f.sapi, c),
                "release_indication")

AcknowledgesDownlink(c, f) ==
    c.downlink_acknowledgement_pending /\ f.nr = c.pending_receive_sequence

\* Mutant of TakeAcknowledgement: T200 keeps running.
AcknowledgeUnderTimer(l, f) ==
    IF AcknowledgesDownlink(l.link[f.sapi], f)
    THEN [l EXCEPT !.link[f.sapi].downlink_acknowledgement_pending = FALSE,
                   !.sapi = f.sapi, !.last_downlink_acknowledged = TRUE]
    ELSE l

\* Clears the transaction N(R) acknowledges, if it does.
TakeAcknowledgement(l, f) ==
    LET c == l.link[f.sapi]
        freed == [ClearTransaction(c) EXCEPT
                    !.downlink_acknowledgement_pending = FALSE]
    IN  IF AcknowledgesDownlink(c, f)
        THEN [SetLink(l, f.sapi, freed) EXCEPT
                !.sapi = f.sapi, !.last_downlink_acknowledged = TRUE]
        ELSE l

InSequence(c, f) ==
    f.kind = "I" /\ f.ns = c.next_uplink_receive_sequence

\* The buffer the segment is appended to: one for all SAPIs.
ReassemblyBase(l) ==
    IF l.uplink_segmentation_active THEN l.layer3_information ELSE <<>>

OverflowsReassembly(l, f) ==
    Len(ReassemblyBase(l)) + Len(f.info) > MaxLayer3

\* The early return on overflow keeps V(R) and never looks at N(R).
DropReassembly(l, f) ==
    [l EXCEPT !.sapi = f.sapi,
              !.layer3_information = <<>>,
              !.uplink_segmentation_active = FALSE]

\* Mutant of AppendSegment: the first segment does not start the timer.
AppendUntimed(l, f) ==
    LET c == [l.link[f.sapi] EXCEPT
                !.next_uplink_receive_sequence = Successor(@),
                !.uplink_final_response_pending = f.final]
    IN  [SetLink(l, f.sapi, c) EXCEPT
            !.sapi = f.sapi,
            !.layer3_information = ReassemblyBase(l) \o f.info,
            !.layer3_more_data = f.more,
            !.uplink_segmentation_active = f.more,
            !.reassembly_frames = IF f.more THEN @ ELSE 0]

AppendSegment(l, f) ==
    LET c == [l.link[f.sapi] EXCEPT
                !.next_uplink_receive_sequence = Successor(@),
                !.uplink_final_response_pending = f.final]
    IN  [SetLink(l, f.sapi, c) EXCEPT
            !.sapi = f.sapi,
            !.layer3_information = ReassemblyBase(l) \o f.info,
            !.layer3_more_data = f.more,
            !.uplink_segmentation_active = f.more,
            !.reassembly_frames = IF f.more THEN T200 ELSE 0]

ReceiveInformation(l, f) ==
    IF OverflowsReassembly(l, f)
    THEN Outcome(DropReassembly(l, f), "ignored")
    ELSE Outcome(TakeAcknowledgement(AppendSegment(l, f), f),
                 IF f.more THEN "information_segment"
                           ELSE "information_indication")

\* RR, or an I frame whose N(S) is not the expected one: only N(R) counts.
ReceiveSupervisory(l, f) ==
    Outcome(TakeAcknowledgement(l, f),
            IF AcknowledgesDownlink(l.link[f.sapi], f)
            THEN "downlink_acknowledgement" ELSE "ignored")

ReceiveUplink(was, f) ==
    LET l == [was EXCEPT !.last_downlink_acknowledged = FALSE]
        c == l.link[f.sapi]
    IN  CASE f.kind = "SABM" /\ AcceptsSabm(c, f) -> ReceiveSabm(l, f)
          [] f.kind = "UA" /\ c.awaiting_establishment -> ReceiveUa(l, f)
          [] f.kind = "DISC" /\ c.established -> ReceiveDisc(l, f)
          [] f.kind \in {"RR", "I"} /\ c.established /\ InSequence(c, f)
               -> ReceiveInformation(l, f)
          [] f.kind \in {"RR", "I"} /\ c.established /\ ~InSequence(c, f)
               -> ReceiveSupervisory(l, f)
          [] OTHER -> Outcome(l, "ignored")

------------------------------------------------------------------------------
(* Downlink: the outcome is the new state and the frame to send *)

Sending(l, frame) == [lapdm |-> l, frame |-> frame]

BeginMobileEstablishment(l, s) ==
    SetLink(l, s, [RestartedLink(l.link[s]) EXCEPT
                     !.mobile_establishment_expected = TRUE])

BuildUa(l) ==
    LET s == l.sapi
        c == [l.link[s] EXCEPT !.established = TRUE,
                               !.downlink_segmentation_pending = FALSE,
                               !.downlink_acknowledgement_pending = FALSE]
    IN  Sending(SetLink(l, s, c), Ua(s, l.layer3_information))

BuildReleaseUa(l) == Sending(l, Ua(l.sapi, <<>>))

BuildSabmCommand(l, s) ==
    LET frame == Sabm(s, <<>>)
        c == [RestartedLink(l.link[s]) EXCEPT !.awaiting_establishment = TRUE]
    IN  Sending(SetLink(l, s, ArmTransaction(c, frame)), frame)

BuildReceiveReady(l, s) ==
    LET c == l.link[s]
        frame == Rr(s, c.next_uplink_receive_sequence,
                    c.uplink_final_response_pending)
    IN  IF c.established
        THEN Sending(SetLink(l, s,
               [c EXCEPT !.uplink_final_response_pending = FALSE]), frame)
        ELSE Sending(l, Fill)

\* Mutant of BuildInformationFrame: it does not look for an outstanding frame.
BuildOverOutstanding(l, s, info, more) ==
    LET c == l.link[s]
        frame == IFrame(s, c.downlink_send_sequence,
                        c.next_uplink_receive_sequence, more, FALSE, info)
        sent == [c EXCEPT
                   !.downlink_send_sequence = Successor(@),
                   !.pending_receive_sequence =
                        Successor(c.downlink_send_sequence),
                   !.downlink_segmentation_pending = more,
                   !.downlink_acknowledgement_pending = TRUE]
    IN  IF c.established
        THEN Sending(SetLink(l, s, ArmTransaction(sent, frame)), frame)
        ELSE Sending(l, Fill)

BuildInformationFrame(l, s, info, more) ==
    LET c == l.link[s]
        frame == IFrame(s, c.downlink_send_sequence,
                        c.next_uplink_receive_sequence, more, FALSE, info)
        sent == [c EXCEPT
                   !.downlink_send_sequence = Successor(@),
                   !.pending_receive_sequence =
                        Successor(c.downlink_send_sequence),
                   !.downlink_segmentation_pending = more,
                   !.downlink_acknowledgement_pending = TRUE]
    IN  IF c.established /\ ~c.downlink_acknowledgement_pending
        THEN Sending(SetLink(l, s, ArmTransaction(sent, frame)), frame)
        ELSE Sending(l, Fill)

BuildUiFrame(l, s, info) == Sending(l, Ui(s, info))

RetransmissionPending(l) == \E s \in Sapi : l.link[s].retransmission_pending

TakeRetransmission(l) ==
    LET s == CHOOSE s \in Sapi :
               /\ l.link[s].retransmission_pending
               /\ \A r \in 0 .. s - 1 : ~l.link[r].retransmission_pending
    IN  IF RetransmissionPending(l)
        THEN Sending([l EXCEPT !.link[s].retransmission_pending = FALSE],
                     l.link[s].last_downlink_frame)
        ELSE Sending(l, Fill)

------------------------------------------------------------------------------
(* advance_frame: the outcome is the new state, an expiry_kind and a SAPI *)

Expiry(l, kind, s) == [lapdm |-> l, kind |-> kind, sapi |-> s]

ReassemblyExpires(l) ==
    l.uplink_segmentation_active /\ l.reassembly_frames = 1

TransactionExpires(l, s) == l.link[s].transaction_frames = 1

\* The SAPI the loop returns at, LinkCount when it runs to its end.
FirstExpiry(l) ==
    CHOOSE s \in 0 .. LinkCount :
      /\ s \in Sapi => TransactionExpires(l, s)
      /\ \A r \in Sapi : r < s => ~TransactionExpires(l, r)

TickReassembly(l) ==
    IF l.uplink_segmentation_active /\ l.reassembly_frames > 0
    THEN [l EXCEPT !.reassembly_frames = @ - 1] ELSE l

\* Counts down the transactions the loop visits before it returns at upto.
TickTransactions(l, upto) ==
    [l EXCEPT !.link =
       [s \in Sapi |->
          IF s < upto /\ l.link[s].transaction_frames > 0
          THEN [l.link[s] EXCEPT !.transaction_frames = @ - 1]
          ELSE l.link[s]]]

ExpireTransaction(l, s) ==
    LET c == l.link[s]
        again == [c EXCEPT !.transaction_attempts = @ + 1,
                           !.transaction_frames = T200,
                           !.retransmission_pending = TRUE]
    IN  IF c.transaction_attempts < N200
        THEN Expiry(SetLink(l, s, again), "retransmission", s)
        ELSE Expiry(SetLink(l, s, ClearLink(c)),
                    IF c.awaiting_establishment THEN "establishment_failure"
                                                ELSE "acknowledgement_failure",
                    s)

\* Mutant of AdvanceFrame: the reassembly failure is reported, not cleared.
AdvanceReportingOnly(l) ==
    LET s == FirstExpiry(l)
        ticked == TickTransactions(TickReassembly(l), s)
    IN  IF ReassemblyExpires(l)
        THEN Expiry(l, "reassembly_failure", l.sapi)
        ELSE IF s \in Sapi THEN ExpireTransaction(ticked, s)
             ELSE Expiry(ticked, "none", 0)

AdvanceFrame(l) ==
    LET s == FirstExpiry(l)
        ticked == TickTransactions(TickReassembly(l), s)
    IN  IF ReassemblyExpires(l)
        THEN Expiry(HoldInformation(l, l.sapi, <<>>), "reassembly_failure", l.sapi)
        ELSE IF s \in Sapi THEN ExpireTransaction(ticked, s)
             ELSE Expiry(ticked, "none", 0)

------------------------------------------------------------------------------
(* The device under any caller that keeps the contract of the radio peer:  *)
(* after an establish_indication no uplink block and no builder is invoked *)
(* before the report that carries the UA (or a retransmission in its       *)
(* place) has gone out.                                                    *)

VARIABLES
    lapdm,   \* the device
    ua_due   \* the SABM whose UA has not had its report yet, or Fill

vars == <<lapdm, ua_due>>

Init == lapdm = LapdmReset /\ ua_due = Fill

Uplink(f) ==
    /\ ua_due = Fill
    /\ LET o == ReceiveUplink(lapdm, f)
       IN  /\ lapdm' = o.lapdm
           /\ ua_due' = IF o.result = "establish_indication" THEN f ELSE Fill

Downlink(sending) ==
    /\ ua_due = Fill
    /\ lapdm' = sending.lapdm
    /\ UNCHANGED ua_due

SendUa ==
    /\ ua_due # Fill
    /\ lapdm' = BuildUa(lapdm).lapdm
    /\ ua_due' = Fill

Expect(s) ==
    /\ ua_due = Fill
    /\ lapdm' = BeginMobileEstablishment(lapdm, s)
    /\ UNCHANGED ua_due

SendSabm(s) == Downlink(BuildSabmCommand(lapdm, s))
SendReceiveReady(s) == Downlink(BuildReceiveReady(lapdm, s))
SendInformation(s, info, more) ==
    Downlink(BuildInformationFrame(lapdm, s, info, more))

\* A report due for anything else, a UA included, carries take_retransmission:
\* a fill when the transaction was acknowledged in the meantime.
Retransmit ==
    /\ lapdm' = TakeRetransmission(lapdm).lapdm
    /\ ua_due' = Fill

Tick ==
    LET e == AdvanceFrame(lapdm)
    IN  /\ lapdm' = e.lapdm
        /\ UNCHANGED ua_due

Next ==
    \/ \E f \in UplinkFrame : Uplink(f)
    \/ \E s \in Sapi : Expect(s) \/ SendSabm(s) \/ SendReceiveReady(s)
    \/ \E s \in Sapi, info \in Information, more \in BOOLEAN :
          SendInformation(s, info, more)
    \/ SendUa
    \/ Retransmit
    \/ Tick

Spec == Init /\ [][Next]_vars

\* The burst timer calls advance_frame on every TDMA frame.
FairSpec == Spec /\ WF_vars(Tick)

------------------------------------------------------------------------------
(* Properties *)

\* Types: every field stays in the range its C++ member has.
TypeOK ==
    /\ lapdm \in LapdmState
    /\ ua_due \in UplinkFrame \cup {Fill}

Outstanding(c) ==
    c.downlink_acknowledgement_pending \/ c.awaiting_establishment

\* The window is one frame and a timer guards it: T200 runs exactly while an
\* I frame or a SABM waits for its answer, the answer waited for is the last
\* number sent, only an established link has an I frame out and only a link
\* that is down has a SABM out (lines 64-201, 283-365).
TransactionOK(c) ==
    /\ Outstanding(c) <=> c.transaction_frames > 0
    /\ Outstanding(c) <=> c.transaction_attempts > 0
    /\ c.retransmission_pending => Outstanding(c)
    /\ c.downlink_acknowledgement_pending =>
          /\ c.established
          /\ c.pending_receive_sequence = c.downlink_send_sequence
          /\ c.last_downlink_frame.kind = "I"
          /\ c.pending_receive_sequence = Successor(c.last_downlink_frame.ns)
    /\ c.awaiting_establishment =>
          /\ ~c.established
          /\ c.last_downlink_frame.kind = "SABM"

TransactionInv == \A s \in Sapi : TransactionOK(lapdm.link[s])

\* Contention resolution: the UA names the SAPI and echoes the information
\* field of the SABM it answers, whatever frames and timers pass in between.
UaEchoesSabm ==
    ua_due # Fill => /\ lapdm.sapi = ua_due.sapi
                     /\ lapdm.layer3_information = ua_due.info

\* A reassembly in progress is always timed, so a handset that stops in the
\* middle of a message cannot leave its head in front of the next one.
ReassemblyTimed ==
    lapdm.uplink_segmentation_active =>
        lapdm.reassembly_frames > 0 /\ lapdm.layer3_more_data

WindowKept(c, d) ==
    c.downlink_acknowledgement_pending /\ d.downlink_acknowledgement_pending =>
        /\ d.last_downlink_frame = c.last_downlink_frame
        /\ d.downlink_send_sequence = c.downlink_send_sequence
        /\ d.transaction_attempts >= c.transaction_attempts

\* While an I frame is unacknowledged nothing may take its place: the frame
\* T200 would repeat and V(S) stay as they are until N(R) matches or the
\* link goes down.
WindowOfOne ==
    [][\A s \in Sapi : WindowKept(lapdm.link[s], lapdm'.link[s])]_vars

\* Supervision cannot be starved by the early returns of advance_frame: an
\* unacknowledged I frame is acknowledged in the end or its link given up.
TransactionResolves ==
    \A s \in Sapi :
       lapdm.link[s].downlink_acknowledgement_pending
         ~> ~lapdm.link[s].downlink_acknowledgement_pending
==============================================================================
