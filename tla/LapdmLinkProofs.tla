--------------------------- MODULE LapdmLinkProofs ---------------------------
(***************************************************************************)
(* TransactionInv, UaEchoesSabm, ReassemblyTimed and WindowOfOne for every *)
(* number of SAPIs, sequence modulus, timer and retry limit.  The first    *)
(* lemmas are about the state of one SAPI, the next about the device, the  *)
(* last about its callers.                                                 *)
(***************************************************************************)
EXTENDS LapdmLink, TLAPS, Integers, FiniteSetTheorems, WellFoundedInduction

LinkOK(c) == c \in LinkState /\ TransactionOK(c)

LEMMA FrameTypes ==
    ASSUME NEW s \in Sapi, NEW ns \in SeqNumber, NEW nr \in SeqNumber,
           NEW more \in BOOLEAN, NEW final \in BOOLEAN, NEW info \in Content
    PROVE  /\ Fill \in DownlinkFrame
           /\ Sabm(s, info) \in DownlinkFrame
           /\ IFrame(s, ns, nr, more, final, info) \in DownlinkFrame
  <1>1. 0 \in SeqNumber /\ 0 \in Sapi
    BY LapdmAssumption DEF SeqNumber, Sapi
  <1>2. <<>> \in Content
    BY LapdmAssumption DEF Content
  <1> QED BY <1>1, <1>2 DEF Fill, Sabm, IFrame, Frame, DownlinkFrame

LEMMA SuccessorType ==
    ASSUME NEW n \in SeqNumber
    PROVE  Successor(n) \in SeqNumber
  BY LapdmAssumption DEF Successor, SeqNumber

\* A link that is cleared has nothing outstanding and no timer running.
LEMMA ClearedLinkOK ==
    ASSUME NEW c \in LinkState
    PROVE  /\ LinkOK(ClearLink(c))
           /\ LinkOK(RestartedLink(c))
  <1>1. 0 \in SeqNumber /\ 0 \in 0 .. T200 /\ 0 \in 0 .. N200
    BY LapdmAssumption DEF SeqNumber
  <1>2. ClearLink(c) \in LinkState /\ RestartedLink(c) \in LinkState
    BY <1>1 DEF LinkState, ClearLink, ClearTransaction, RestartedLink
  <1>3. TransactionOK(ClearLink(c))
    BY DEF LinkState, TransactionOK, Outstanding, ClearLink, ClearTransaction
  <1>4. TransactionOK(RestartedLink(c))
    BY DEF LinkState, TransactionOK, Outstanding, RestartedLink, ClearLink,
           ClearTransaction
  <1> QED BY <1>2, <1>3, <1>4 DEF LinkOK

\* What each call does to the link of the SAPI it names.
LEMMA ExpectedLinkOK ==
    ASSUME NEW c \in LinkState, NEW b \in BOOLEAN
    PROVE  LinkOK([RestartedLink(c) EXCEPT !.mobile_establishment_expected = b])
  <1> DEFINE d == RestartedLink(c)
  <1>1. d \in LinkState /\ TransactionOK(d)
    BY ClearedLinkOK DEF LinkOK
  <1> HIDE DEF d
  <1>2. [d EXCEPT !.mobile_establishment_expected = b] \in LinkState
    BY <1>1 DEF LinkState
  <1>3. TransactionOK([d EXCEPT !.mobile_establishment_expected = b])
    BY <1>1 DEF LinkState, TransactionOK, Outstanding
  <1> QED BY <1>2, <1>3 DEF LinkOK, d

LEMMA AwaitingLinkOK ==
    ASSUME NEW c \in LinkState, NEW s \in Sapi
    PROVE  LinkOK(ArmTransaction(
              [RestartedLink(c) EXCEPT !.awaiting_establishment = TRUE],
              Sabm(s, <<>>)))
  <1> DEFINE d == RestartedLink(c)
  <1>1. d \in LinkState /\ TransactionOK(d)
    BY ClearedLinkOK DEF LinkOK
  <1>2. ~d.established /\ ~d.downlink_acknowledgement_pending
    BY DEF LinkState, RestartedLink, ClearLink, ClearTransaction
  <1>3. Sabm(s, <<>>) \in DownlinkFrame /\ Sabm(s, <<>>).kind = "SABM"
    <2>1. <<>> \in Content /\ 0 \in SeqNumber
      BY LapdmAssumption DEF Content, SeqNumber
    <2>2. Sabm(s, <<>>) \in DownlinkFrame
      BY <2>1, FrameTypes
    <2> QED BY <2>2 DEF Sabm, Frame
  <1>4. T200 \in 0 .. T200 /\ T200 > 0 /\ 1 \in 0 .. N200
    BY LapdmAssumption
  <1>5. ASSUME NEW e \in LinkState, NEW f \in DownlinkFrame,
               f.kind = "SABM",
               ~e.established, ~e.downlink_acknowledgement_pending
        PROVE  LinkOK(ArmTransaction(
                 [e EXCEPT !.awaiting_establishment = TRUE], f))
    <2> DEFINE armed == ArmTransaction(
                          [e EXCEPT !.awaiting_establishment = TRUE], f)
    <2>1. armed \in LinkState
      BY <1>4, <1>5 DEF LinkState, ArmTransaction
    <2>2. TransactionOK(armed)
      BY <1>4, <1>5 DEF LinkState, TransactionOK, Outstanding, ArmTransaction
    <2> QED BY <2>1, <2>2 DEF LinkOK
  <1> HIDE DEF d
  <1> QED BY <1>1, <1>2, <1>3, <1>5 DEF d

LEMMA SentLinkOK ==
    ASSUME NEW c \in LinkState, TransactionOK(c), c.established,
           ~c.downlink_acknowledgement_pending,
           NEW s \in Sapi, NEW info \in Content, NEW more \in BOOLEAN
    PROVE  LET frame == IFrame(s, c.downlink_send_sequence,
                               c.next_uplink_receive_sequence, more, FALSE, info)
               sent == [c EXCEPT
                          !.downlink_send_sequence = Successor(@),
                          !.pending_receive_sequence =
                               Successor(c.downlink_send_sequence),
                          !.downlink_segmentation_pending = more,
                          !.downlink_acknowledgement_pending = TRUE]
           IN  LinkOK(ArmTransaction(sent, frame))
  <1> DEFINE frame == IFrame(s, c.downlink_send_sequence,
                             c.next_uplink_receive_sequence, more, FALSE, info)
             next == Successor(c.downlink_send_sequence)
  <1>1. c.downlink_send_sequence \in SeqNumber
        /\ c.next_uplink_receive_sequence \in SeqNumber
    BY DEF LinkState
  <1>2. next \in SeqNumber
    BY <1>1, SuccessorType
  <1>3. frame \in DownlinkFrame /\ frame.kind = "I"
        /\ next = Successor(frame.ns)
    BY <1>1, FrameTypes DEF IFrame, Frame
  <1>4. T200 \in 0 .. T200 /\ T200 > 0 /\ 1 \in 0 .. N200
    BY LapdmAssumption
  <1> HIDE DEF frame, next
  <1>5. ASSUME NEW f \in DownlinkFrame, NEW n \in SeqNumber,
               f.kind = "I", n = Successor(f.ns)
        PROVE  LinkOK(ArmTransaction(
                 [c EXCEPT !.downlink_send_sequence = n,
                           !.pending_receive_sequence = n,
                           !.downlink_segmentation_pending = more,
                           !.downlink_acknowledgement_pending = TRUE], f))
    <2> DEFINE armed == ArmTransaction(
                 [c EXCEPT !.downlink_send_sequence = n,
                           !.pending_receive_sequence = n,
                           !.downlink_segmentation_pending = more,
                           !.downlink_acknowledgement_pending = TRUE], f)
    <2>1. armed \in LinkState
      BY <1>4, <1>5 DEF LinkState, ArmTransaction
    <2>2. ~c.awaiting_establishment
      BY DEF TransactionOK
    <2>3. TransactionOK(armed)
      BY <1>4, <1>5, <2>2
      DEF LinkState, TransactionOK, Outstanding, ArmTransaction
    <2> QED BY <2>1, <2>3 DEF LinkOK
  <1> QED BY <1>2, <1>3, <1>5 DEF frame, next

LEMMA AcknowledgedLinkOK ==
    ASSUME NEW c \in LinkState, TransactionOK(c), c.established
    PROVE  LinkOK([ClearTransaction(c) EXCEPT
                     !.downlink_acknowledgement_pending = FALSE])
  <1> DEFINE freed == [ClearTransaction(c) EXCEPT
                         !.downlink_acknowledgement_pending = FALSE]
  <1>1. 0 \in 0 .. T200 /\ 0 \in 0 .. N200
    BY LapdmAssumption
  <1>2. freed \in LinkState
    BY <1>1 DEF LinkState, ClearTransaction
  <1>3. ~c.awaiting_establishment
    BY DEF TransactionOK
  <1>4. TransactionOK(freed)
    BY <1>3 DEF LinkState, TransactionOK, Outstanding, ClearTransaction
  <1> QED BY <1>2, <1>4 DEF LinkOK

LEMMA EstablishedLinkOK ==
    ASSUME NEW c \in LinkState, TransactionOK(c), c.awaiting_establishment
    PROVE  LinkOK([ClearTransaction(c) EXCEPT
                     !.established = TRUE, !.awaiting_establishment = FALSE])
  <1> DEFINE up == [ClearTransaction(c) EXCEPT
                      !.established = TRUE, !.awaiting_establishment = FALSE]
  <1>1. 0 \in 0 .. T200 /\ 0 \in 0 .. N200
    BY LapdmAssumption
  <1>2. up \in LinkState
    BY <1>1 DEF LinkState, ClearTransaction
  <1>3. ~c.downlink_acknowledgement_pending
    BY DEF TransactionOK
  <1>4. TransactionOK(up)
    BY <1>3 DEF LinkState, TransactionOK, Outstanding, ClearTransaction
  <1> QED BY <1>2, <1>4 DEF LinkOK

LEMMA ReleasedLinkOK ==
    ASSUME NEW c \in LinkState, TransactionOK(c), c.established
    PROVE  LinkOK([ClearLink(c) EXCEPT
                     !.awaiting_establishment = c.awaiting_establishment])
  <1>1. 0 \in 0 .. T200 /\ 0 \in 0 .. N200
    BY LapdmAssumption
  <1>2. ~c.awaiting_establishment /\ c.awaiting_establishment \in BOOLEAN
    BY DEF LinkState, TransactionOK
  <1> DEFINE down == [ClearLink(c) EXCEPT
                        !.awaiting_establishment = c.awaiting_establishment]
  <1>3. down \in LinkState
    BY <1>1, <1>2 DEF LinkState, ClearLink, ClearTransaction
  <1>4. TransactionOK(down)
    BY <1>2
    DEF LinkState, TransactionOK, Outstanding, ClearLink, ClearTransaction
  <1> QED BY <1>3, <1>4 DEF LinkOK

LEMMA AdvancedLinkOK ==
    ASSUME NEW c \in LinkState, TransactionOK(c), NEW n \in SeqNumber, NEW final \in BOOLEAN
    PROVE  LinkOK([c EXCEPT !.next_uplink_receive_sequence = n,
                            !.uplink_final_response_pending = final])
  BY DEF LinkOK, LinkState, TransactionOK, Outstanding

\* The UA is built on a link a SABM has just restarted.
LEMMA AnsweredLinkOK ==
    ASSUME NEW c \in LinkState, TransactionOK(c), ~Outstanding(c)
    PROVE  LinkOK([c EXCEPT !.established = TRUE,
                            !.downlink_segmentation_pending = FALSE,
                            !.downlink_acknowledgement_pending = FALSE])
  BY DEF LinkOK, LinkState, TransactionOK, Outstanding

LEMMA TickedLinkOK ==
    ASSUME NEW c \in LinkState, TransactionOK(c), c.transaction_frames > 1
    PROVE  LinkOK([c EXCEPT !.transaction_frames = @ - 1])
  <1>1. c.transaction_frames - 1 \in 0 .. T200 /\ c.transaction_frames - 1 > 0
    BY LapdmAssumption DEF LinkState
  <1> QED BY <1>1 DEF LinkOK, LinkState, TransactionOK, Outstanding

LEMMA RetriedLinkOK ==
    ASSUME NEW c \in LinkState, TransactionOK(c), Outstanding(c), c.transaction_attempts < N200
    PROVE  LinkOK([c EXCEPT !.transaction_attempts = @ + 1,
                            !.transaction_frames = T200,
                            !.retransmission_pending = TRUE])
  <1>1. c.transaction_attempts + 1 \in 0 .. N200
        /\ c.transaction_attempts + 1 > 0
        /\ T200 \in 0 .. T200 /\ T200 > 0
    BY LapdmAssumption DEF LinkState
  <1> QED BY <1>1 DEF LinkOK, LinkState, TransactionOK, Outstanding

------------------------------------------------------------------------------
(* The device *)

\* The least-number principle for a set: of the initial segments of T, one is
\* minimal for strict inclusion, and its end is the least element.
LEMMA LeastNatural ==
    ASSUME NEW T, T \subseteq Nat, T # {}
    PROVE  \E x \in T : \A y \in T : x <= y
  <1> DEFINE Upto(x) == {k \in T : k <= x}
             Segments == {Upto(x) : x \in T}
  <1>1. ASSUME NEW x \in T
        PROVE  Upto(x) \in FiniteSubsetsOf(T)
    <2>1. x \in Nat /\ Upto(x) \in SUBSET Nat /\ \A k \in Upto(x) : k <= x
      OBVIOUS
    <2>2. IsFiniteSet(Upto(x))
      BY <2>1, FS_BoundedSetOfNaturals
    <2> QED BY <2>2 DEF FiniteSubsetsOf
  <1>2. Segments \subseteq FiniteSubsetsOf(T) /\ Segments # {}
    BY <1>1
  <1>3. PICK S \in Segments :
          \A R \in Segments : ~ (<<R, S>> \in StrictSubsetOrdering(T))
    <2> HIDE DEF Segments
    <2> QED BY <1>2, FS_StrictSubsetOrderingWellFounded, WFMin
  <1>4. PICK x \in T : S = Upto(x)
    BY <1>3
  <1>5. ASSUME NEW y \in T, y < x
        PROVE  FALSE
    <2>1. Upto(y) \subseteq Upto(x) /\ x \notin Upto(y) /\ x \in Upto(x)
      <3>1. x \in Nat /\ y \in Nat /\ \A k \in T : k \in Nat
        OBVIOUS
      <3>2. ASSUME NEW k \in T, k <= y PROVE k <= x
        BY <1>5, <3>1, <3>2
      <3>3. ~ (x <= y) /\ x <= x
        BY <1>5, <3>1
      <3> QED BY <3>2, <3>3
    <2>2. <<Upto(y), Upto(x)>> \in StrictSubsetOrdering(T)
      BY <2>1 DEF StrictSubsetOrdering
    <2> QED BY <1>3, <1>4, <2>2
  <1> QED BY <1>5

DeviceOK(l) == l \in LapdmState /\ \A s \in Sapi : TransactionOK(l.link[s])

LEMMA InformationType ==
    ASSUME NEW info \in Information
    PROVE  info \in Content
  <1>1. <<>> \in Content
    BY LapdmAssumption DEF Content
  <1>2. ASSUME NEW x \in Segment PROVE <<x>> \in Content
    BY LapdmAssumption DEF Content
  <1> QED BY <1>1, <1>2 DEF Information

LEMMA UplinkFrameType ==
    ASSUME NEW f \in UplinkFrame
    PROVE  /\ f.sapi \in Sapi
           /\ f.ns \in SeqNumber /\ f.nr \in SeqNumber
           /\ f.more \in BOOLEAN /\ f.final \in BOOLEAN
           /\ f.info \in Information
           /\ f # Fill
  <1>1. 0 \in Sapi /\ 0 \in SeqNumber /\ <<>> \in Information
    BY LapdmAssumption DEF Sapi, SeqNumber, Information
  <1>2. CASE f \in SabmBlock
    <2>1. PICK s \in Sapi, info \in Information : f = Sabm(s, info)
      BY <1>2 DEF SabmBlock
    <2> QED BY <1>1, <2>1 DEF Sabm, Frame, Fill
  <1>3. CASE f \in UaBlock
    <2>1. PICK s \in Sapi : f = Ua(s, <<>>)
      BY <1>3 DEF UaBlock
    <2> QED BY <1>1, <2>1 DEF Ua, Frame, Fill
  <1>4. CASE f \in DiscBlock
    <2>1. PICK s \in Sapi : f = Disc(s)
      BY <1>4 DEF DiscBlock
    <2> QED BY <1>1, <2>1 DEF Disc, Frame, Fill
  <1>5. CASE f \in RrBlock
    <2>1. f.kind = "RR"
      BY <1>5 DEF RrBlock
    <2>2. f # Fill
      BY <2>1 DEF Frame, Fill
    <2> QED BY <1>1, <1>5, <2>2 DEF RrBlock
  <1>6. CASE f \in InformationBlock
    <2>1. f.final \in PollBits /\ f.kind = "I"
      BY <1>6 DEF InformationBlock
    <2>2. f.final \in BOOLEAN /\ f # Fill
      BY <2>1, LapdmAssumption DEF Frame, Fill
    <2> QED BY <1>6, <2>2 DEF InformationBlock
  <1>7. CASE f = OtherBlock
    BY <1>1, <1>7 DEF OtherBlock, Frame, Fill
  <1> QED
    BY <1>2, <1>3, <1>4, <1>5, <1>6, <1>7 DEF UplinkFrame

\* A call that rewrites the link of one SAPI leaves the others alone.
LEMMA SetLinkOK ==
    ASSUME NEW l, DeviceOK(l), NEW s \in Sapi, NEW c, LinkOK(c)
    PROVE  /\ DeviceOK(SetLink(l, s, c))
           /\ SetLink(l, s, c).link[s] = c
           /\ \A r \in Sapi : r # s => SetLink(l, s, c).link[r] = l.link[r]
           /\ SetLink(l, s, c).sapi = l.sapi
           /\ SetLink(l, s, c).layer3_information = l.layer3_information
           /\ SetLink(l, s, c).uplink_segmentation_active =
                l.uplink_segmentation_active
  BY DEF DeviceOK, SetLink, LinkOK, LapdmState

LEMMA HeldOK ==
    ASSUME NEW l, DeviceOK(l), NEW s \in Sapi, NEW info \in Content
    PROVE  /\ DeviceOK(HoldInformation(l, s, info))
           /\ HoldInformation(l, s, info).link = l.link
           /\ HoldInformation(l, s, info).sapi = s
           /\ HoldInformation(l, s, info).layer3_information = info
           /\ ~HoldInformation(l, s, info).uplink_segmentation_active
  <1>1. 0 \in 0 .. T200
    BY LapdmAssumption
  <1> QED BY <1>1 DEF DeviceOK, HoldInformation, LapdmState

LEMMA AcknowledgementOK ==
    ASSUME NEW l, DeviceOK(l), NEW f, f.sapi \in Sapi,
           l.link[f.sapi].established
    PROVE  DeviceOK(TakeAcknowledgement(l, f))
  <1> DEFINE c == l.link[f.sapi]
             freed == [ClearTransaction(c) EXCEPT
                         !.downlink_acknowledgement_pending = FALSE]
  <1>1. c \in LinkState /\ TransactionOK(c)
    BY DEF DeviceOK, LapdmState
  <1>2. LinkOK(freed)
    BY <1>1, AcknowledgedLinkOK
  <1> HIDE DEF freed
  <1>3. DeviceOK(SetLink(l, f.sapi, freed))
    BY <1>2, SetLinkOK
  <1>4. DeviceOK([SetLink(l, f.sapi, freed) EXCEPT
                    !.sapi = f.sapi, !.last_downlink_acknowledged = TRUE])
    BY <1>3 DEF DeviceOK, LapdmState
  <1> QED BY <1>4 DEF TakeAcknowledgement, freed

LEMMA AppendedOK ==
    ASSUME NEW l, DeviceOK(l), NEW f \in UplinkFrame,
           l.link[f.sapi].established, ~OverflowsReassembly(l, f)
    PROVE  /\ DeviceOK(AppendSegment(l, f))
           /\ AppendSegment(l, f).link[f.sapi].established
  <1> DEFINE c == l.link[f.sapi]
             d == [c EXCEPT !.next_uplink_receive_sequence = Successor(@),
                            !.uplink_final_response_pending = f.final]
             text == ReassemblyBase(l) \o f.info
             timer == IF f.more THEN T200 ELSE 0
  <1>1. f.sapi \in Sapi /\ f.more \in BOOLEAN /\ f.final \in BOOLEAN
        /\ f.info \in Content
    BY UplinkFrameType, InformationType
  <1>2. c \in LinkState /\ TransactionOK(c)
    BY <1>1 DEF DeviceOK, LapdmState
  <1>3. Successor(c.next_uplink_receive_sequence) \in SeqNumber
    BY <1>2, SuccessorType DEF LinkState
  <1>4. LinkOK(d)
    BY <1>1, <1>2, <1>3, AdvancedLinkOK
  <1>5. d.established
    BY <1>2 DEF LinkState
  <1>6. ReassemblyBase(l) \in Seq(Segment)
    BY DEF ReassemblyBase, DeviceOK, LapdmState, Content
  <1>7. text \in Content
    <2>1. f.info \in Seq(Segment)
      BY <1>1 DEF Content
    <2>2. text \in Seq(Segment)
          /\ Len(text) = Len(ReassemblyBase(l)) + Len(f.info)
      BY <1>6, <2>1
    <2>3. Len(text) <= MaxLayer3
      BY <1>6, <2>1, <2>2, LapdmAssumption DEF OverflowsReassembly
    <2> QED BY <2>2, <2>3 DEF Content
  <1>8. timer \in 0 .. T200
    BY LapdmAssumption
  <1> HIDE DEF d, text, timer
  <1>9. DeviceOK(SetLink(l, f.sapi, d)) /\ SetLink(l, f.sapi, d).link[f.sapi] = d
    BY <1>1, <1>4, SetLinkOK
  <1> DEFINE m == [SetLink(l, f.sapi, d) EXCEPT
                     !.sapi = f.sapi,
                     !.layer3_information = text,
                     !.layer3_more_data = f.more,
                     !.uplink_segmentation_active = f.more,
                     !.reassembly_frames = timer]
  <1>10. DeviceOK(m) /\ m.link[f.sapi] = d
    BY <1>1, <1>7, <1>8, <1>9 DEF DeviceOK, LapdmState
  <1> QED BY <1>5, <1>10 DEF AppendSegment, d, text, timer

LEMMA ReceiveUplinkOK ==
    ASSUME NEW l, DeviceOK(l), NEW f \in UplinkFrame
    PROVE  LET o == ReceiveUplink(l, f)
           IN  /\ DeviceOK(o.lapdm)
               /\ o.result = "establish_indication" =>
                    /\ o.lapdm.sapi = f.sapi
                    /\ o.lapdm.layer3_information = f.info
                    /\ ~o.lapdm.uplink_segmentation_active
                    /\ ~Outstanding(o.lapdm.link[f.sapi])
  <1> DEFINE m == [l EXCEPT !.last_downlink_acknowledged = FALSE]
             c == m.link[f.sapi]
  <1>1. f.sapi \in Sapi /\ f.info \in Content /\ f.more \in BOOLEAN
        /\ <<>> \in Content
    BY UplinkFrameType, InformationType, LapdmAssumption DEF Content
  <1>2. DeviceOK(m) /\ c \in LinkState /\ TransactionOK(c)
    BY <1>1 DEF DeviceOK, LapdmState
  <1> HIDE DEF m
  <1>3. CASE f.kind = "SABM" /\ AcceptsSabm(c, f)
    <2> DEFINE fresh == [RestartedLink(c) EXCEPT
                           !.mobile_establishment_expected = FALSE]
               held == HoldInformation(m, f.sapi, f.info)
    <2>1. LinkOK(fresh)
      BY <1>2, ExpectedLinkOK
    <2>2. ~Outstanding(fresh)
      BY <1>2 DEF LinkState, Outstanding, RestartedLink, ClearLink,
                  ClearTransaction
    <2> HIDE DEF fresh
    <2>3. DeviceOK(held) /\ held.sapi = f.sapi /\ held.layer3_information = f.info
          /\ ~held.uplink_segmentation_active
      BY <1>1, <1>2, HeldOK
    <2> HIDE DEF held
    <2>4. ReceiveUplink(l, f) = ReceiveSabm(m, f)
      BY <1>3 DEF ReceiveUplink, m
    <2>5. ReceiveUplink(l, f).lapdm = SetLink(held, f.sapi, fresh)
      BY <2>4 DEF ReceiveSabm, Outcome, held, fresh
    <2>6. /\ DeviceOK(SetLink(held, f.sapi, fresh))
          /\ SetLink(held, f.sapi, fresh).link[f.sapi] = fresh
          /\ SetLink(held, f.sapi, fresh).sapi = f.sapi
          /\ SetLink(held, f.sapi, fresh).layer3_information = f.info
          /\ ~SetLink(held, f.sapi, fresh).uplink_segmentation_active
      BY <1>1, <2>1, <2>3, SetLinkOK
    <2> QED BY <2>2, <2>5, <2>6
  <1>4. CASE f.kind = "UA" /\ c.awaiting_establishment
    <2> DEFINE up == [ClearTransaction(c) EXCEPT
                        !.established = TRUE, !.awaiting_establishment = FALSE]
               there == [m EXCEPT !.sapi = f.sapi]
    <2>1. LinkOK(up)
      BY <1>2, <1>4, EstablishedLinkOK
    <2>2. DeviceOK(there)
      BY <1>1, <1>2 DEF DeviceOK, LapdmState
    <2>3. ReceiveUplink(l, f) = ReceiveUa(m, f)
      BY <1>4 DEF ReceiveUplink, m
    <2>4. /\ ReceiveUplink(l, f).lapdm = SetLink(there, f.sapi, up)
          /\ ReceiveUplink(l, f).result = "establish_confirmation"
      BY <2>3 DEF ReceiveUa, Outcome
    <2> HIDE DEF up, there
    <2> QED BY <1>1, <2>1, <2>2, <2>4, SetLinkOK
  <1>5. CASE f.kind = "DISC" /\ c.established
    <2> DEFINE down == [ClearLink(c) EXCEPT
                          !.awaiting_establishment = c.awaiting_establishment]
               held == HoldInformation(m, f.sapi, <<>>)
    <2>1. LinkOK(down)
      BY <1>2, <1>5, ReleasedLinkOK
    <2>2. DeviceOK(held)
      BY <1>1, <1>2, HeldOK
    <2>3. ReceiveUplink(l, f) = ReceiveDisc(m, f)
      BY <1>5 DEF ReceiveUplink, m
    <2>4. /\ ReceiveUplink(l, f).lapdm = SetLink(held, f.sapi, down)
          /\ ReceiveUplink(l, f).result = "release_indication"
      BY <2>3 DEF ReceiveDisc, Outcome
    <2> HIDE DEF down, held
    <2> QED BY <1>1, <2>1, <2>2, <2>4, SetLinkOK
  <1>6. CASE f.kind \in {"RR", "I"} /\ c.established /\ InSequence(c, f)
    <2>1. ReceiveUplink(l, f) = ReceiveInformation(m, f)
      BY <1>6 DEF ReceiveUplink, m
    <2>2. CASE OverflowsReassembly(m, f)
      <3>1. /\ ReceiveUplink(l, f).lapdm = DropReassembly(m, f)
            /\ ReceiveUplink(l, f).result = "ignored"
        BY <2>1, <2>2 DEF ReceiveInformation, Outcome
      <3>2. DeviceOK(DropReassembly(m, f))
        BY <1>1, <1>2 DEF DeviceOK, LapdmState, DropReassembly
      <3> QED BY <3>1, <3>2
    <2>3. CASE ~OverflowsReassembly(m, f)
      <3>1. /\ ReceiveUplink(l, f).lapdm =
                 TakeAcknowledgement(AppendSegment(m, f), f)
            /\ ReceiveUplink(l, f).result # "establish_indication"
        BY <2>1, <2>3 DEF ReceiveInformation, Outcome
      <3>2. /\ DeviceOK(AppendSegment(m, f))
            /\ AppendSegment(m, f).link[f.sapi].established
        BY <1>2, <1>6, <2>3, AppendedOK
      <3>3. DeviceOK(TakeAcknowledgement(AppendSegment(m, f), f))
        BY <1>1, <3>2, AcknowledgementOK
      <3> QED BY <3>1, <3>3
    <2> QED BY <2>2, <2>3
  <1>7. CASE f.kind \in {"RR", "I"} /\ c.established /\ ~InSequence(c, f)
    <2>1. ReceiveUplink(l, f) = ReceiveSupervisory(m, f)
      BY <1>7 DEF ReceiveUplink, m
    <2>2. /\ ReceiveUplink(l, f).lapdm = TakeAcknowledgement(m, f)
          /\ ReceiveUplink(l, f).result # "establish_indication"
      BY <2>1 DEF ReceiveSupervisory, Outcome
    <2> QED BY <1>1, <1>2, <1>7, <2>2, AcknowledgementOK
  <1>8. CASE /\ ~(f.kind = "SABM" /\ AcceptsSabm(c, f))
             /\ ~(f.kind = "UA" /\ c.awaiting_establishment)
             /\ ~(f.kind = "DISC" /\ c.established)
             /\ ~(f.kind \in {"RR", "I"} /\ c.established)
    <2>1. ReceiveUplink(l, f) = Outcome(m, "ignored")
      BY <1>8 DEF ReceiveUplink, m
    <2> QED BY <1>2, <2>1 DEF Outcome
  <1> QED BY <1>3, <1>4, <1>5, <1>6, <1>7, <1>8

LEMMA ExpectOK ==
    ASSUME NEW l, DeviceOK(l), NEW s \in Sapi
    PROVE  DeviceOK(BeginMobileEstablishment(l, s))
  <1>1. l.link[s] \in LinkState
    BY DEF DeviceOK, LapdmState
  <1>2. LinkOK([RestartedLink(l.link[s]) EXCEPT
                  !.mobile_establishment_expected = TRUE])
    BY <1>1, ExpectedLinkOK
  <1> QED BY <1>2, SetLinkOK DEF BeginMobileEstablishment

LEMMA BuildSabmOK ==
    ASSUME NEW l, DeviceOK(l), NEW s \in Sapi
    PROVE  DeviceOK(BuildSabmCommand(l, s).lapdm)
  <1> DEFINE armed == ArmTransaction(
                 [RestartedLink(l.link[s]) EXCEPT !.awaiting_establishment = TRUE],
                 Sabm(s, <<>>))
  <1>1. l.link[s] \in LinkState
    BY DEF DeviceOK, LapdmState
  <1>2. LinkOK(armed)
    BY <1>1, AwaitingLinkOK
  <1>3. BuildSabmCommand(l, s).lapdm = SetLink(l, s, armed)
    BY DEF BuildSabmCommand, Sending
  <1> HIDE DEF armed
  <1> QED BY <1>2, <1>3, SetLinkOK

LEMMA BuildReceiveReadyOK ==
    ASSUME NEW l, DeviceOK(l), NEW s \in Sapi
    PROVE  DeviceOK(BuildReceiveReady(l, s).lapdm)
  <1> DEFINE c == l.link[s]
             d == [c EXCEPT !.uplink_final_response_pending = FALSE]
  <1>1. c \in LinkState /\ TransactionOK(c)
    BY DEF DeviceOK, LapdmState
  <1>2. LinkOK(d)
    <2>1. d \in LinkState
      BY <1>1 DEF LinkState
    <2>2. TransactionOK(d)
      BY <1>1 DEF LinkState, TransactionOK, Outstanding
    <2> QED BY <2>1, <2>2 DEF LinkOK
  <1>3. \/ BuildReceiveReady(l, s).lapdm = SetLink(l, s, d)
        \/ BuildReceiveReady(l, s).lapdm = l
    BY DEF BuildReceiveReady, Sending
  <1> HIDE DEF d
  <1> QED BY <1>2, <1>3, SetLinkOK

LEMMA BuildInformationOK ==
    ASSUME NEW l, DeviceOK(l), NEW s \in Sapi, NEW info \in Content,
           NEW more \in BOOLEAN
    PROVE  DeviceOK(BuildInformationFrame(l, s, info, more).lapdm)
  <1> DEFINE c == l.link[s]
             frame == IFrame(s, c.downlink_send_sequence,
                             c.next_uplink_receive_sequence, more, FALSE, info)
             sent == [c EXCEPT
                        !.downlink_send_sequence = Successor(@),
                        !.pending_receive_sequence =
                             Successor(c.downlink_send_sequence),
                        !.downlink_segmentation_pending = more,
                        !.downlink_acknowledgement_pending = TRUE]
             armed == ArmTransaction(sent, frame)
  <1>1. c \in LinkState /\ TransactionOK(c)
    BY DEF DeviceOK, LapdmState
  <1>2. CASE c.established /\ ~c.downlink_acknowledgement_pending
    <2>1. LinkOK(armed)
      BY <1>1, <1>2, SentLinkOK
    <2>2. BuildInformationFrame(l, s, info, more).lapdm = SetLink(l, s, armed)
      BY <1>2 DEF BuildInformationFrame, Sending
    <2> HIDE DEF armed
    <2> QED BY <2>1, <2>2, SetLinkOK
  <1>3. CASE ~(c.established /\ ~c.downlink_acknowledgement_pending)
    BY <1>3 DEF BuildInformationFrame, Sending
  <1> QED BY <1>2, <1>3

LEMMA BuildUaOK ==
    ASSUME NEW l, DeviceOK(l), ~Outstanding(l.link[l.sapi])
    PROVE  DeviceOK(BuildUa(l).lapdm)
  <1> DEFINE c == l.link[l.sapi]
             d == [c EXCEPT !.established = TRUE,
                            !.downlink_segmentation_pending = FALSE,
                            !.downlink_acknowledgement_pending = FALSE]
  <1>1. l.sapi \in Sapi /\ c \in LinkState /\ TransactionOK(c)
    BY DEF DeviceOK, LapdmState
  <1>2. LinkOK(d)
    BY <1>1, AnsweredLinkOK
  <1>3. BuildUa(l).lapdm = SetLink(l, l.sapi, d)
    BY DEF BuildUa, Sending
  <1> HIDE DEF d
  <1> QED BY <1>1, <1>2, <1>3, SetLinkOK

LEMMA TakeRetransmissionOK ==
    ASSUME NEW l, DeviceOK(l)
    PROVE  DeviceOK(TakeRetransmission(l).lapdm)
  <1> DEFINE Waiting == {s \in Sapi : l.link[s].retransmission_pending}
             s == CHOOSE s \in Sapi :
                    /\ l.link[s].retransmission_pending
                    /\ \A r \in 0 .. s - 1 : ~l.link[r].retransmission_pending
  <1>1. CASE ~RetransmissionPending(l)
    BY <1>1 DEF TakeRetransmission, Sending
  <1>2. CASE RetransmissionPending(l)
    <2>1. Waiting \subseteq Nat /\ Waiting # {}
      BY <1>2, LapdmAssumption DEF RetransmissionPending, Sapi
    <2>2. PICK t \in Waiting : \A r \in Waiting : t <= r
      <3> HIDE DEF Waiting
      <3> QED BY <2>1, LeastNatural
    <2>3. /\ t \in Sapi /\ l.link[t].retransmission_pending
          /\ \A r \in 0 .. t - 1 : ~l.link[r].retransmission_pending
      <3>1. t \in Sapi /\ l.link[t].retransmission_pending
        OBVIOUS
      <3>2. ASSUME NEW r \in 0 .. t - 1, l.link[r].retransmission_pending
            PROVE  FALSE
        <4>1. r \in Sapi /\ ~(t <= r)
          BY <3>1, LapdmAssumption DEF Sapi
        <4> QED BY <2>2, <3>2, <4>1
      <3> QED BY <3>1, <3>2
    <2>4. s \in Sapi
      BY <2>3
    <2> DEFINE d == [l.link[s] EXCEPT !.retransmission_pending = FALSE]
    <2> HIDE DEF s
    <2>5. l.link[s] \in LinkState /\ TransactionOK(l.link[s])
      BY <2>4 DEF DeviceOK, LapdmState
    <2>6. LinkOK(d)
      <3>1. d \in LinkState
        BY <2>5 DEF LinkState
      <3>2. TransactionOK(d)
        BY <2>5 DEF LinkState, TransactionOK, Outstanding
      <3> QED BY <3>1, <3>2 DEF LinkOK
    <2>7. TakeRetransmission(l).lapdm =
            [l EXCEPT !.link[s].retransmission_pending = FALSE]
      BY <1>2 DEF TakeRetransmission, Sending, s
    <2>8. TakeRetransmission(l).lapdm = SetLink(l, s, d)
      BY <2>4, <2>7 DEF SetLink
    <2> HIDE DEF d
    <2> QED BY <2>4, <2>6, <2>8, SetLinkOK
  <1> QED BY <1>1, <1>2

------------------------------------------------------------------------------
(* Time *)

LEMMA FirstExpiryOK ==
    ASSUME NEW l, DeviceOK(l)
    PROVE  /\ FirstExpiry(l) \in 0 .. LinkCount
           /\ FirstExpiry(l) \in Sapi => TransactionExpires(l, FirstExpiry(l))
           /\ \A r \in Sapi : r < FirstExpiry(l) => ~TransactionExpires(l, r)
  <1> DEFINE Stop == {s \in 0 .. LinkCount : s \in Sapi => TransactionExpires(l, s)}
  <1>1. LinkCount \in Stop /\ Stop \subseteq Nat
    BY LapdmAssumption DEF Sapi
  <1>2. PICK t \in Stop : \A r \in Stop : t <= r
    <2> HIDE DEF Stop
    <2> QED BY <1>1, LeastNatural
  <1>3. \A r \in Sapi : r < t => ~TransactionExpires(l, r)
    <2> SUFFICES ASSUME NEW r \in Sapi, r < t, TransactionExpires(l, r)
                 PROVE  FALSE
      OBVIOUS
    <2>1. r \in 0 .. LinkCount /\ r \in Nat /\ t \in Nat
      BY <1>1, LapdmAssumption DEF Sapi
    <2>2. r \in Stop
      BY <2>1
    <2>3. t <= r
      BY <1>2, <2>2
    <2> QED BY <2>1, <2>3
  <1> QED BY <1>2, <1>3 DEF FirstExpiry

\* Counting down leaves every transaction armed exactly as it was.
LEMMA TickTransactionsOK ==
    ASSUME NEW l, DeviceOK(l), NEW upto \in 0 .. LinkCount,
           \A r \in Sapi : r < upto => ~TransactionExpires(l, r)
    PROVE  LET t == TickTransactions(l, upto)
           IN  /\ DeviceOK(t)
               /\ t.sapi = l.sapi
               /\ t.layer3_information = l.layer3_information
               /\ t.uplink_segmentation_active = l.uplink_segmentation_active
               /\ \A r \in Sapi : Outstanding(t.link[r]) <=> Outstanding(l.link[r])
               /\ upto \in Sapi => t.link[upto] = l.link[upto]
  <1> DEFINE t == TickTransactions(l, upto)
             down(r) == [l.link[r] EXCEPT !.transaction_frames = @ - 1]
             visited(r) == r < upto /\ l.link[r].transaction_frames > 0
  <1>1. /\ t.link = [r \in Sapi |-> IF visited(r) THEN down(r) ELSE l.link[r]]
        /\ t \in [link : {t.link}, sapi : Sapi, layer3_information : Content,
                  layer3_more_data : BOOLEAN,
                  uplink_segmentation_active : BOOLEAN,
                  reassembly_frames : 0 .. T200,
                  last_downlink_acknowledged : BOOLEAN]
        /\ t.sapi = l.sapi
        /\ t.layer3_information = l.layer3_information
        /\ t.uplink_segmentation_active = l.uplink_segmentation_active
    BY DEF TickTransactions, DeviceOK, LapdmState
  <1>2. ASSUME NEW r \in Sapi
        PROVE  /\ LinkOK(t.link[r])
               /\ Outstanding(t.link[r]) <=> Outstanding(l.link[r])
    <2>1. l.link[r] \in LinkState /\ TransactionOK(l.link[r])
      BY DEF DeviceOK, LapdmState
    <2>2. CASE visited(r)
      <3>1. t.link[r] = down(r)
        BY <1>1, <2>2
      <3>2. l.link[r].transaction_frames > 1
        <4>1. l.link[r].transaction_frames # 1
          BY <2>2 DEF TransactionExpires
        <4>2. l.link[r].transaction_frames \in Nat
          BY <2>1, LapdmAssumption DEF LinkState
        <4> QED BY <2>2, <4>1, <4>2
      <3>3. LinkOK(down(r))
        BY <2>1, <3>2, TickedLinkOK
      <3>4. Outstanding(down(r)) <=> Outstanding(l.link[r])
        BY <2>1 DEF LinkState, Outstanding
      <3> QED BY <3>1, <3>3, <3>4
    <2>3. CASE ~visited(r)
      <3>1. t.link[r] = l.link[r]
        BY <1>1, <2>3
      <3> QED BY <2>1, <3>1 DEF LinkOK
    <2> QED BY <2>2, <2>3
  <1>3. upto \in Sapi => t.link[upto] = l.link[upto]
    <2>1. upto \in Nat /\ ~(upto < upto)
      BY LapdmAssumption
    <2> QED BY <1>1, <2>1
  <1>4. t.link \in [Sapi -> LinkState]
    <2>1. \A r \in Sapi : t.link[r] \in LinkState
      BY <1>2 DEF LinkOK
    <2> QED BY <1>1, <2>1
  <1>5. DeviceOK(t)
    <2>1. t \in LapdmState
      BY <1>1, <1>4 DEF LapdmState
    <2> QED BY <1>2, <2>1 DEF DeviceOK, LinkOK
  <1> QED BY <1>1, <1>2, <1>3, <1>5

LEMMA ExpireOK ==
    ASSUME NEW l, DeviceOK(l), NEW s \in Sapi, Outstanding(l.link[s])
    PROVE  /\ DeviceOK(ExpireTransaction(l, s).lapdm)
           /\ ExpireTransaction(l, s).lapdm.sapi = l.sapi
           /\ ExpireTransaction(l, s).lapdm.layer3_information =
                l.layer3_information
           /\ ExpireTransaction(l, s).lapdm.uplink_segmentation_active =
                l.uplink_segmentation_active
           /\ \A r \in Sapi \ {s} :
                ExpireTransaction(l, s).lapdm.link[r] = l.link[r]
  <1> DEFINE c == l.link[s]
             again == [c EXCEPT !.transaction_attempts = @ + 1,
                                !.transaction_frames = T200,
                                !.retransmission_pending = TRUE]
  <1>1. c \in LinkState /\ TransactionOK(c)
    BY DEF DeviceOK, LapdmState
  <1>2. CASE c.transaction_attempts < N200
    <2>1. LinkOK(again)
      BY <1>1, <1>2, RetriedLinkOK
    <2>2. ExpireTransaction(l, s).lapdm = SetLink(l, s, again)
      BY <1>2 DEF ExpireTransaction, Expiry
    <2> HIDE DEF again
    <2> QED BY <2>1, <2>2, SetLinkOK
  <1>3. CASE ~(c.transaction_attempts < N200)
    <2>1. LinkOK(ClearLink(c))
      BY <1>1, ClearedLinkOK
    <2>2. ExpireTransaction(l, s).lapdm = SetLink(l, s, ClearLink(c))
      BY <1>3 DEF ExpireTransaction, Expiry
    <2> QED BY <2>1, <2>2, SetLinkOK
  <1> QED BY <1>2, <1>3

LEMMA AdvanceFrameOK ==
    ASSUME NEW l, DeviceOK(l)
    PROVE  LET t == AdvanceFrame(l).lapdm
           IN  /\ DeviceOK(t)
               /\ ~l.uplink_segmentation_active =>
                    /\ t.sapi = l.sapi
                    /\ t.layer3_information = l.layer3_information
                    /\ ~t.uplink_segmentation_active
               /\ \A r \in Sapi : Outstanding(t.link[r]) => Outstanding(l.link[r])
  <1> DEFINE s == FirstExpiry(l)
             m == TickReassembly(l)
             ticked == TickTransactions(m, s)
  <1>1. CASE ReassemblyExpires(l)
    <2>1. l.sapi \in Sapi /\ <<>> \in Content
      BY LapdmAssumption DEF DeviceOK, LapdmState, Content
    <2>2. AdvanceFrame(l).lapdm = HoldInformation(l, l.sapi, <<>>)
      BY <1>1 DEF AdvanceFrame, Expiry
    <2>3. l.uplink_segmentation_active
      BY <1>1 DEF ReassemblyExpires
    <2> QED BY <2>1, <2>2, <2>3, HeldOK
  <1>2. CASE ~ReassemblyExpires(l)
    <2>1. /\ DeviceOK(m)
          /\ m.link = l.link
          /\ m.sapi = l.sapi
          /\ m.layer3_information = l.layer3_information
          /\ m.uplink_segmentation_active = l.uplink_segmentation_active
      <3>1. l.reassembly_frames \in 0 .. T200
        BY DEF DeviceOK, LapdmState
      <3>2. l.reassembly_frames > 0 => l.reassembly_frames - 1 \in 0 .. T200
        BY <3>1, LapdmAssumption
      <3> QED BY <3>2 DEF DeviceOK, LapdmState, TickReassembly
    <2>2. /\ s \in 0 .. LinkCount
          /\ s \in Sapi => TransactionExpires(m, s)
          /\ \A r \in Sapi : r < s => ~TransactionExpires(m, r)
      BY <2>1, FirstExpiryOK DEF TransactionExpires
    <2> HIDE DEF m, s
    <2>3. /\ DeviceOK(ticked)
          /\ ticked.sapi = m.sapi
          /\ ticked.layer3_information = m.layer3_information
          /\ ticked.uplink_segmentation_active = m.uplink_segmentation_active
          /\ \A r \in Sapi : Outstanding(ticked.link[r]) <=> Outstanding(m.link[r])
          /\ s \in Sapi => ticked.link[s] = m.link[s]
      BY <2>1, <2>2, TickTransactionsOK
    <2> HIDE DEF ticked
    <2>4. CASE s \in Sapi
      <3>1. AdvanceFrame(l).lapdm = ExpireTransaction(ticked, s).lapdm
        BY <1>2, <2>4 DEF AdvanceFrame, ticked, m, s
      <3>2. Outstanding(ticked.link[s])
        <4>1. ticked.link[s].transaction_frames > 0
          BY <2>2, <2>3, <2>4 DEF TransactionExpires
        <4> QED BY <2>3, <2>4, <4>1 DEF DeviceOK, TransactionOK
      <3>3. /\ DeviceOK(ExpireTransaction(ticked, s).lapdm)
            /\ ExpireTransaction(ticked, s).lapdm.sapi = ticked.sapi
            /\ ExpireTransaction(ticked, s).lapdm.layer3_information =
                 ticked.layer3_information
            /\ ExpireTransaction(ticked, s).lapdm.uplink_segmentation_active =
                 ticked.uplink_segmentation_active
            /\ \A r \in Sapi \ {s} :
                 ExpireTransaction(ticked, s).lapdm.link[r] = ticked.link[r]
        BY <2>3, <2>4, <3>2, ExpireOK
      <3>4. ASSUME NEW r \in Sapi,
                   Outstanding(ExpireTransaction(ticked, s).lapdm.link[r])
            PROVE  Outstanding(l.link[r])
        <4>1. Outstanding(ticked.link[r])
          BY <3>2, <3>3, <3>4
        <4> QED BY <2>1, <2>3, <4>1
      <3> QED BY <2>1, <2>3, <3>1, <3>3, <3>4
    <2>5. CASE s \notin Sapi
      <3>1. AdvanceFrame(l).lapdm = ticked
        BY <1>2, <2>5 DEF AdvanceFrame, Expiry, ticked, m, s
      <3> QED BY <2>1, <2>3, <3>1
    <2> QED BY <2>4, <2>5
  <1> QED BY <1>1, <1>2

------------------------------------------------------------------------------
(* The specification *)

\* What is inductive: besides the two invariants, the link a UA is due on has
\* just been restarted, and no reassembly that could expire is in progress.
IndInv ==
    /\ DeviceOK(lapdm)
    /\ ua_due \in UplinkFrame \cup {Fill}
    /\ ua_due # Fill =>
         /\ lapdm.sapi = ua_due.sapi
         /\ lapdm.layer3_information = ua_due.info
         /\ ~lapdm.uplink_segmentation_active
         /\ ~Outstanding(lapdm.link[lapdm.sapi])

LEMMA InitInv == Init => IndInv
  <1> SUFFICES ASSUME Init PROVE IndInv
    OBVIOUS
  <1>1. 0 \in Sapi /\ 0 \in SeqNumber /\ <<>> \in Content
        /\ 0 \in 0 .. T200 /\ 0 \in 0 .. N200
    BY LapdmAssumption DEF Sapi, SeqNumber, Content
  <1>2. Fill \in DownlinkFrame
    BY <1>1, FrameTypes
  <1>3. IdleLink \in LinkState
    BY <1>1, <1>2 DEF IdleLink, LinkState
  <1>4. TransactionOK(IdleLink)
    BY DEF IdleLink, TransactionOK, Outstanding
  <1>5. LapdmReset \in LapdmState /\ \A s \in Sapi : LapdmReset.link[s] = IdleLink
    BY <1>1, <1>3 DEF LapdmReset, LapdmState
  <1> QED BY <1>4, <1>5 DEF Init, IndInv, DeviceOK

LEMMA NextInv == IndInv /\ [Next]_vars => IndInv'
  <1> SUFFICES ASSUME IndInv, [Next]_vars PROVE IndInv'
    OBVIOUS
  <1> USE DEF IndInv
  <1>1. ASSUME NEW f \in UplinkFrame, Uplink(f) PROVE IndInv'
    <2>1. DeviceOK(ReceiveUplink(lapdm, f).lapdm)
      BY ReceiveUplinkOK
    <2>2. CASE ReceiveUplink(lapdm, f).result = "establish_indication"
      BY <1>1, <2>1, <2>2, ReceiveUplinkOK, UplinkFrameType DEF Uplink
    <2>3. CASE ReceiveUplink(lapdm, f).result # "establish_indication"
      BY <1>1, <2>1, <2>3 DEF Uplink
    <2> QED BY <2>2, <2>3
  <1>2. ASSUME NEW s \in Sapi, Expect(s) PROVE IndInv'
    BY <1>2, ExpectOK DEF Expect
  <1>3. ASSUME NEW s \in Sapi, SendSabm(s) PROVE IndInv'
    BY <1>3, BuildSabmOK DEF SendSabm, Downlink
  <1>4. ASSUME NEW s \in Sapi, SendReceiveReady(s) PROVE IndInv'
    BY <1>4, BuildReceiveReadyOK DEF SendReceiveReady, Downlink
  <1>5. ASSUME NEW s \in Sapi, NEW info \in Information, NEW more \in BOOLEAN,
               SendInformation(s, info, more)
        PROVE  IndInv'
    BY <1>5, BuildInformationOK, InformationType DEF SendInformation, Downlink
  <1>6. ASSUME SendUa PROVE IndInv'
    BY <1>6, BuildUaOK DEF SendUa
  <1>7. ASSUME Retransmit PROVE IndInv'
    BY <1>7, TakeRetransmissionOK DEF Retransmit
  <1>8. ASSUME Tick PROVE IndInv'
    <2>1. DeviceOK(AdvanceFrame(lapdm).lapdm)
      BY AdvanceFrameOK
    <2>2. lapdm' = AdvanceFrame(lapdm).lapdm /\ ua_due' = ua_due
      BY <1>8 DEF Tick
    <2>3. lapdm.sapi \in Sapi
      BY DEF DeviceOK, LapdmState
    <2> QED BY <2>1, <2>2, <2>3, AdvanceFrameOK
  <1>9. CASE UNCHANGED vars
    BY <1>9 DEF vars
  <1> QED
    BY <1>1, <1>2, <1>3, <1>4, <1>5, <1>6, <1>7, <1>8, <1>9 DEF Next

\* The variables keep their types.
THEOREM TypeCorrect == Spec => []TypeOK
  <1>1. IndInv => TypeOK
    BY DEF IndInv, DeviceOK, TypeOK
  <1> QED BY <1>1, InitInv, NextInv, PTL DEF Spec

\* T200 runs exactly while an I frame or a SABM is outstanding, for every SAPI.
THEOREM TransactionsGuarded == Spec => []TransactionInv
  <1>1. IndInv => TransactionInv
    BY DEF IndInv, DeviceOK, TransactionInv
  <1> QED BY <1>1, InitInv, NextInv, PTL DEF Spec

\* Whatever passes between a SABM and its UA, the UA echoes that SABM.
THEOREM ContentionResolved == Spec => []UaEchoesSabm
  <1>1. IndInv => UaEchoesSabm
    BY DEF IndInv, UaEchoesSabm
  <1> QED BY <1>1, InitInv, NextInv, PTL DEF Spec
------------------------------------------------------------------------------
(* The window and the reassembly timer *)

Timed(l) ==
    l.uplink_segmentation_active =>
        l.reassembly_frames > 0 /\ l.layer3_more_data

\* What one call leaves to its caller: the window of every SAPI, and a
\* reassembly timer that still runs if it ran.
Steady(l, m) ==
    /\ Timed(l) => Timed(m)
    /\ \A s \in Sapi : WindowKept(l.link[s], m.link[s])

LEMMA SteadyReflexive ==
    ASSUME NEW l, DeviceOK(l), NEW m, m.link = l.link, Timed(l) => Timed(m)
    PROVE  Steady(l, m)
  <1> SUFFICES ASSUME NEW s \in Sapi
               PROVE  WindowKept(l.link[s], l.link[s])
    BY DEF Steady
  <1>1. l.link[s].transaction_attempts \in Nat
    BY LapdmAssumption DEF DeviceOK, LapdmState, LinkState
  <1> QED BY <1>1 DEF WindowKept

\* A call that only rewrites the link of one SAPI: its window is all there is
\* to look at.
LEMMA SetLinkSteady ==
    ASSUME NEW l, DeviceOK(l), NEW m, DeviceOK(m), m.link = l.link,
           Timed(l) => Timed(m),
           NEW s \in Sapi, NEW c, WindowKept(l.link[s], c)
    PROVE  Steady(l, SetLink(m, s, c))
  <1> DEFINE n == SetLink(m, s, c)
  <1>1. /\ n.link[s] = c
        /\ \A r \in Sapi : r # s => n.link[r] = l.link[r]
        /\ n.uplink_segmentation_active = m.uplink_segmentation_active
        /\ n.reassembly_frames = m.reassembly_frames
        /\ n.layer3_more_data = m.layer3_more_data
    BY DEF DeviceOK, LapdmState, SetLink
  <1> HIDE DEF n
  <1>2. Timed(l) => Timed(n)
    BY <1>1 DEF Timed
  <1>3. ASSUME NEW r \in Sapi, r # s
        PROVE  WindowKept(l.link[r], n.link[r])
    <2>1. l.link[r].transaction_attempts \in Nat
      BY LapdmAssumption DEF DeviceOK, LapdmState, LinkState
    <2> QED BY <1>1, <1>3, <2>1 DEF WindowKept
  <1> QED BY <1>1, <1>2, <1>3 DEF Steady, n

\* The rewritten link keeps its window because it has none afterwards.
LEMMA ClearedWindowKept ==
    ASSUME NEW c \in LinkState, NEW b \in BOOLEAN, NEW f
    PROVE  /\ WindowKept(c, ClearLink(c))
           /\ WindowKept(c, [RestartedLink(c) EXCEPT
                               !.mobile_establishment_expected = b])
           /\ WindowKept(c, ArmTransaction(
                 [RestartedLink(c) EXCEPT !.awaiting_establishment = b], f))
           /\ WindowKept(c, [ClearLink(c) EXCEPT !.awaiting_establishment = b])
           /\ WindowKept(c, [ClearTransaction(c) EXCEPT
                               !.downlink_acknowledgement_pending = FALSE])
           /\ WindowKept(c, [c EXCEPT
                               !.established = TRUE,
                               !.downlink_segmentation_pending = FALSE,
                               !.downlink_acknowledgement_pending = FALSE])
  BY DEF WindowKept, LinkState, ClearLink, RestartedLink, ClearTransaction,
         ArmTransaction

LEMMA HeldSteady ==
    ASSUME NEW l, DeviceOK(l), NEW s \in Sapi, NEW info \in Content,
           NEW r \in Sapi, NEW c, WindowKept(l.link[r], c)
    PROVE  /\ Steady(l, HoldInformation(l, s, info))
           /\ Steady(l, SetLink(HoldInformation(l, s, info), r, c))
  <1> DEFINE m == HoldInformation(l, s, info)
  <1>1. DeviceOK(m) /\ m.link = l.link /\ Timed(m)
    BY HeldOK DEF Timed
  <1> HIDE DEF m
  <1>2. Steady(l, m) /\ Steady(l, SetLink(m, r, c))
    BY <1>1, SteadyReflexive, SetLinkSteady
  <1> QED BY <1>2 DEF m
LEMMA AcknowledgementSteady ==
    ASSUME NEW l, DeviceOK(l), NEW f, f.sapi \in Sapi,
           NEW k, DeviceOK(k), Steady(k, l), Timed(k) => Timed(l),
           \A s \in Sapi : l.link[s].downlink_acknowledgement_pending =>
                             k.link[s].downlink_acknowledgement_pending
    PROVE  Steady(k, TakeAcknowledgement(l, f))
  <1> DEFINE freed == [ClearTransaction(l.link[f.sapi]) EXCEPT
                         !.downlink_acknowledgement_pending = FALSE]
             m == SetLink(l, f.sapi, freed)
             n == [m EXCEPT !.sapi = f.sapi, !.last_downlink_acknowledged = TRUE]
  <1>1. l.link[f.sapi] \in LinkState
    BY DEF DeviceOK, LapdmState
  <1>2. ~freed.downlink_acknowledgement_pending
    BY <1>1 DEF LinkState, ClearTransaction
  <1> HIDE DEF freed
  <1>3. /\ n.link[f.sapi] = freed
        /\ \A s \in Sapi : s # f.sapi => n.link[s] = l.link[s]
        /\ n.uplink_segmentation_active = l.uplink_segmentation_active
        /\ n.reassembly_frames = l.reassembly_frames
        /\ n.layer3_more_data = l.layer3_more_data
    BY DEF DeviceOK, LapdmState, SetLink
  <1>4. TakeAcknowledgement(l, f) = n \/ TakeAcknowledgement(l, f) = l
    BY DEF TakeAcknowledgement, freed
  <1> HIDE DEF n
  <1>5. Timed(k) => Timed(n)
    BY <1>3 DEF Timed
  <1>6. ASSUME NEW s \in Sapi
        PROVE  WindowKept(k.link[s], n.link[s])
    <2>1. CASE s = f.sapi
      BY <1>2, <1>3, <2>1 DEF WindowKept
    <2>2. CASE s # f.sapi
      BY <1>3, <2>2 DEF Steady
    <2> QED BY <2>1, <2>2
  <1> QED BY <1>4, <1>5, <1>6 DEF Steady

\* A segment that stays alone has just started the timer.
LEMMA AppendedSteady ==
    ASSUME NEW l, DeviceOK(l), NEW f \in UplinkFrame
    PROVE  /\ Steady(l, AppendSegment(l, f))
           /\ Timed(AppendSegment(l, f))
           /\ \A s \in Sapi :
                AppendSegment(l, f).link[s].downlink_acknowledgement_pending =>
                  l.link[s].downlink_acknowledgement_pending
  <1> DEFINE c == l.link[f.sapi]
             d == [c EXCEPT !.next_uplink_receive_sequence = Successor(@),
                            !.uplink_final_response_pending = f.final]
             n == AppendSegment(l, f)
  <1>1. f.sapi \in Sapi /\ f.more \in BOOLEAN
    BY UplinkFrameType
  <1>2. c \in LinkState
    BY <1>1 DEF DeviceOK, LapdmState
  <1>3. /\ d.downlink_acknowledgement_pending = c.downlink_acknowledgement_pending
        /\ WindowKept(c, d)
    <2>1. c.transaction_attempts \in Nat
      BY <1>2, LapdmAssumption DEF LinkState
    <2> QED BY <1>2, <2>1 DEF WindowKept, LinkState
  <1> HIDE DEF d
  <1>4. /\ n.link[f.sapi] = d
        /\ \A s \in Sapi : s # f.sapi => n.link[s] = l.link[s]
        /\ n.uplink_segmentation_active = f.more
        /\ n.layer3_more_data = f.more
        /\ n.reassembly_frames = IF f.more THEN T200 ELSE 0
    BY <1>1 DEF DeviceOK, LapdmState, AppendSegment, SetLink, d
  <1> HIDE DEF n
  <1>5. Timed(n)
    BY <1>1, <1>4, LapdmAssumption DEF Timed
  <1>6. ASSUME NEW s \in Sapi
        PROVE  /\ WindowKept(l.link[s], n.link[s])
               /\ n.link[s].downlink_acknowledgement_pending =>
                    l.link[s].downlink_acknowledgement_pending
    <2>1. CASE s = f.sapi
      BY <1>3, <1>4, <2>1
    <2>2. CASE s # f.sapi
      <3>1. l.link[s].transaction_attempts \in Nat
        BY LapdmAssumption DEF DeviceOK, LapdmState, LinkState
      <3> QED BY <1>4, <2>2, <3>1 DEF WindowKept
    <2> QED BY <2>1, <2>2
  <1> QED BY <1>5, <1>6 DEF Steady, n

LEMMA ReceiveUplinkSteady ==
    ASSUME NEW l, DeviceOK(l), NEW f \in UplinkFrame
    PROVE  Steady(l, ReceiveUplink(l, f).lapdm)
  <1> DEFINE m == [l EXCEPT !.last_downlink_acknowledged = FALSE]
             c == m.link[f.sapi]
             n == ReceiveUplink(l, f).lapdm
  <1>1. f.sapi \in Sapi /\ f.info \in Content /\ <<>> \in Content
    BY UplinkFrameType, InformationType, LapdmAssumption DEF Content
  <1>2. DeviceOK(m) /\ c \in LinkState /\ TransactionOK(c)
    BY <1>1 DEF DeviceOK, LapdmState
  <1>3. m.link = l.link /\ (Timed(l) <=> Timed(m))
    BY DEF DeviceOK, LapdmState, Timed
  <1>4. ASSUME NEW k, Steady(m, k)
        PROVE  Steady(l, k)
    BY <1>3, <1>4 DEF Steady
  <1> HIDE DEF m
  <1>5. CASE f.kind = "SABM" /\ AcceptsSabm(c, f)
    <2> DEFINE fresh == [RestartedLink(c) EXCEPT
                           !.mobile_establishment_expected = FALSE]
    <2>1. n = SetLink(HoldInformation(m, f.sapi, f.info), f.sapi, fresh)
      BY <1>5 DEF ReceiveUplink, ReceiveSabm, Outcome, m
    <2>2. WindowKept(c, fresh)
      BY <1>2, ClearedWindowKept
    <2> HIDE DEF fresh
    <2> QED BY <1>1, <1>2, <1>4, <2>1, <2>2, HeldSteady
  <1>6. CASE f.kind = "UA" /\ c.awaiting_establishment
    <2> DEFINE up == [ClearTransaction(c) EXCEPT
                        !.established = TRUE, !.awaiting_establishment = FALSE]
               there == [m EXCEPT !.sapi = f.sapi]
    <2>1. n = SetLink(there, f.sapi, up)
      BY <1>6 DEF ReceiveUplink, ReceiveUa, Outcome, m
    <2>2. WindowKept(c, up)
      <3>1. ~c.downlink_acknowledgement_pending
        BY <1>2, <1>6 DEF TransactionOK
      <3> QED BY <3>1 DEF WindowKept
    <2>3. DeviceOK(there) /\ there.link = m.link /\ (Timed(m) => Timed(there))
      BY <1>1, <1>2 DEF DeviceOK, LapdmState, Timed
    <2> HIDE DEF up, there
    <2> QED BY <1>1, <1>2, <1>4, <2>1, <2>2, <2>3, SetLinkSteady
  <1>7. CASE f.kind = "DISC" /\ c.established
    <2> DEFINE down == [ClearLink(c) EXCEPT
                          !.awaiting_establishment = c.awaiting_establishment]
    <2>1. n = SetLink(HoldInformation(m, f.sapi, <<>>), f.sapi, down)
      BY <1>7 DEF ReceiveUplink, ReceiveDisc, Outcome, m
    <2>2. WindowKept(c, down)
      <3>1. c.awaiting_establishment \in BOOLEAN
        BY <1>2 DEF LinkState
      <3> QED BY <1>2, <3>1, ClearedWindowKept
    <2> HIDE DEF down
    <2> QED BY <1>1, <1>2, <1>4, <2>1, <2>2, HeldSteady
  <1>8. CASE f.kind \in {"RR", "I"} /\ c.established /\ InSequence(c, f)
    <2>1. CASE OverflowsReassembly(m, f)
      <3>1. n = DropReassembly(m, f)
        BY <1>8, <2>1 DEF ReceiveUplink, ReceiveInformation, Outcome, m
      <3>2. DropReassembly(m, f).link = m.link /\ Timed(DropReassembly(m, f))
        BY <1>2 DEF DropReassembly, DeviceOK, LapdmState, Timed
      <3> QED BY <1>2, <1>4, <3>1, <3>2, SteadyReflexive
    <2>2. CASE ~OverflowsReassembly(m, f)
      <3>1. n = TakeAcknowledgement(AppendSegment(m, f), f)
        BY <1>8, <2>2 DEF ReceiveUplink, ReceiveInformation, Outcome, m
      <3>2. DeviceOK(AppendSegment(m, f))
        BY <1>2, <1>8, <2>2, AppendedOK
      <3> QED BY <1>1, <1>2, <1>4, <3>1, <3>2, AppendedSteady, AcknowledgementSteady
    <2> QED BY <2>1, <2>2
  <1>9. CASE f.kind \in {"RR", "I"} /\ c.established /\ ~InSequence(c, f)
    <2>1. n = TakeAcknowledgement(m, f)
      BY <1>9 DEF ReceiveUplink, ReceiveSupervisory, Outcome, m
    <2>2. Steady(m, m)
      BY <1>2, SteadyReflexive
    <2> QED BY <1>1, <1>2, <1>4, <2>1, <2>2, AcknowledgementSteady
  <1>10. CASE /\ ~(f.kind = "SABM" /\ AcceptsSabm(c, f))
              /\ ~(f.kind = "UA" /\ c.awaiting_establishment)
              /\ ~(f.kind = "DISC" /\ c.established)
              /\ ~(f.kind \in {"RR", "I"} /\ c.established)
    <2>1. n = m
      BY <1>10 DEF ReceiveUplink, Outcome, m
    <2> QED BY <1>2, <1>4, <2>1, SteadyReflexive
  <1> QED BY <1>5, <1>6, <1>7, <1>8, <1>9, <1>10
LEMMA BuildersSteady ==
    ASSUME NEW l, DeviceOK(l), NEW s \in Sapi, NEW info \in Content,
           NEW more \in BOOLEAN
    PROVE  /\ Steady(l, BeginMobileEstablishment(l, s))
           /\ Steady(l, BuildSabmCommand(l, s).lapdm)
           /\ Steady(l, BuildReceiveReady(l, s).lapdm)
           /\ Steady(l, BuildInformationFrame(l, s, info, more).lapdm)
  <1> DEFINE c == l.link[s]
  <1>1. c \in LinkState /\ TransactionOK(c) /\ c.transaction_attempts \in Nat
    BY LapdmAssumption DEF DeviceOK, LapdmState, LinkState
  <1>2. Steady(l, l)
    BY SteadyReflexive
  <1>3. ASSUME NEW d, WindowKept(c, d)
        PROVE  Steady(l, SetLink(l, s, d))
    BY <1>3, SetLinkSteady
  <1>4. Steady(l, BeginMobileEstablishment(l, s))
    BY <1>1, <1>3, ClearedWindowKept DEF BeginMobileEstablishment
  <1>5. Steady(l, BuildSabmCommand(l, s).lapdm)
    BY <1>1, <1>3, ClearedWindowKept DEF BuildSabmCommand, Sending
  <1>6. Steady(l, BuildReceiveReady(l, s).lapdm)
    <2> DEFINE d == [c EXCEPT !.uplink_final_response_pending = FALSE]
    <2>1. WindowKept(c, d)
      BY <1>1 DEF WindowKept, LinkState
    <2>2. \/ BuildReceiveReady(l, s).lapdm = SetLink(l, s, d)
          \/ BuildReceiveReady(l, s).lapdm = l
      BY DEF BuildReceiveReady, Sending
    <2> HIDE DEF d
    <2> QED BY <1>2, <1>3, <2>1, <2>2
  <1>7. Steady(l, BuildInformationFrame(l, s, info, more).lapdm)
    <2> DEFINE frame == IFrame(s, c.downlink_send_sequence,
                               c.next_uplink_receive_sequence, more, FALSE, info)
               sent == [c EXCEPT
                          !.downlink_send_sequence = Successor(@),
                          !.pending_receive_sequence =
                               Successor(c.downlink_send_sequence),
                          !.downlink_segmentation_pending = more,
                          !.downlink_acknowledgement_pending = TRUE]
               armed == ArmTransaction(sent, frame)
    <2>1. CASE c.established /\ ~c.downlink_acknowledgement_pending
      <3>1. BuildInformationFrame(l, s, info, more).lapdm = SetLink(l, s, armed)
        BY <2>1 DEF BuildInformationFrame, Sending
      <3>2. WindowKept(c, armed)
        BY <2>1 DEF WindowKept
      <3> HIDE DEF armed
      <3> QED BY <1>3, <3>1, <3>2
    <2>2. CASE ~(c.established /\ ~c.downlink_acknowledgement_pending)
      BY <1>2, <2>2 DEF BuildInformationFrame, Sending
    <2> QED BY <2>1, <2>2
  <1> QED BY <1>4, <1>5, <1>6, <1>7

LEMMA BuildUaSteady ==
    ASSUME NEW l, DeviceOK(l)
    PROVE  Steady(l, BuildUa(l).lapdm)
  <1> DEFINE d == [l.link[l.sapi] EXCEPT
                     !.established = TRUE,
                     !.downlink_segmentation_pending = FALSE,
                     !.downlink_acknowledgement_pending = FALSE]
  <1>1. l.sapi \in Sapi /\ l.link[l.sapi] \in LinkState
    BY DEF DeviceOK, LapdmState
  <1>2. WindowKept(l.link[l.sapi], d)
    BY <1>1, ClearedWindowKept
  <1>3. BuildUa(l).lapdm = SetLink(l, l.sapi, d)
    BY DEF BuildUa, Sending
  <1> HIDE DEF d
  <1> QED BY <1>1, <1>2, <1>3, SetLinkSteady

\* Whatever SAPI is repeated, repeating changes only its own flag.
LEMMA TakeRetransmissionSteady ==
    ASSUME NEW l, DeviceOK(l)
    PROVE  Steady(l, TakeRetransmission(l).lapdm)
  <1> DEFINE s == CHOOSE s \in Sapi :
                    /\ l.link[s].retransmission_pending
                    /\ \A r \in 0 .. s - 1 : ~l.link[r].retransmission_pending
             m == TakeRetransmission(l).lapdm
  <1> HIDE DEF s
  <1>1. m = [l EXCEPT !.link[s].retransmission_pending = FALSE] \/ m = l
    BY DEF TakeRetransmission, Sending, s
  <1>2. /\ m.uplink_segmentation_active = l.uplink_segmentation_active
        /\ m.reassembly_frames = l.reassembly_frames
        /\ m.layer3_more_data = l.layer3_more_data
        /\ \/ m.link = [l.link EXCEPT ![s] = [@ EXCEPT !.retransmission_pending = FALSE]]
           \/ m.link = l.link
    BY <1>1 DEF DeviceOK, LapdmState
  <1> HIDE DEF m
  <1>3. ASSUME NEW r \in Sapi
        PROVE  WindowKept(l.link[r], m.link[r])
    <2>1. l.link[r] \in LinkState /\ l.link[r].transaction_attempts \in Nat
          /\ l.link \in [Sapi -> LinkState]
      BY LapdmAssumption DEF DeviceOK, LapdmState, LinkState
    <2>2. \/ m.link[r] = l.link[r]
          \/ m.link[r] = [l.link[r] EXCEPT !.retransmission_pending = FALSE]
      BY <1>2, <2>1
    <2> QED BY <2>1, <2>2 DEF WindowKept, LinkState
  <1>4. Timed(l) => Timed(m)
    BY <1>2 DEF Timed
  <1> QED BY <1>3, <1>4 DEF Steady, m

LEMMA ExpireSteady ==
    ASSUME NEW k, NEW l, DeviceOK(l), Steady(k, l), Timed(k) => Timed(l),
           NEW s \in Sapi, k.link[s] = l.link[s]
    PROVE  Steady(k, ExpireTransaction(l, s).lapdm)
  <1> DEFINE c == l.link[s]
             again == [c EXCEPT !.transaction_attempts = @ + 1,
                                !.transaction_frames = T200,
                                !.retransmission_pending = TRUE]
  <1>1. c \in LinkState /\ c.transaction_attempts \in Nat
    BY LapdmAssumption DEF DeviceOK, LapdmState, LinkState
  <1>2. WindowKept(c, again)
    <2>1. /\ again.last_downlink_frame = c.last_downlink_frame
          /\ again.downlink_send_sequence = c.downlink_send_sequence
          /\ again.transaction_attempts = c.transaction_attempts + 1
      BY <1>1 DEF LinkState
    <2> HIDE DEF again
    <2> QED BY <1>1, <2>1 DEF WindowKept
  <1>3. WindowKept(c, ClearLink(c))
    BY <1>1, ClearedWindowKept
  <1>4. \/ ExpireTransaction(l, s).lapdm = SetLink(l, s, again)
        \/ ExpireTransaction(l, s).lapdm = SetLink(l, s, ClearLink(c))
    BY DEF ExpireTransaction, Expiry
  <1> HIDE DEF again
  <1>5. ASSUME NEW d, WindowKept(c, d)
        PROVE  Steady(k, SetLink(l, s, d))
    <2>1. /\ SetLink(l, s, d).link[s] = d
          /\ \A r \in Sapi : r # s => SetLink(l, s, d).link[r] = l.link[r]
          /\ SetLink(l, s, d).uplink_segmentation_active =
               l.uplink_segmentation_active
          /\ SetLink(l, s, d).reassembly_frames = l.reassembly_frames
          /\ SetLink(l, s, d).layer3_more_data = l.layer3_more_data
      BY DEF DeviceOK, LapdmState, SetLink
    <2>2. Timed(k) => Timed(SetLink(l, s, d))
      BY <2>1 DEF Timed
    <2> QED BY <1>5, <2>1, <2>2 DEF Steady
  <1> QED BY <1>2, <1>3, <1>4, <1>5

\* The reassembly timer is not counted down to zero: at one the reassembly is
\* dropped instead.
LEMMA AdvanceFrameSteady ==
    ASSUME NEW l, DeviceOK(l)
    PROVE  Steady(l, AdvanceFrame(l).lapdm)
  <1> DEFINE s == FirstExpiry(l)
             m == TickReassembly(l)
             ticked == TickTransactions(m, s)
  <1>1. CASE ReassemblyExpires(l)
    <2>1. l.sapi \in Sapi /\ <<>> \in Content
          /\ l.link[l.sapi] \in LinkState
      BY LapdmAssumption DEF DeviceOK, LapdmState, Content
    <2>2. AdvanceFrame(l).lapdm = HoldInformation(l, l.sapi, <<>>)
      BY <1>1 DEF AdvanceFrame, Expiry
    <2>3. WindowKept(l.link[l.sapi], ClearLink(l.link[l.sapi]))
      BY <2>1, ClearedWindowKept
    <2> QED BY <2>1, <2>2, <2>3, HeldSteady
  <1>2. CASE ~ReassemblyExpires(l)
    <2>1. /\ m.link = l.link
          /\ DeviceOK(m)
          /\ Timed(l) => Timed(m)
      <3>1. l.reassembly_frames \in 0 .. T200
        BY DEF DeviceOK, LapdmState
      <3>2. l.reassembly_frames > 0 => l.reassembly_frames - 1 \in 0 .. T200
        BY <3>1, LapdmAssumption
      <3>3. m.link = l.link /\ DeviceOK(m)
        BY <3>2 DEF DeviceOK, LapdmState, TickReassembly
      <3>4. CASE l.uplink_segmentation_active /\ l.reassembly_frames > 0
        <4>1. l.reassembly_frames - 1 > 0
          BY <1>2, <3>1, <3>4, LapdmAssumption DEF ReassemblyExpires
        <4> QED BY <3>3, <3>4, <4>1
                DEF DeviceOK, LapdmState, TickReassembly, Timed
      <3>5. CASE ~(l.uplink_segmentation_active /\ l.reassembly_frames > 0)
        BY <3>3, <3>5 DEF TickReassembly
      <3> QED BY <3>3, <3>4, <3>5
    <2>2. /\ s \in 0 .. LinkCount
          /\ \A r \in Sapi : r < s => ~TransactionExpires(m, r)
      BY <2>1, FirstExpiryOK DEF TransactionExpires
    <2> HIDE DEF m, s
    <2>3. /\ DeviceOK(ticked)
          /\ s \in Sapi => ticked.link[s] = l.link[s]
      BY <2>1, <2>2, TickTransactionsOK
    <2>4. /\ ticked.uplink_segmentation_active = m.uplink_segmentation_active
          /\ ticked.reassembly_frames = m.reassembly_frames
          /\ ticked.layer3_more_data = m.layer3_more_data
          /\ ticked.link =
               [r \in Sapi |->
                  IF r < s /\ m.link[r].transaction_frames > 0
                  THEN [m.link[r] EXCEPT !.transaction_frames = @ - 1]
                  ELSE m.link[r]]
      BY <2>1 DEF TickTransactions, DeviceOK, LapdmState
    <2> HIDE DEF ticked
    <2>5. Steady(l, ticked)
      <3>1. Timed(l) => Timed(ticked)
        BY <2>1, <2>4 DEF Timed
      <3>2. ASSUME NEW r \in Sapi
            PROVE  WindowKept(l.link[r], ticked.link[r])
        <4>1. l.link[r] \in LinkState /\ l.link[r].transaction_attempts \in Nat
          BY LapdmAssumption DEF DeviceOK, LapdmState, LinkState
        <4>2. \/ ticked.link[r] = l.link[r]
              \/ ticked.link[r] =
                   [l.link[r] EXCEPT !.transaction_frames = @ - 1]
          BY <2>1, <2>4
        <4> QED BY <4>1, <4>2 DEF WindowKept, LinkState
      <3> QED BY <3>1, <3>2 DEF Steady
    <2>6. CASE s \in Sapi
      <3>1. AdvanceFrame(l).lapdm = ExpireTransaction(ticked, s).lapdm
        BY <1>2, <2>6 DEF AdvanceFrame, ticked, m, s
      <3> QED BY <2>3, <2>5, <2>6, <3>1, ExpireSteady DEF Steady
    <2>7. CASE s \notin Sapi
      <3>1. AdvanceFrame(l).lapdm = ticked
        BY <1>2, <2>7 DEF AdvanceFrame, Expiry, ticked, m, s
      <3> QED BY <2>5, <3>1
    <2> QED BY <2>6, <2>7
  <1> QED BY <1>1, <1>2

LEMMA NextSteady == IndInv /\ [Next]_vars => Steady(lapdm, lapdm')
  <1> SUFFICES ASSUME IndInv, [Next]_vars PROVE Steady(lapdm, lapdm')
    OBVIOUS
  <1> USE DEF IndInv
  <1>1. ASSUME NEW f \in UplinkFrame, Uplink(f)
        PROVE  Steady(lapdm, lapdm')
    BY <1>1, ReceiveUplinkSteady DEF Uplink
  <1>2. ASSUME NEW s \in Sapi, Expect(s) \/ SendSabm(s) \/ SendReceiveReady(s)
        PROVE  Steady(lapdm, lapdm')
    <2>1. <<>> \in Content
      BY LapdmAssumption DEF Content
    <2> QED BY <1>2, <2>1, BuildersSteady
            DEF Expect, SendSabm, SendReceiveReady, Downlink
  <1>3. ASSUME NEW s \in Sapi, NEW info \in Information, NEW more \in BOOLEAN,
               SendInformation(s, info, more)
        PROVE  Steady(lapdm, lapdm')
    BY <1>3, BuildersSteady, InformationType DEF SendInformation, Downlink
  <1>4. ASSUME SendUa PROVE Steady(lapdm, lapdm')
    BY <1>4, BuildUaSteady DEF SendUa
  <1>5. ASSUME Retransmit PROVE Steady(lapdm, lapdm')
    BY <1>5, TakeRetransmissionSteady DEF Retransmit
  <1>6. ASSUME Tick PROVE Steady(lapdm, lapdm')
    BY <1>6, AdvanceFrameSteady DEF Tick
  <1>7. CASE UNCHANGED vars
    BY <1>7, SteadyReflexive DEF vars
  <1> QED
    BY <1>1, <1>2, <1>3, <1>4, <1>5, <1>6, <1>7 DEF Next

\* A reassembly in progress always has its timer running.
THEOREM ReassemblyGuarded == Spec => []ReassemblyTimed
  <1>1. Init => Timed(lapdm)
    BY DEF Init, LapdmReset, Timed
  <1>2. IndInv /\ Timed(lapdm) /\ [Next]_vars => Timed(lapdm)'
    BY NextSteady DEF Steady, Timed
  <1>3. Timed(lapdm) => ReassemblyTimed
    BY DEF Timed, ReassemblyTimed
  <1> QED BY <1>1, <1>2, <1>3, InitInv, NextInv, PTL DEF Spec

\* No call replaces or renumbers a frame that waits for its acknowledgement.
THEOREM WindowNeverReused == Spec => WindowOfOne
  <1>1. IndInv /\ [Next]_vars =>
          [\A s \in Sapi : WindowKept(lapdm.link[s], lapdm'.link[s])]_vars
    BY NextSteady DEF Steady
  <1> QED BY <1>1, InitInv, NextInv, PTL DEF Spec, WindowOfOne
==============================================================================
