------------------------- MODULE SimTransportProofs -------------------------
(***************************************************************************)
(* Theorems about the SIM interface, the card and the handset: types, that *)
(* an answer belongs to the transaction it is read in, and that the secret *)
(* of a subscriber guards the file.  SimInv is the inductive invariant; it *)
(* says how far an answer has come, between the card and the handset.      *)
(***************************************************************************)
EXTENDS SimTransport, TLAPS

Turn == 0 .. Turns - 1
What == Statuses \cup {"ack", "data", "atr", "pts"}
SimByte == [turn : Turn, owed : Turn, what : What, of : Proactive]
Owing == {NothingOwed} \cup Turn

Simi ==
    [present : BOOLEAN, clock : BOOLEAN, active : BOOLEAN, rx : Seq(SimByte),
     ready : BOOLEAN, iir : SUBSET Causes, tx_pending : BOOLEAN, timer : BOOLEAN]
Card ==
    [pts : BOOLEAN, receiving : BOOLEAN, ins : Instructions \cup {"none"},
     fcp : Owing, pending : Owing, chv : [Chv -> Pins],
     attempts : [Chv -> 0 .. ChvAttempts], unblocks : [Chv -> 0 .. UnblockAttempts],
     enabled : BOOLEAN, verified : SUBSET Chv, profiled : BOOLEAN,
     proactive : Proactive, ready : BOOLEAN, fetched : BOOLEAN, timer : BOOLEAN]
SimChunk ==
    [part : {"pts", "header", "body"}, command : SimCommand, last : BOOLEAN, turn : Turn]
PhoneStates == {"off", "atr", "pts", "ready", "header", "body"}
Phone ==
    [state : PhoneStates, chunks : Seq(SimChunk), tx_done : BOOLEAN,
     cause : SUBSET Causes, got : Seq(SimByte), turn : Turn, command : SimCommand,
     fetch : Proactive, open : Proactive, menu : BOOLEAN, profiled : BOOLEAN]
Past ==
    [earned : SUBSET Chv, refused : [Chv -> 0 .. ChvAttempts],
     unblock_refused : [Chv -> 0 .. UnblockAttempts],
     breaks : Nat, gates : Nat, selections : Nat]

Typed ==
    /\ simi \in Simi /\ Len(simi.rx) <= RxSize /\ (simi.ready => simi.rx # <<>>)
    /\ card \in Card /\ phone \in Phone /\ past \in Past
    /\ fiq \subseteq {6, 7} /\ scenario \in Scenarios

\* The handset is in a session with the card, and the card is there.
On == phone.state # "off"
Live == On /\ simi.present

\* A card that is gone says nothing, and the handset is about to hear of it.
Socket ==
    /\ ~simi.present => simi.rx = <<>>
    /\ On => simi.active /\ (simi.present \/ 7 \in fiq)

\* The interrupt line: a character is announced after the TX-empty of the chunk
\* it answers, and taken with it or later.
Line ==
    Live =>
      /\ ~phone.tx_done => simi.tx_pending \/ "tx" \in simi.iir
      /\ "rx" \in simi.iir => simi.rx # <<>> /\ (phone.tx_done \/ "tx" \in simi.iir)
      /\ "rx" \in phone.cause => phone.tx_done \/ "tx" \in phone.cause

\* What the card and the handset make of the transaction under way.
InBody == phone.chunks # <<>>
Transaction ==
    /\ phone.state = "off" => phone.tx_done
    /\ phone.state = "ready" => simi.rx = <<>> /\ phone.got = <<>>
    /\ phone.state = "body" => phone.command.ins \in WithBody
    /\ InBody =>
         /\ phone.state = "body" /\ simi.rx = <<>> /\ phone.got = <<>> /\ simi.clock
         /\ phone.command.ins = "update"
         /\ phone.chunks = <<Chunk("body", phone.command, TRUE, phone.turn)>>
    /\ Live =>
         /\ card.receiving <=>
              (phone.state = "header" /\ phone.command.ins \in WithBody) \/ InBody
         /\ phone.state \in {"header", "body"} => card.ins = phone.command.ins
         /\ {card.pending, card.fcp} \subseteq {NothingOwed, phone.turn}
         /\ NothingOwed \in {card.pending, card.fcp}
         /\ card.receiving => {card.pending, card.fcp} = {NothingOwed}

\* The bytes of the answer: each belongs here, and one that ends it is the last.
Closes(byte, p) ==
    \/ byte.what \in Statuses \cup {"pts"}
    \/ byte.what = "ack" /\ p.command.ins \in WithBody
Fits(byte, p) ==
    /\ byte.turn = p.turn
    /\ Later(byte.owed) = p.turn
         <=> (byte.what = "data" /\ p.command.ins = "get_response")
    /\ p.state # "atr" => byte.what # "atr"
    /\ p.state = "header" /\ p.command.ins \in WithBody => byte.what = "ack"
Answer ==
    On => /\ \A n \in DOMAIN simi.rx :
               Fits(simi.rx[n], phone)
               /\ (Closes(simi.rx[n], phone) => n = Len(simi.rx))
          /\ \A n \in DOMAIN phone.got : Fits(phone.got[n], phone)
          /\ phone.got # <<>> /\ Closes(Last(phone.got), phone) => simi.rx = <<>>
          /\ phone.state = "atr" /\ simi.present =>
               Len(phone.got) + Len(simi.rx) = Len(Atr(phone.turn))

\* The card's counters are what was refused, and what it opened was earned.
Counted(c, p) ==
    \A i \in Chv :
      /\ p.refused[i] = ChvAttempts - c.attempts[i]
      /\ p.unblock_refused[i] = UnblockAttempts - c.unblocks[i]
      /\ i \in c.verified => i \in p.earned /\ c.attempts[i] # 0
Guarded ==
    /\ Counted(card, past)
    /\ phone.state \in {"header", "body"} =>
         \A n \in DOMAIN simi.rx : Releases(simi.rx[n]) => Authorized(card)

SimInv ==
    Typed /\ Socket /\ Line /\ Transaction /\ Answer /\ TxEmptyComesFirst /\ Guarded
------------------------------------------------------------------------------
(* The card: one command *)

LEMMA Turns2 ==
    ASSUME NEW t \in Turn
    PROVE  /\ Later(t) \in Turn /\ Later(t) # t /\ t # NothingOwed
           /\ t \in Owing /\ NothingOwed \in Owing
  BY SimCardAssumption DEF Turn, Later, NothingOwed, Owing

\* The commands of a toolkit profile are those of its two chains.
LEMMA ToolkitNames ==
    /\ "none" \in Proactive
    /\ HasToolkit => "text" \in Proactive
    /\ Selection # <<>> => Head(Selection) \in Proactive
    /\ \A command \in Proactive : Follows(command) \in Proactive
  <1>1. HasToolkit => 1 \in DOMAIN Chain /\ Chain[1] = "text"
    BY SimCardAssumption DEF HasToolkit
  <1>2. Selection # <<>> => 1 \in DOMAIN Selection /\ Head(Selection) = Selection[1]
    BY SimCardAssumption
  <1>3. ASSUME NEW commands \in {Chain, Selection}, NEW command
        PROVE  Successor(commands, command) \in Proactive
    <2>1. Chain \in Seq({"text", "inkey", "input", "menu"})
      <3>1. PICK n \in 0 .. 4 : Chain = SubSeq(<<"text", "inkey", "input", "menu">>, 1, n)
        BY SimCardAssumption
      <3>2. CASE n = 0
        BY <3>1, <3>2
      <3>3. CASE n # 0
        <4>1. <<"text", "inkey", "input", "menu">>
                \in Seq({"text", "inkey", "input", "menu"})
          OBVIOUS
        <4> QED BY <3>1, <3>3, <4>1
      <3> QED BY <3>2, <3>3
    <2>2. DOMAIN commands = 1 .. Len(commands)
      BY <2>1, SimCardAssumption
    <2>3. \A n \in 1 .. Len(commands) - 1 : commands[1 + n] \in Proactive
      BY <2>2 DEF Proactive
    <2> QED BY <2>3 DEF Successor, Proactive
  <1> QED BY <1>1, <1>2, <1>3 DEF Proactive, Follows

StatusOf(b, turn, sw) ==
    /\ b \in SimByte /\ b.turn = turn /\ b.owed = turn
    /\ b.what = sw \/ (sw = "ok" /\ b.what = "proactive")

LEMMA StatusReplies ==
    ASSUME NEW c \in Card, NEW turn \in Turn, NEW sw \in Statuses
    PROVE  /\ Replies(c, turn, sw).card = c
           /\ \E b \in SimByte :
                Replies(c, turn, sw).bytes = <<b>> /\ StatusOf(b, turn, sw)
  <1>1. StatusOf(Status(c, turn, sw), turn, sw)
    BY ToolkitNames DEF Status, Byte, SimByte, StatusOf, What, Statuses, Card
  <1> QED BY <1>1 DEF Replies, Says, StatusOf

\* What a CHV command does, told from its status.
Ruled(b, d, c, m) ==
    \/ /\ Accepted(b)
       /\ d.attempts = [c.attempts EXCEPT ![m.chv] = ChvAttempts]
       /\ d.verified \subseteq c.verified \cup {m.chv}
       /\ \/ /\ m.ins # "unblock" /\ c.attempts[m.chv] # 0
             /\ d.unblocks = c.unblocks
          \/ /\ m.ins = "unblock" /\ c.unblocks[m.chv] # 0 /\ m.secret = Puk
             /\ d.unblocks = [c.unblocks EXCEPT ![m.chv] = UnblockAttempts]
    \/ /\ Refused(b) /\ m.ins = "unblock"
       /\ d.attempts = c.attempts /\ d.verified = c.verified
       /\ d.unblocks = [c.unblocks EXCEPT ![m.chv] = Less(@)]
    \/ /\ Refused(b) /\ m.ins # "unblock"
       /\ d.unblocks = c.unblocks /\ d.verified \subseteq c.verified
       /\ d.attempts = [c.attempts EXCEPT ![m.chv] = Less(@)]
       /\ m.chv \notin d.verified \/ c.attempts[m.chv] = 0
    \/ /\ b.what \in {"unneeded", "refused"}
       /\ d.attempts = c.attempts /\ d.verified = c.verified
       /\ d.unblocks = c.unblocks
Verdict(r, c, m, turn) ==
    \E b \in SimByte :
      /\ r.bytes = <<b>> /\ b.turn = turn /\ b.owed = turn /\ b.what \in Statuses
      /\ r.card \in Card /\ r.card.receiving = c.receiving /\ r.card.ins = c.ins
      /\ r.card.pending = c.pending /\ r.card.fcp = c.fcp
      /\ Ruled(b, r.card, c, m)

LEMMA LessType ==
    ASSUME NEW top \in Nat, NEW n \in 0 .. top
    PROVE  Less(n) \in 0 .. top
  BY DEF Less

LEMMA FailureVerdict ==
    ASSUME NEW c \in Card, NEW m \in SimCommand, NEW turn \in Turn
    PROVE  /\ m.ins # "unblock" => Verdict(ChvFailure(c, m.chv, turn), c, m, turn)
           /\ m.ins = "unblock" => Verdict(UnblockFailure(c, m.chv, turn), c, m, turn)
  <1> DEFINE i == m.chv
             failed == [c EXCEPT !.attempts[i] = Less(c.attempts[i]),
                                 !.verified = @ \ {i}]
             locked == [c EXCEPT !.unblocks[i] = Less(c.unblocks[i])]
  <1>1. i \in Chv /\ c.attempts \in [Chv -> 0 .. ChvAttempts]
        /\ c.unblocks \in [Chv -> 0 .. UnblockAttempts]
    BY DEF SimCommand, Card
  <1>2. Less(c.attempts[i]) \in 0 .. ChvAttempts
        /\ Less(c.unblocks[i]) \in 0 .. UnblockAttempts
    BY <1>1, LessType, SimCardAssumption
  <1>3. failed \in Card /\ locked \in Card
    BY <1>1, <1>2 DEF Card
  <1>4. "blocked" \in Statuses /\ "denied" \in Statuses
    BY DEF Statuses
  <1>5. /\ failed.receiving = c.receiving /\ failed.ins = c.ins
        /\ failed.pending = c.pending /\ failed.fcp = c.fcp
        /\ failed.unblocks = c.unblocks /\ failed.verified = c.verified \ {i}
        /\ failed.attempts = [c.attempts EXCEPT ![i] = Less(@)]
    BY DEF Card
  <1>6. /\ locked.receiving = c.receiving /\ locked.ins = c.ins
        /\ locked.pending = c.pending /\ locked.fcp = c.fcp
        /\ locked.attempts = c.attempts /\ locked.verified = c.verified
        /\ locked.unblocks = [c.unblocks EXCEPT ![i] = Less(@)]
    BY DEF Card
  <1>7. ASSUME NEW sw \in {"blocked", "denied"}, NEW d \in Card
        PROVE  /\ Replies(d, turn, sw).card = d
               /\ \E b \in SimByte :
                    /\ Replies(d, turn, sw).bytes = <<b>> /\ b.turn = turn
                    /\ b.owed = turn /\ b.what \in Statuses /\ Refused(b)
    BY <1>4, StatusReplies DEF StatusOf, Refused
  <1> HIDE DEF failed, locked
  <1>8. ChvFailure(c, i, turn) =
          Replies(failed, turn, IF Less(c.attempts[i]) = 0 THEN "blocked" ELSE "denied")
    BY DEF ChvFailure, failed
  <1>9. UnblockFailure(c, i, turn) =
          Replies(locked, turn, IF Less(c.unblocks[i]) = 0 THEN "blocked" ELSE "denied")
    BY DEF UnblockFailure, locked
  <1>10. m.ins # "unblock" => Verdict(ChvFailure(c, i, turn), c, m, turn)
    BY <1>3, <1>5, <1>7, <1>8 DEF Verdict, Ruled
  <1>11. m.ins = "unblock" => Verdict(UnblockFailure(c, i, turn), c, m, turn)
    BY <1>3, <1>6, <1>7, <1>9 DEF Verdict, Ruled
  <1> QED BY <1>10, <1>11

\* The counters of a CHV that was accepted, and its value.
LEMMA ResetCounters ==
    ASSUME NEW c \in Card, NEW i \in Chv, NEW pin \in Pins
    PROVE  /\ [c.attempts EXCEPT ![i] = ChvAttempts] \in [Chv -> 0 .. ChvAttempts]
           /\ [c.unblocks EXCEPT ![i] = UnblockAttempts] \in [Chv -> 0 .. UnblockAttempts]
           /\ [c.chv EXCEPT ![i] = pin] \in [Chv -> Pins] /\ c.chv[i] \in Pins
           /\ c.verified \cup {i} \in SUBSET Chv /\ c.verified \ {i} \in SUBSET Chv
  <1>1. ChvAttempts \in 0 .. ChvAttempts /\ UnblockAttempts \in 0 .. UnblockAttempts
    BY SimCardAssumption
  <1> QED BY <1>1 DEF Card

LEMMA UnblockVerdict ==
    ASSUME NEW c \in Card, NEW m \in SimCommand, NEW turn \in Turn, m.ins = "unblock"
    PROVE  Verdict(Unblock(c, m, turn), c, m, turn)
  <1> DEFINE i == m.chv
             opened == [c EXCEPT !.chv[i] = m.new, !.unblocks[i] = UnblockAttempts,
                                 !.attempts[i] = ChvAttempts, !.verified = @ \cup {i},
                                 !.enabled = @ \/ i = 1]
  <1>1. i \in Chv /\ m.new \in Pins /\ c.attempts \in [Chv -> 0 .. ChvAttempts]
        /\ c.unblocks \in [Chv -> 0 .. UnblockAttempts]
    BY DEF SimCommand, Card
  <1>2. CASE c.unblocks[i] = 0
    <2>1. c.unblocks = [c.unblocks EXCEPT ![i] = Less(@)]
      BY <1>1, <1>2 DEF Less
    <2>2. PICK b \in SimByte :
            Replies(c, turn, "blocked").bytes = <<b>> /\ StatusOf(b, turn, "blocked")
      BY StatusReplies DEF Statuses
    <2>3. Replies(c, turn, "blocked").card = c
      BY StatusReplies DEF Statuses
    <2>4. Unblock(c, m, turn) = Replies(c, turn, "blocked")
      BY <1>2 DEF Unblock
    <2> QED BY <2>1, <2>2, <2>3, <2>4 DEF Verdict, Ruled, StatusOf, Refused, Statuses
  <1>3. CASE c.unblocks[i] # 0 /\ m.secret # Puk
    BY <1>3, FailureVerdict DEF Unblock
  <1>4. CASE c.unblocks[i] # 0 /\ m.secret = Puk
    <2>1. opened \in Card
      BY <1>1, ResetCounters DEF Card
    <2>2. /\ opened.receiving = c.receiving /\ opened.ins = c.ins
          /\ opened.pending = c.pending /\ opened.fcp = c.fcp
          /\ opened.verified = c.verified \cup {i}
          /\ opened.attempts = [c.attempts EXCEPT ![i] = ChvAttempts]
          /\ opened.unblocks = [c.unblocks EXCEPT ![i] = UnblockAttempts]
      BY DEF Card
    <2> HIDE DEF opened
    <2>3. PICK b \in SimByte :
            Replies(opened, turn, "ok").bytes = <<b>> /\ StatusOf(b, turn, "ok")
      BY <2>1, StatusReplies DEF Statuses
    <2>4. Replies(opened, turn, "ok").card = opened
      BY <2>1, StatusReplies DEF Statuses
    <2>5. Unblock(c, m, turn) = Replies(opened, turn, "ok")
      BY <1>4 DEF Unblock, opened
    <2> QED BY <1>4, <2>1, <2>2, <2>3, <2>4, <2>5
            DEF Verdict, Ruled, StatusOf, Accepted, Statuses
  <1> QED BY <1>2, <1>3, <1>4

\* A command that is answered without looking at the value it presents.
LEMMA IdleVerdict ==
    ASSUME NEW c \in Card, NEW m \in SimCommand, NEW turn \in Turn,
           NEW sw \in {"unneeded", "refused"}
    PROVE  Verdict(Replies(c, turn, sw), c, m, turn)
  <1>1. PICK b \in SimByte : Replies(c, turn, sw).bytes = <<b>> /\ StatusOf(b, turn, sw)
    BY StatusReplies DEF Statuses
  <1>2. Replies(c, turn, sw).card = c
    BY StatusReplies DEF Statuses
  <1> QED BY <1>1, <1>2 DEF Verdict, Ruled, StatusOf, Statuses

\* One that is accepted, with the attempts it gives back.
LEMMA AcceptedVerdict ==
    ASSUME NEW c \in Card, NEW m \in SimCommand, NEW turn \in Turn, NEW d \in Card,
           m.ins # "unblock", c.attempts[m.chv] # 0,
           d.receiving = c.receiving, d.ins = c.ins,
           d.pending = c.pending, d.fcp = c.fcp, d.unblocks = c.unblocks,
           d.verified \subseteq c.verified \cup {m.chv},
           d.attempts = [c.attempts EXCEPT ![m.chv] = ChvAttempts]
    PROVE  Verdict(Replies(d, turn, "ok"), c, m, turn)
  <1>1. PICK b \in SimByte : Replies(d, turn, "ok").bytes = <<b>> /\ StatusOf(b, turn, "ok")
    BY StatusReplies DEF Statuses
  <1>2. Replies(d, turn, "ok").card = d
    BY StatusReplies DEF Statuses
  <1> QED BY <1>1, <1>2 DEF Verdict, Ruled, StatusOf, Accepted, Statuses

LEMMA VerifyVerdict ==
    ASSUME NEW c \in Card, NEW m \in SimCommand, NEW turn \in Turn,
           m.ins # "unblock", c.attempts[m.chv] # 0
    PROVE  Verdict(VerifyOrChange(c, m, turn), c, m, turn)
  <1> DEFINE i == m.chv
             passed == [c EXCEPT !.chv[i] = IF c.ins = "change" THEN m.new ELSE @,
                                 !.attempts[i] = ChvAttempts,
                                 !.verified = @ \cup {i}]
  <1>1. i \in Chv /\ m.new \in Pins
    BY DEF SimCommand
  <1>2. passed \in Card
    BY <1>1, ResetCounters DEF Card
  <1>3. /\ passed.receiving = c.receiving /\ passed.ins = c.ins
        /\ passed.pending = c.pending /\ passed.fcp = c.fcp
        /\ passed.unblocks = c.unblocks /\ passed.verified = c.verified \cup {i}
        /\ passed.attempts = [c.attempts EXCEPT ![i] = ChvAttempts]
    BY DEF Card
  <1>4. VerifyOrChange(c, m, turn) =
          IF i = 1 /\ ~c.enabled THEN Replies(c, turn, "unneeded")
          ELSE IF m.secret # c.chv[i] THEN ChvFailure(c, i, turn)
          ELSE Replies(passed, turn, "ok")
    BY DEF VerifyOrChange
  <1> HIDE DEF passed
  <1>5. Verdict(Replies(passed, turn, "ok"), c, m, turn)
    BY <1>2, <1>3, AcceptedVerdict
  <1> QED BY <1>4, <1>5, IdleVerdict, FailureVerdict

LEMMA EnableVerdict ==
    ASSUME NEW c \in Card, NEW m \in SimCommand, NEW turn \in Turn,
           m.ins # "unblock", c.attempts[m.chv] # 0
    PROVE  Verdict(EnableOrDisable(c, m, turn), c, m, turn)
  <1> DEFINE enabling == c.ins = "enable"
             passed == [c EXCEPT !.attempts[1] = ChvAttempts, !.enabled = enabling,
                          !.verified = IF enabling THEN @ \ {1} ELSE @ \cup {1}]
  <1>1. 1 \in Chv /\ enabling \in BOOLEAN
    BY DEF Chv
  <1>2. passed \in Card
    <2>1. c.chv[1] \in Pins
      BY <1>1 DEF Card
    <2>2. /\ [c.attempts EXCEPT ![1] = ChvAttempts] \in [Chv -> 0 .. ChvAttempts]
          /\ c.verified \cup {1} \in SUBSET Chv /\ c.verified \ {1} \in SUBSET Chv
      BY <1>1, <2>1, ResetCounters
    <2> HIDE DEF enabling
    <2> QED BY <1>1, <2>2 DEF Card
  <1>3. /\ passed.receiving = c.receiving /\ passed.ins = c.ins
        /\ passed.pending = c.pending /\ passed.fcp = c.fcp
        /\ passed.unblocks = c.unblocks /\ passed.verified \subseteq c.verified \cup {1}
        /\ passed.attempts = [c.attempts EXCEPT ![1] = ChvAttempts]
    BY DEF Card
  <1>4. EnableOrDisable(c, m, turn) =
          IF m.chv # 1 THEN Replies(c, turn, "refused")
          ELSE IF enabling = c.enabled THEN Replies(c, turn, "unneeded")
          ELSE IF m.secret # c.chv[1] THEN ChvFailure(c, 1, turn)
          ELSE Replies(passed, turn, "ok")
    BY DEF EnableOrDisable
  <1> HIDE DEF passed, enabling
  <1>5. m.chv = 1 => Verdict(Replies(passed, turn, "ok"), c, m, turn)
    BY <1>2, <1>3, AcceptedVerdict
  <1> QED BY <1>4, <1>5, IdleVerdict, FailureVerdict

LEMMA ProcessVerdict ==
    ASSUME NEW c \in Card, NEW m \in SimCommand, NEW turn \in Turn, c.ins = m.ins
    PROVE  Verdict(ProcessChv(c, m, turn), c, m, turn)
  <1>1. CASE m.ins = "unblock"
    BY <1>1, UnblockVerdict DEF ProcessChv
  <1>2. CASE m.ins # "unblock" /\ c.attempts[m.chv] = 0
    <2>1. m.chv \in Chv /\ c.attempts \in [Chv -> 0 .. ChvAttempts]
      BY DEF SimCommand, Card
    <2>2. c.attempts = [c.attempts EXCEPT ![m.chv] = Less(@)]
      BY <1>2, <2>1 DEF Less
    <2>3. PICK b \in SimByte :
            Replies(c, turn, "blocked").bytes = <<b>> /\ StatusOf(b, turn, "blocked")
      BY StatusReplies DEF Statuses
    <2>4. Replies(c, turn, "blocked").card = c
      BY StatusReplies DEF Statuses
    <2>5. ProcessChv(c, m, turn) = Replies(c, turn, "blocked")
      BY <1>2 DEF ProcessChv
    <2> QED BY <1>2, <2>2, <2>3, <2>4, <2>5 DEF Verdict, Ruled, StatusOf, Refused, Statuses
  <1>3. CASE m.ins # "unblock" /\ c.attempts[m.chv] # 0
    BY <1>3, VerifyVerdict, EnableVerdict DEF ProcessChv
  <1> QED BY <1>1, <1>2, <1>3

\* What any other command leaves alone.
SameSecrets(c, d) ==
    /\ d.attempts = c.attempts /\ d.unblocks = c.unblocks
    /\ d.verified = c.verified /\ d.enabled = c.enabled

\* A command with a body, answered with one status.
Opens(what) == what \in {"data", "ok", "proactive", "result"}
Finished(r, c, m, turn) ==
    \E b \in SimByte :
      /\ r.bytes = <<b>> /\ b.turn = turn /\ b.owed = turn /\ b.what \in Statuses
      /\ r.card \in Card /\ ~r.card.receiving /\ r.card.ins = c.ins
      /\ {r.card.pending, r.card.fcp} \subseteq {NothingOwed, turn}
      /\ NothingOwed \in {r.card.pending, r.card.fcp}
      /\ SameSecrets(c, r.card)
      /\ m.ins \in {"update", "authenticate"} /\ Opens(b.what) => Authorized(r.card)

LEMMA RepliesFinished ==
    ASSUME NEW c \in Card, NEW d \in Card, NEW m \in SimCommand, NEW turn \in Turn,
           NEW sw \in Statuses,
           ~d.receiving, d.ins = c.ins, SameSecrets(c, d),
           {d.pending, d.fcp} \subseteq {NothingOwed, turn},
           NothingOwed \in {d.pending, d.fcp},
           m.ins \in {"update", "authenticate"} /\ Opens(sw) => Authorized(d)
    PROVE  Finished(Replies(d, turn, sw), c, m, turn)
  <1>1. PICK b \in SimByte : Replies(d, turn, sw).bytes = <<b>> /\ StatusOf(b, turn, sw)
    BY StatusReplies
  <1>2. Replies(d, turn, sw).card = d
    BY StatusReplies
  <1>3. b.what \in Statuses /\ (Opens(b.what) => Opens(sw))
    BY <1>1 DEF StatusOf, Statuses, Opens
  <1> QED BY <1>1, <1>2, <1>3 DEF Finished, StatusOf

\* A card between two commands: nothing is left for GET RESPONSE.
Bare(c) == c \in Card /\ ~c.receiving /\ c.pending = NothingOwed /\ c.fcp = NothingOwed

LEMMA BareReplies ==
    ASSUME NEW c, Bare(c), NEW d, Bare(d), NEW m \in SimCommand, NEW turn \in Turn,
           NEW sw \in Statuses, d.ins = c.ins, SameSecrets(c, d),
           m.ins \notin {"update", "authenticate"} \/ ~Opens(sw) \/ Authorized(d)
    PROVE  Finished(Replies(d, turn, sw), c, m, turn)
  BY RepliesFinished DEF Bare

LEMMA ProfileFinished ==
    ASSUME NEW c, Bare(c), NEW m \in SimCommand, NEW turn \in Turn, m.ins = "profile"
    PROVE  Finished(AcceptTerminalProfile(c, turn), c, m, turn)
  <1> DEFINE profiled == [c EXCEPT !.profiled = TRUE]
             begun == [profiled EXCEPT !.ready = FALSE, !.fetched = FALSE,
                                       !.proactive = "text", !.timer = TRUE]
  <1>1. Bare(profiled) /\ profiled.ins = c.ins /\ SameSecrets(c, profiled)
    BY DEF Bare, Card, SameSecrets
  <1>2. HasToolkit => Bare(begun) /\ begun.ins = c.ins /\ SameSecrets(c, begun)
    BY ToolkitNames DEF Bare, Card, SameSecrets
  <1>3. SameSecrets(c, c) /\ "ok" \in Statuses /\ "refused" \in Statuses
    BY DEF SameSecrets, Statuses
  <1>4. AcceptTerminalProfile(c, turn) \in
          {Replies(c, turn, "refused"), Replies(profiled, turn, "ok")}
          \cup (IF HasToolkit THEN {Replies(begun, turn, "ok")} ELSE {})
    BY DEF AcceptTerminalProfile
  <1> HIDE DEF profiled, begun
  <1>5. Finished(Replies(c, turn, "refused"), c, m, turn)
    BY <1>3, BareReplies
  <1>6. Finished(Replies(profiled, turn, "ok"), c, m, turn)
    BY <1>1, <1>3, BareReplies
  <1>7. HasToolkit => Finished(Replies(begun, turn, "ok"), c, m, turn)
    BY <1>2, <1>3, BareReplies
  <1> QED BY <1>4, <1>5, <1>6, <1>7

LEMMA TerminalResponseFinished ==
    ASSUME NEW c, Bare(c), NEW m \in SimCommand, NEW turn \in Turn,
           m.ins = "terminal_response"
    PROVE  Finished(AcceptTerminalResponse(c, m, turn), c, m, turn)
  <1> DEFINE next == Follows(c.proactive)
             closed == [c EXCEPT !.fetched = FALSE, !.proactive = next,
                                 !.ready = next # "none",
                                 !.timer = @ \/ c.proactive = "refresh"]
  <1>1. next \in Proactive
    BY ToolkitNames DEF Bare, Card
  <1> HIDE DEF next
  <1>2. Bare(closed) /\ closed.ins = c.ins /\ SameSecrets(c, closed)
    <2>1. (next # "none") \in BOOLEAN /\ (c.timer \/ c.proactive = "refresh") \in BOOLEAN
      OBVIOUS
    <2> QED BY <1>1, <2>1 DEF Bare, Card, SameSecrets
  <1>3. SameSecrets(c, c) /\ "ok" \in Statuses /\ "refused" \in Statuses
    BY DEF SameSecrets, Statuses
  <1>4. AcceptTerminalResponse(c, m, turn) \in
          {Replies(c, turn, "refused"), Replies(closed, turn, "ok")}
    BY DEF AcceptTerminalResponse, next
  <1> HIDE DEF closed
  <1>5. Finished(Replies(c, turn, "refused"), c, m, turn)
    BY <1>3, BareReplies
  <1>6. Finished(Replies(closed, turn, "ok"), c, m, turn)
    BY <1>2, <1>3, BareReplies
  <1> QED BY <1>4, <1>5, <1>6

LEMMA EnvelopeFinished ==
    ASSUME NEW c, Bare(c), NEW m \in SimCommand, NEW turn \in Turn, m.ins = "envelope"
    PROVE  Finished(AcceptEnvelope(c, turn), c, m, turn)
  <1> DEFINE chosen == [c EXCEPT !.proactive = Head(Selection), !.ready = TRUE]
  <1>1. Selection # <<>> =>
          Bare(chosen) /\ chosen.ins = c.ins /\ SameSecrets(c, chosen)
    BY ToolkitNames DEF Bare, Card, SameSecrets
  <1>2. SameSecrets(c, c) /\ "ok" \in Statuses /\ "refused" \in Statuses
    BY DEF SameSecrets, Statuses
  <1>3. AcceptEnvelope(c, turn) \in
          {Replies(c, turn, "refused"), Replies(c, turn, "ok")}
          \cup (IF Selection # <<>> THEN {Replies(chosen, turn, "ok")} ELSE {})
    BY DEF AcceptEnvelope
  <1> HIDE DEF chosen
  <1>4. /\ Finished(Replies(c, turn, "refused"), c, m, turn)
        /\ Finished(Replies(c, turn, "ok"), c, m, turn)
    BY <1>2, BareReplies
  <1>5. Selection # <<>> => Finished(Replies(chosen, turn, "ok"), c, m, turn)
    BY <1>1, <1>2, BareReplies
  <1> QED BY <1>3, <1>4, <1>5

\* finish_body: a CHV command has its verdict, any other leaves the CHVs alone.
LEMMA BodyFinished ==
    ASSUME NEW c \in Card, c.pending = NothingOwed, c.fcp = NothingOwed,
           NEW m \in SimCommand, NEW turn \in Turn, c.ins = m.ins, m.ins \in WithBody
    PROVE  LET idle == [c EXCEPT !.receiving = FALSE]
               r == FinishBody(c, m, turn)
           IN  /\ SameSecrets(c, idle) /\ Bare(idle) /\ idle.ins = c.ins
               /\ m.ins \in ChvCommands => Verdict(r, idle, m, turn)
               /\ m.ins \notin ChvCommands => Finished(r, idle, m, turn)
  <1> DEFINE idle == [c EXCEPT !.receiving = FALSE]
             r == FinishBody(c, m, turn)
             selected == [idle EXCEPT !.fcp = turn]
             run == [idle EXCEPT !.pending = turn]
  <1>1. SameSecrets(c, idle) /\ Bare(idle) /\ idle.ins = c.ins
    BY DEF SameSecrets, Bare, Card
  <1>2. SameSecrets(idle, idle) /\ (Authorized(idle) <=> Authorized(c))
    BY DEF SameSecrets, Authorized, Card
  <1>3. {"ok", "refused", "result", "denied"} \subseteq Statuses
        /\ ~Opens("denied") /\ ~Opens("refused")
    BY DEF Statuses, Opens
  <1>4. /\ selected \in Card /\ ~selected.receiving /\ selected.ins = idle.ins
        /\ SameSecrets(idle, selected)
        /\ selected.fcp = turn /\ selected.pending = NothingOwed
    BY <1>1, Turns2 DEF SameSecrets, Bare, Card
  <1>5. /\ run \in Card /\ ~run.receiving /\ run.ins = idle.ins
        /\ SameSecrets(idle, run) /\ (Authorized(c) => Authorized(run))
        /\ run.pending = turn /\ run.fcp = NothingOwed
    BY <1>1, Turns2 DEF SameSecrets, Bare, Card, Authorized
  <1> SUFFICES /\ m.ins \in ChvCommands => Verdict(r, idle, m, turn)
               /\ m.ins \notin ChvCommands => Finished(r, idle, m, turn)
    BY <1>1
  <1>6. CASE m.ins \in ChvCommands
    <2>1. r = ProcessChv(idle, m, turn)
      BY <1>6 DEF FinishBody, ChvCommands
    <2> HIDE DEF idle, r
    <2>2. idle \in Card
      BY <1>1 DEF Bare
    <2> QED BY <1>1, <1>6, <2>1, <2>2, ProcessVerdict
  <1>7. CASE m.ins = "profile"
    <2>1. r = AcceptTerminalProfile(idle, turn)
      BY <1>7 DEF FinishBody, ChvCommands
    <2> HIDE DEF idle, r
    <2> QED BY <1>1, <1>7, <2>1, ProfileFinished DEF ChvCommands
  <1>8. CASE m.ins = "terminal_response"
    <2>1. r = AcceptTerminalResponse(idle, m, turn)
      BY <1>8 DEF FinishBody, ChvCommands
    <2> HIDE DEF idle, r
    <2> QED BY <1>1, <1>8, <2>1, TerminalResponseFinished DEF ChvCommands
  <1>9. CASE m.ins = "envelope"
    <2>1. r = AcceptEnvelope(idle, turn)
      BY <1>9 DEF FinishBody, ChvCommands
    <2> HIDE DEF idle, r
    <2> QED BY <1>1, <1>9, <2>1, EnvelopeFinished DEF ChvCommands
  <1>10. CASE m.ins = "select"
    <2>1. r = Replies(selected, turn, "result")
      BY <1>10 DEF FinishBody, ChvCommands
    <2> HIDE DEF idle, r, selected
    <2>2. idle \in Card
      BY <1>1 DEF Bare
    <2> QED BY <1>1, <1>3, <1>4, <1>10, <2>1, <2>2, RepliesFinished DEF ChvCommands
  <1>11. CASE m.ins = "authenticate"
    <2>1. r = IF Authorized(c) THEN Replies(run, turn, "result")
              ELSE Replies(idle, turn, "denied")
      BY <1>11 DEF FinishBody, ChvCommands
    <2> HIDE DEF idle, r, run
    <2>2. idle \in Card
      BY <1>1 DEF Bare
    <2>3. Authorized(c) => Finished(Replies(run, turn, "result"), idle, m, turn)
      BY <1>1, <1>3, <1>5, <2>2, RepliesFinished
    <2>4. Finished(Replies(idle, turn, "denied"), idle, m, turn)
      BY <1>1, <1>2, <1>3, BareReplies
    <2> QED BY <1>1, <1>11, <2>1, <2>3, <2>4 DEF ChvCommands
  <1>12. CASE m.ins = "update"
    <2>1. r = Replies(idle, turn, IF Authorized(c) THEN "ok" ELSE "denied")
      BY <1>12 DEF FinishBody, ChvCommands
    <2> HIDE DEF idle, r
    <2>2. Finished(r, idle, m, turn)
      BY <1>1, <1>2, <1>3, <2>1, BareReplies
    <2> QED BY <1>1, <1>12, <2>2 DEF ChvCommands
  <1> HIDE DEF idle, r
  <1> QED BY <1>6, <1>7, <1>8, <1>9, <1>10, <1>11, <1>12 DEF WithBody

\* The answer to a header: a procedure byte that asks for the body, a status, or
\* a procedure byte, data and status.
HeaderByte(b, c, m, turn) ==
    /\ b \in SimByte /\ b.turn = turn /\ b.what \in Statuses \cup {"ack", "data"}
    /\ m.ins \in WithBody => b.what = "ack"
    /\ IF b.what = "data" /\ m.ins = "get_response"
       THEN b.owed \in {c.pending, c.fcp} \ {NothingOwed} ELSE b.owed = turn
Ends(b, m) == b.what \in Statuses \cup {"pts"} \/ (b.what = "ack" /\ m.ins \in WithBody)
Headed(r, c, m, turn) ==
    /\ r.card \in Card /\ r.card.ins = m.ins /\ SameSecrets(c, r.card)
    /\ r.card.receiving <=> m.ins \in WithBody
    /\ r.card.pending = NothingOwed /\ r.card.fcp = NothingOwed
    /\ r.bytes \in Seq(SimByte) /\ r.bytes # <<>> /\ Len(r.bytes) <= 3
    /\ \A n \in DOMAIN r.bytes :
         /\ HeaderByte(r.bytes[n], c, m, turn)
         /\ Ends(r.bytes[n], m) => n = Len(r.bytes)
         /\ m.ins \in {"read", "update", "authenticate"} /\ Opens(r.bytes[n].what)
              => Authorized(c)

LEMMA StatusHeaded ==
    ASSUME NEW c \in Card, NEW m \in SimCommand, NEW turn \in Turn, NEW d \in Card,
           NEW sw \in Statuses, m.ins \notin WithBody,
           d.ins = m.ins, SameSecrets(c, d), ~d.receiving,
           d.pending = NothingOwed, d.fcp = NothingOwed,
           m.ins = "read" => ~Opens(sw)
    PROVE  Headed(Replies(d, turn, sw), c, m, turn)
  <1>1. PICK b \in SimByte : Replies(d, turn, sw).bytes = <<b>> /\ StatusOf(b, turn, sw)
    BY StatusReplies
  <1>2. Replies(d, turn, sw).card = d
    BY StatusReplies
  <1>3. b.what \in Statuses /\ b.what \notin {"ack", "data"} /\ b.turn = turn
        /\ b.owed = turn /\ (Opens(b.what) => Opens(sw))
    BY <1>1 DEF StatusOf, Statuses, Opens
  <1>4. HeaderByte(b, c, m, turn)
    BY <1>3 DEF HeaderByte
  <1>5. m.ins \notin {"update", "authenticate"}
    BY DEF WithBody
  <1>6. <<b>> \in Seq(SimByte) /\ Len(<<b>>) = 1 /\ <<b>> # <<>>
        /\ \A n \in DOMAIN <<b>> : n = 1 /\ <<b>>[n] = b
    OBVIOUS
  <1> QED BY <1>1, <1>2, <1>3, <1>4, <1>5, <1>6 DEF Headed

LEMMA OutgoingHeaded ==
    ASSUME NEW c \in Card, NEW m \in SimCommand, NEW turn \in Turn, NEW d \in Card,
           NEW owed \in Turn, NEW of \in Proactive, m.ins \notin WithBody,
           d.ins = m.ins, SameSecrets(c, d), ~d.receiving,
           d.pending = NothingOwed, d.fcp = NothingOwed,
           m.ins = "read" => Authorized(c),
           IF m.ins = "get_response" THEN owed \in {c.pending, c.fcp} ELSE owed = turn
    PROVE  Headed(Outgoing(d, turn, owed, of), c, m, turn)
  <1> DEFINE a == Byte(turn, turn, "ack", "none")
             b == Byte(turn, owed, "data", of)
             s == IF Advertises(d) THEN Byte(turn, turn, "proactive", d.proactive)
                                   ELSE Byte(turn, turn, "ok", "none")
  <1>1. Outgoing(d, turn, owed, of).card = d
        /\ Outgoing(d, turn, owed, of).bytes = <<a, b, s>>
    BY DEF Outgoing, Says
  <1>2. a \in SimByte /\ b \in SimByte /\ s \in SimByte
    BY ToolkitNames DEF Byte, SimByte, What, Statuses, Card
  <1>3. HeaderByte(a, c, m, turn) /\ a.what = "ack"
    BY <1>2 DEF HeaderByte, Byte
  <1>4. HeaderByte(b, c, m, turn) /\ b.what = "data"
    BY <1>2, Turns2 DEF HeaderByte, Byte, Statuses
  <1>5. HeaderByte(s, c, m, turn)
    BY <1>2 DEF HeaderByte, Byte, Statuses
  <1>6. ~Ends(a, m) /\ ~Ends(b, m)
    BY <1>3, <1>4 DEF Ends, Statuses
  <1>7. m.ins \notin {"update", "authenticate"}
    BY DEF WithBody
  <1> HIDE DEF a, b, s
  <1>8. /\ <<a, b, s>> \in Seq(SimByte) /\ Len(<<a, b, s>>) = 3 /\ <<a, b, s>> # <<>>
        /\ \A n \in DOMAIN <<a, b, s>> :
             \/ n = 1 /\ <<a, b, s>>[n] = a
             \/ n = 2 /\ <<a, b, s>>[n] = b
             \/ n = 3 /\ <<a, b, s>>[n] = s
    BY <1>2
  <1> QED BY <1>1, <1>3, <1>4, <1>5, <1>6, <1>7, <1>8 DEF Headed

LEMMA HeaderHeaded ==
    ASSUME NEW c \in Card, NEW m \in SimCommand, NEW turn \in Turn, ~c.receiving,
           NothingOwed \in {c.pending, c.fcp}
    PROVE  Headed(FinishHeader(c, m, turn), c, m, turn)
  <1> DEFINE taken == TakeHeader(c, m.ins)
             r == FinishHeader(c, m, turn)
  <1>1. m.ins \in Instructions /\ m.of \in Proactive
    BY DEF SimCommand
  <1>2. /\ taken \in Card /\ taken.ins = m.ins /\ SameSecrets(c, taken)
        /\ ~taken.receiving
        /\ m.ins # "get_response" =>
             taken.pending = NothingOwed /\ taken.fcp = NothingOwed
        /\ m.ins = "get_response" =>
             taken.pending = c.pending /\ taken.fcp = c.fcp
    BY <1>1 DEF TakeHeader, Card, SameSecrets, Owing
  <1>3. {"ok", "refused", "denied"} \subseteq Statuses
        /\ ~Opens("denied") /\ ~Opens("refused")
    BY DEF Statuses, Opens
  <1>4. c.pending \in Owing /\ c.fcp \in Owing
    BY DEF Card
  <1>5. CASE m.ins \in WithBody
    <2> DEFINE waits == [taken EXCEPT !.receiving = TRUE]
               a == Byte(turn, turn, "ack", "none")
    <2>1. r = Says(waits, <<a>>)
      BY <1>5 DEF FinishHeader
    <2>2. /\ waits \in Card /\ waits.ins = m.ins /\ SameSecrets(c, waits)
          /\ waits.receiving /\ waits.pending = NothingOwed /\ waits.fcp = NothingOwed
      <3> HIDE DEF taken
      <3>1. m.ins # "get_response"
        BY <1>5 DEF WithBody, ChvCommands
      <3> QED BY <1>2, <3>1 DEF Card, SameSecrets
    <2>3. a \in SimByte /\ a.what = "ack" /\ HeaderByte(a, c, m, turn)
      BY ToolkitNames DEF Byte, SimByte, What, HeaderByte
    <2> HIDE DEF waits, a
    <2>4. <<a>> \in Seq(SimByte) /\ Len(<<a>>) = 1 /\ <<a>> # <<>>
          /\ \A n \in DOMAIN <<a>> : n = 1 /\ <<a>>[n] = a
      BY <2>3
    <2>5. Says(waits, <<a>>).card = waits /\ Says(waits, <<a>>).bytes = <<a>>
      BY DEF Says
    <2>6. ~Opens(a.what)
      BY <2>3 DEF Opens
    <2> HIDE DEF r, taken
    <2>7. ASSUME NEW n \in DOMAIN <<a>>
          PROVE  /\ HeaderByte(<<a>>[n], c, m, turn)
                 /\ Ends(<<a>>[n], m) => n = Len(<<a>>)
                 /\ ~Opens(<<a>>[n].what)
      BY <2>3, <2>4, <2>6
    <2>8. /\ r.card \in Card /\ r.card.ins = m.ins /\ SameSecrets(c, r.card)
          /\ r.card.pending = NothingOwed /\ r.card.fcp = NothingOwed
      BY <2>1, <2>2, <2>5
    <2>9. r.card.receiving <=> m.ins \in WithBody
      BY <1>5, <2>1, <2>2, <2>5
    <2>10. r.bytes = <<a>>
      BY <2>1, <2>5
    <2> QED BY <2>4, <2>7, <2>8, <2>9, <2>10 DEF Headed, r
  <1>6. CASE m.ins = "get_response"
    <2> DEFINE answered == [taken EXCEPT !.pending = NothingOwed]
               described == [taken EXCEPT !.fcp = NothingOwed]
    <2>1. /\ answered \in Card /\ answered.ins = m.ins /\ SameSecrets(c, answered)
          /\ ~answered.receiving
          /\ answered.pending = NothingOwed /\ answered.fcp = c.fcp
      <3> HIDE DEF taken
      <3> QED BY <1>2, <1>6 DEF Card, SameSecrets, Owing
    <2>2. /\ described \in Card /\ described.ins = m.ins /\ SameSecrets(c, described)
          /\ ~described.receiving
          /\ described.pending = c.pending /\ described.fcp = NothingOwed
      <3> HIDE DEF taken
      <3> QED BY <1>2, <1>6 DEF Card, SameSecrets, Owing
    <2>3. m.ins \notin WithBody /\ m.ins # "read"
      BY <1>6 DEF WithBody, ChvCommands
    <2>4. r = IF c.pending # NothingOwed THEN Outgoing(answered, turn, c.pending, "none")
              ELSE IF c.fcp # NothingOwed THEN Outgoing(described, turn, c.fcp, "none")
              ELSE Replies(taken, turn, "refused")
      <3> HIDE DEF taken
      <3>1. FinishHeader(c, m, turn) = GetResponse(taken, turn)
        BY <1>6, <2>3 DEF FinishHeader, taken
      <3> QED BY <1>2, <1>6, <3>1 DEF GetResponse
    <2> HIDE DEF answered, described, taken
    <2>5. CASE c.pending # NothingOwed
      <3>1. c.pending \in Turn /\ c.fcp = NothingOwed
        BY <1>4, <2>5 DEF Owing
      <3>2. Headed(Outgoing(answered, turn, c.pending, "none"), c, m, turn)
        BY <1>6, <2>1, <2>3, <3>1, OutgoingHeaded, ToolkitNames
      <3> QED BY <2>4, <2>5, <3>2
    <2>6. CASE c.pending = NothingOwed /\ c.fcp # NothingOwed
      <3>1. c.fcp \in Turn
        BY <1>4, <2>6 DEF Owing
      <3>2. Headed(Outgoing(described, turn, c.fcp, "none"), c, m, turn)
        BY <1>6, <2>2, <2>3, <2>6, <3>1, OutgoingHeaded, ToolkitNames
      <3> QED BY <2>4, <2>6, <3>2
    <2>7. CASE c.pending = NothingOwed /\ c.fcp = NothingOwed
      <3>1. Headed(Replies(taken, turn, "refused"), c, m, turn)
        BY <1>2, <1>3, <1>6, <2>3, <2>7, StatusHeaded
      <3> QED BY <2>4, <2>7, <3>1
    <2> QED BY <2>5, <2>6, <2>7
  <1>7. CASE m.ins = "fetch"
    <2> DEFINE fetched == [taken EXCEPT !.ready = FALSE, !.fetched = TRUE]
    <2>1. /\ fetched \in Card /\ fetched.ins = m.ins /\ SameSecrets(c, fetched)
          /\ ~fetched.receiving
          /\ fetched.pending = NothingOwed /\ fetched.fcp = NothingOwed
      <3> HIDE DEF taken
      <3> QED BY <1>2, <1>7 DEF Card, SameSecrets
    <2>2. m.ins \notin WithBody
      BY <1>7 DEF WithBody, ChvCommands
    <2>3. r = Fetch(taken, m, turn)
      BY <1>7, <2>2 DEF FinishHeader
    <2>4. taken.proactive \in Proactive
      BY <1>2 DEF Card
    <2> HIDE DEF taken, fetched
    <2>5. r \in {Replies(taken, turn, "refused"),
                 Outgoing(fetched, turn, turn, taken.proactive)}
      BY <2>3 DEF Fetch, fetched
    <2>6. Headed(Replies(taken, turn, "refused"), c, m, turn)
      BY <1>2, <1>3, <1>7, <2>2, StatusHeaded
    <2>7. Headed(Outgoing(fetched, turn, turn, taken.proactive), c, m, turn)
      BY <1>7, <2>1, <2>2, <2>4, OutgoingHeaded
    <2> QED BY <2>5, <2>6, <2>7
  <1>8. CASE m.ins \in {"status", "read"}
    <2>1. m.ins \notin WithBody
      BY <1>8 DEF WithBody, ChvCommands
    <2>2. r = IF m.ins = "status" \/ Authorized(c) THEN Outgoing(taken, turn, turn, "none")
              ELSE Replies(taken, turn, "denied")
      BY <1>8, <2>1 DEF FinishHeader
    <2> HIDE DEF taken
    <2>3. m.ins = "status" \/ Authorized(c) =>
            Headed(Outgoing(taken, turn, turn, "none"), c, m, turn)
      BY <1>2, <1>8, <2>1, OutgoingHeaded, ToolkitNames
    <2>4. Headed(Replies(taken, turn, "denied"), c, m, turn)
      BY <1>2, <1>3, <1>8, <2>1, StatusHeaded
    <2> QED BY <2>2, <2>3, <2>4
  <1> QED BY <1>1, <1>5, <1>6, <1>7, <1>8 DEF Instructions

------------------------------------------------------------------------------
(* The interface and the handset *)

LEMMA PlainTyped ==
    /\ \A ins \in Instructions, of \in Proactive : Naming(ins, of) \in SimCommand
                                                   /\ Naming(ins, of).ins = ins
    /\ \A ins \in Instructions : Plain(ins) \in SimCommand /\ Plain(ins).ins = ins
    /\ \A turn \in Turn : PhoneOff(turn) \in Phone
  <1> DEFINE status == CHOOSE m \in SimCommand : m.ins = "status"
  <1>1. PICK pin \in Pins : TRUE
    BY SimCardAssumption
  <1>2. [ins |-> "status", chv |-> 1, secret |-> pin, new |-> pin, of |-> "none"]
          \in SimCommand
    BY ToolkitNames DEF SimCommand, Secret, Chv, Instructions
  <1>3. status \in SimCommand
    BY <1>2
  <1> HIDE DEF status
  <1>4. \A ins \in Instructions : [status EXCEPT !.ins = ins] \in SimCommand
                                  /\ [status EXCEPT !.ins = ins].ins = ins
    BY <1>3 DEF SimCommand
  <1>5. \A ins \in Instructions : Plain(ins) = [status EXCEPT !.ins = ins]
    BY DEF Plain, status
  <1>6. \A ins \in Instructions, of \in Proactive :
          /\ [Plain(ins) EXCEPT !.of = of] \in SimCommand
          /\ [Plain(ins) EXCEPT !.of = of].ins = ins
    BY <1>4, <1>5 DEF SimCommand
  <1>7. ASSUME NEW turn \in Turn PROVE PhoneOff(turn) \in Phone
    <2>1. <<>> \in Seq(SimChunk) /\ <<>> \in Seq(SimByte)
      OBVIOUS
    <2>2. "off" \in PhoneStates /\ {} \in SUBSET Causes /\ "none" \in Proactive
      BY ToolkitNames DEF PhoneStates
    <2>3. [state |-> "off", chunks |-> <<>>, tx_done |-> TRUE, cause |-> {},
           got |-> <<>>, turn |-> turn, command |-> status,
           fetch |-> "none", open |-> "none", menu |-> FALSE, profiled |-> FALSE] \in Phone
      BY <1>3, <2>1, <2>2 DEF Phone
    <2> QED BY <2>3 DEF PhoneOff, status
  <1> QED BY <1>4, <1>5, <1>6, <1>7 DEF Naming

LEMMA CommandsTyped ==
    ASSUME Typed
    PROVE  scenario.commands \cup ToolkitCommands \subseteq SimCommand
  <1>1. {"profile", "envelope", "fetch", "terminal_response"} \subseteq Instructions
    BY DEF Instructions, WithBody
  <1>2. phone.fetch \in Proactive /\ phone.open \in Proactive
    BY DEF Typed, Phone
  <1>3. ToolkitCommands \subseteq SimCommand
    BY <1>1, <1>2, PlainTyped DEF ToolkitCommands
  <1>4. scenario.commands \subseteq SimCommand
    BY SimInterfaceAssumption DEF Typed
  <1> QED BY <1>3, <1>4

\* A chunk written to an empty receiver: the queue holds what the card said.
LEMMA Flushed ==
    ASSUME NEW s \in Simi, NEW c, NEW chunk,
           s.clock, s.active, s.rx = <<>>, ~s.ready,
           s.present => /\ Receive(c, chunk).bytes \in Seq(SimByte)
                        /\ Len(Receive(c, chunk).bytes) <= 3
    PROVE  LET f == Flush(s, c, chunk) IN
           /\ f.simi \in Simi /\ f.simi.rx = f.bytes /\ Len(f.bytes) <= RxSize
           /\ f.simi.present = s.present /\ f.simi.clock /\ f.simi.active
           /\ f.simi.iir = s.iir /\ ~f.simi.ready /\ f.simi.tx_pending
           /\ IF s.present THEN f.card = Receive(c, chunk).card
                                /\ f.bytes = Receive(c, chunk).bytes
              ELSE f.card = c /\ f.bytes = <<>>
  <1> DEFINE heard == IF s.present THEN Receive(c, chunk) ELSE Says(c, <<>>)
             said == heard.bytes
             queued == SubSeq(s.rx \o said, 1,
                              IF Len(s.rx \o said) < RxSize
                              THEN Len(s.rx \o said) ELSE RxSize)
             scheduled == ScheduleCardBytes([s EXCEPT !.rx = queued], TRUE, queued # s.rx)
             f == Flush(s, c, chunk)
  <1>1. RxSize \in Nat /\ RxSize >= 3
    BY SimInterfaceAssumption
  <1>2. said \in Seq(SimByte) /\ Len(said) <= 3
    BY DEF Says
  <1>3. heard.card = (IF s.present THEN Receive(c, chunk).card ELSE c)
        /\ said = (IF s.present THEN Receive(c, chunk).bytes ELSE <<>>)
    BY DEF Says
  <1>4. f.simi = scheduled /\ f.card = heard.card /\ f.bytes = said
    BY DEF Flush
  <1> HIDE DEF heard, said, f
  <1>5. s.rx \o said = said
    BY <1>2
  <1>6. queued = said
    BY <1>1, <1>2, <1>5
  <1> HIDE DEF queued
  <1>7. [s EXCEPT !.rx = queued] \in Simi
    BY <1>2, <1>6 DEF Simi
  <1>8. /\ scheduled \in Simi /\ scheduled.rx = said
        /\ scheduled.present = s.present /\ scheduled.clock /\ scheduled.active
        /\ scheduled.iir = s.iir /\ ~scheduled.ready /\ scheduled.tx_pending
    <2>1. CASE queued # s.rx
      BY <1>6, <1>7, <2>1 DEF ScheduleCardBytes, Simi
    <2>2. CASE queued = s.rx
      BY <1>6, <1>7, <2>2 DEF ScheduleCardBytes, Simi
    <2> QED BY <2>1, <2>2
  <1> HIDE DEF scheduled
  <1>9. Len(said) <= RxSize
    BY <1>1, <1>2
  <1> QED BY <1>3, <1>4, <1>8, <1>9 DEF f

------------------------------------------------------------------------------
(* Steps of the handset *)

\* The answer that a header brings is one to its own transaction.
LEMMA HeadedFits ==
    ASSUME NEW r, NEW c, NEW m \in SimCommand, NEW old \in Turn,
           {c.pending, c.fcp} \subseteq {NothingOwed, old},
           Headed(r, c, m, Later(old)), NEW n \in DOMAIN r.bytes
    PROVE  /\ r.bytes[n].turn = Later(old) /\ r.bytes[n].what # "atr"
           /\ Later(r.bytes[n].owed) = Later(old)
                <=> (r.bytes[n].what = "data" /\ m.ins = "get_response")
           /\ m.ins \in WithBody => r.bytes[n].what = "ack"
  <1> DEFINE b == r.bytes[n]
  <1>1. HeaderByte(b, c, m, Later(old))
    BY DEF Headed
  <1>2. Later(old) \in Turn /\ Later(Later(old)) # Later(old)
    BY Turns2
  <1> HIDE DEF b
  <1>3. CASE b.what = "data" /\ m.ins = "get_response"
    <2>1. b.owed = old
      BY <1>1, <1>3 DEF HeaderByte
    <2> QED BY <1>1, <1>3, <2>1 DEF HeaderByte, Statuses, b
  <1>4. CASE ~(b.what = "data" /\ m.ins = "get_response")
    <2>1. b.owed = Later(old)
      BY <1>1, <1>4 DEF HeaderByte
    <2> QED BY <1>1, <1>2, <1>4, <2>1 DEF HeaderByte, Statuses, b
  <1> QED BY <1>3, <1>4

LEMMA IssueStep ==
    ASSUME SimInv, Issue
    PROVE  SimInv'
  <1> DEFINE turn == Later(phone.turn)
  <1>1. phone.turn \in Turn /\ turn \in Turn
    BY Turns2 DEF SimInv, Typed, Phone
  <1>2. PICK m \in SimCommand :
          LET f == Flush(simi, card, Chunk("header", m, TRUE, turn))
          IN  /\ simi' = f.simi /\ card' = f.card
              /\ past' = [past EXCEPT !.selections =
                            IF m.ins = "envelope" THEN @ + 1 ELSE @]
              /\ phone' = [phone EXCEPT !.state = "header", !.command = m,
                             !.turn = turn, !.got = <<>>, !.tx_done = FALSE]
    BY CommandsTyped DEF Issue, SimInv
  <1> DEFINE chunk == Chunk("header", m, TRUE, turn)
             f == Flush(simi, card, chunk)
  <1>3. /\ phone.cause = {} /\ simi.clock /\ phone.state = "ready"
        /\ fiq' = fiq /\ scenario' = scenario
    BY DEF Issue, Runs
  <1>4. /\ simi \in Simi /\ simi.active /\ simi.rx = <<>> /\ ~simi.ready
        /\ phone.chunks = <<>> /\ phone.got = <<>> /\ card \in Card
        /\ past \in Past /\ phone \in Phone
    BY <1>3 DEF SimInv, Typed, Socket, Transaction, InBody, On
  <1>5. /\ phone' \in Phone /\ past' \in Past
        /\ phone'.state = "header" /\ phone'.command = m /\ phone'.turn = turn
        /\ phone'.got = <<>> /\ ~phone'.tx_done /\ phone'.cause = {}
        /\ phone'.chunks = <<>>
        /\ past'.earned = past.earned /\ past'.refused = past.refused
        /\ past'.unblock_refused = past.unblock_refused
    <2>1. <<>> \in Seq(SimByte) /\ "header" \in PhoneStates
      BY DEF PhoneStates
    <2>2. past' \in Past
      <3>1. \A k \in Nat : [past EXCEPT !.selections = k] \in Past
        BY <1>4 DEF Past
      <3>2. past.selections \in Nat /\ past.selections + 1 \in Nat
        BY <1>4 DEF Past
      <3>3. \/ past' = [past EXCEPT !.selections = past.selections]
            \/ past' = [past EXCEPT !.selections = past.selections + 1]
        BY <1>2
      <3> QED BY <3>1, <3>2, <3>3
    <2>3. phone' \in Phone
      BY <1>1, <1>2, <1>4, <2>1 DEF Phone
    <2> QED BY <1>2, <1>3, <1>4, <2>2, <2>3 DEF Phone, Past
  <1>6. ASSUME simi.present
        PROVE  /\ {card.pending, card.fcp} \subseteq {NothingOwed, phone.turn}
               /\ Receive(card, chunk) = FinishHeader(card, m, turn)
               /\ Headed(Receive(card, chunk), card, m, turn)
    <2>1. ~card.receiving /\ NothingOwed \in {card.pending, card.fcp}
          /\ {card.pending, card.fcp} \subseteq {NothingOwed, phone.turn}
      BY <1>3, <1>4, <1>6 DEF SimInv, Transaction, InBody, Live, On
    <2>2. Receive(card, chunk) = FinishHeader(card, m, turn)
      BY <2>1 DEF Receive, Chunk
    <2> HIDE DEF turn, chunk
    <2> QED BY <1>1, <1>4, <2>1, <2>2, HeaderHeaded
  <1> HIDE DEF chunk
  <1>7. /\ f.simi \in Simi /\ f.simi.rx = f.bytes /\ Len(f.bytes) <= RxSize
        /\ f.simi.present = simi.present /\ f.simi.clock /\ f.simi.active
        /\ f.simi.iir = simi.iir /\ ~f.simi.ready /\ f.simi.tx_pending
        /\ IF simi.present THEN f.card = Receive(card, chunk).card
                                /\ f.bytes = Receive(card, chunk).bytes
           ELSE f.card = card /\ f.bytes = <<>>
    <2>1. simi.present => /\ Receive(card, chunk).bytes \in Seq(SimByte)
                          /\ Len(Receive(card, chunk).bytes) <= 3
      BY <1>6 DEF Headed
    <2> QED BY <1>3, <1>4, <2>1, Flushed
  <1>8. simi' = f.simi /\ card' = f.card
    BY <1>2 DEF f, chunk
  <1> HIDE DEF f, turn
  <1>9. card' \in Card /\ SameSecrets(card, card')
    BY <1>4, <1>6, <1>7, <1>8 DEF Headed, SameSecrets
  <1>10. Typed'
    BY <1>3, <1>5, <1>7, <1>8, <1>9 DEF Typed, SimInv
  <1>11. Socket' /\ TxEmptyComesFirst'
    BY <1>3, <1>5, <1>7, <1>8 DEF SimInv, Socket, On, TxEmptyComesFirst
  <1>12. Line'
    BY <1>3, <1>4, <1>5, <1>7, <1>8 DEF SimInv, Line, Live, On
  <1>13. Transaction'
    BY <1>3, <1>5, <1>6, <1>7, <1>8
       DEF Transaction, InBody, Live, On, Headed
  <1>14. Answer'
    <2>1. simi'.rx = f.bytes
      BY <1>7, <1>8
    <2>2. ASSUME NEW n \in DOMAIN simi'.rx
          PROVE  LET b == simi'.rx[n] IN
                 /\ b.turn = turn /\ b.what # "atr"
                 /\ Later(b.owed) = turn <=> (b.what = "data" /\ m.ins = "get_response")
                 /\ m.ins \in WithBody => b.what = "ack"
                 /\ Ends(b, m) => n = Len(simi'.rx)
      <3>1. simi.present /\ f.bytes = Receive(card, chunk).bytes
        BY <1>7, <2>1, <2>2
      <3>2. Headed(Receive(card, chunk), card, m, Later(phone.turn))
            /\ {card.pending, card.fcp} \subseteq {NothingOwed, phone.turn}
        BY <1>6, <3>1 DEF turn
      <3> DEFINE r == Receive(card, chunk)
      <3>3. /\ r.bytes[n].turn = Later(phone.turn) /\ r.bytes[n].what # "atr"
            /\ Later(r.bytes[n].owed) = Later(phone.turn)
                 <=> (r.bytes[n].what = "data" /\ m.ins = "get_response")
            /\ m.ins \in WithBody => r.bytes[n].what = "ack"
        <4> HIDE DEF r
        <4> QED BY <1>1, <2>1, <2>2, <3>1, <3>2, HeadedFits DEF r
      <3>4. Ends(r.bytes[n], m) => n = Len(r.bytes)
        BY <2>1, <2>2, <3>1, <3>2 DEF Headed
      <3> HIDE DEF r
      <3> QED BY <2>1, <3>1, <3>3, <3>4 DEF turn, r
    <2> QED BY <1>5, <2>2 DEF Answer, On, Fits, Closes, Ends
  <1>15. Guarded'
    <2>1. Counted(card, past)'
      BY <1>5, <1>9 DEF SimInv, Guarded, Counted, SameSecrets
    <2>2. Authorized(card') <=> Authorized(card)
      BY <1>9 DEF SameSecrets, Authorized
    <2>3. ASSUME NEW n \in DOMAIN simi'.rx, Opens(simi'.rx[n].what),
                 m.ins \in {"read", "update", "authenticate"}
          PROVE  Authorized(card)
      <3>1. simi.present /\ simi'.rx = Receive(card, chunk).bytes
        BY <1>7, <1>8, <2>3
      <3> QED BY <1>6, <2>3, <3>1 DEF Headed
    <2> QED BY <1>5, <2>1, <2>2, <2>3 DEF Guarded, Releases, Opens
  <1> QED BY <1>10, <1>11, <1>12, <1>13, <1>14, <1>15 DEF SimInv

\* Whoever was answered has the whole answer.
LEMMA AnsweredAll ==
    ASSUME SimInv, On, Answered
    PROVE  simi.rx = <<>>
  <1>1. phone.got \in Seq(SimByte) /\ phone.got # <<>> /\ simi.rx \in Seq(SimByte)
    BY DEF Answered, SimInv, Typed, Phone, Simi
  <1>2. Len(phone.got) \in DOMAIN phone.got
    BY <1>1
  <1>3. CASE Closes(Last(phone.got), phone)
    BY <1>1, <1>3 DEF SimInv, Answer
  <1>4. CASE ~Closes(Last(phone.got), phone)
    <2>1. Last(phone.got).what = "atr" /\ Len(phone.got) = Len(Atr(phone.turn))
      BY <1>4 DEF Answered, Closes
    <2>2. phone.state = "atr"
      BY <1>2, <2>1 DEF SimInv, Answer, Fits, Last
    <2>3. CASE simi.present
      <3>1. Len(phone.got) + Len(simi.rx) = Len(Atr(phone.turn))
        BY <2>2, <2>3 DEF SimInv, Answer
      <3>2. Len(Atr(phone.turn)) = 2
        BY DEF Atr
      <3>3. Len(simi.rx) = 0
        BY <1>1, <2>1, <3>1, <3>2
      <3> QED BY <1>1, <3>3
    <2>4. CASE ~simi.present
      BY <2>4 DEF SimInv, Socket
    <2> QED BY <2>3, <2>4
  <1> QED BY <1>3, <1>4

\* What the history makes of a CHV command, and of any other chunk.
LEMMA CountedVerdict ==
    ASSUME NEW c \in Card, NEW p \in Past, Counted(c, p), NEW m \in SimCommand,
           NEW turn \in Turn, m.ins \in ChvCommands, NEW r, Verdict(r, c, m, turn)
    PROVE  LET w == Witness(p, Chunk("body", m, TRUE, turn), r.bytes) IN
           /\ w \in Past /\ Counted(r.card, w)
           /\ \A i \in Chv : p.refused[i] = ChvAttempts /\ w.refused[i] = 0 =>
                m.ins = "unblock" /\ m.secret = Puk
                /\ p.unblock_refused[i] < UnblockAttempts
  <1> DEFINE i == m.chv
             w == Witness(p, Chunk("body", m, TRUE, turn), r.bytes)
             accepted == [p EXCEPT !.earned = @ \cup {m.chv}, !.refused[m.chv] = 0,
                            !.unblock_refused[m.chv] = IF m.ins = "unblock" THEN 0 ELSE @]
             locked == [p EXCEPT !.unblock_refused[m.chv] = Capped(@ + 1, UnblockAttempts)]
             denied == [p EXCEPT !.earned = @ \ {m.chv},
                                 !.refused[m.chv] = Capped(@ + 1, ChvAttempts)]
  <1>1. /\ i \in Chv /\ c.attempts \in [Chv -> 0 .. ChvAttempts]
        /\ c.unblocks \in [Chv -> 0 .. UnblockAttempts] /\ c.verified \subseteq Chv
        /\ p.refused \in [Chv -> 0 .. ChvAttempts] /\ p.earned \subseteq Chv
        /\ p.unblock_refused \in [Chv -> 0 .. UnblockAttempts]
        /\ ChvAttempts \in Nat \ {0} /\ UnblockAttempts \in Nat \ {0}
    BY SimCardAssumption DEF Card, Past, SimCommand
  <1>2. \A j \in Chv : /\ p.refused[j] = ChvAttempts - c.attempts[j]
                       /\ p.unblock_refused[j] = UnblockAttempts - c.unblocks[j]
                       /\ j \in c.verified => j \in p.earned /\ c.attempts[j] # 0
    BY DEF Counted
  <1>3. PICK b \in SimByte : r.bytes = <<b>> /\ Ruled(b, r.card, c, m)
    BY DEF Verdict
  <1>4. w = IF Accepted(b) THEN accepted
            ELSE IF Refused(b) /\ m.ins = "unblock" THEN locked
            ELSE IF Refused(b) THEN denied ELSE p
    <2>1. <<b>> # <<>> /\ <<b>>[Len(<<b>>)] = b
      OBVIOUS
    <2> QED BY <1>3, <2>1 DEF Witness, Chunk
  <1>5. ~(Accepted(b) /\ Refused(b))
    BY DEF Accepted, Refused
  <1>6. ASSUME NEW top \in Nat, NEW n \in 0 .. top
        PROVE  /\ Capped(n + 1, top) \in 0 .. top
               /\ \A k \in 0 .. top : n = top - k => Capped(n + 1, top) = top - Less(k)
               /\ top # 0 => Capped(n + 1, top) # 0
    BY DEF Capped, Less
  <1>7. \A j \in Chv : r.card.verified \subseteq Chv
    BY DEF Verdict, Card
  <1> HIDE DEF w
  <1> SUFFICES /\ w \in Past /\ Counted(r.card, w)
               /\ \A j \in Chv : p.refused[j] = ChvAttempts /\ w.refused[j] = 0 =>
                    /\ m.ins = "unblock" /\ m.secret = Puk
                    /\ p.unblock_refused[j] < UnblockAttempts
    BY DEF w
  <1>8. CASE Accepted(b)
    <2>1. w = accepted
      BY <1>4, <1>8
    <2>2. /\ w \in Past /\ w.earned = p.earned \cup {i}
          /\ w.refused = [p.refused EXCEPT ![i] = 0]
          /\ m.ins = "unblock" => w.unblock_refused = [p.unblock_refused EXCEPT ![i] = 0]
          /\ m.ins # "unblock" => w.unblock_refused = p.unblock_refused
      <3>1. /\ [p.refused EXCEPT ![i] = 0] \in [Chv -> 0 .. ChvAttempts]
            /\ [p.unblock_refused EXCEPT ![i] = 0] \in [Chv -> 0 .. UnblockAttempts]
            /\ [p.unblock_refused EXCEPT ![i] = @] = p.unblock_refused
            /\ p.earned \cup {i} \in SUBSET Chv
        BY <1>1
      <3>2. CASE m.ins = "unblock"
        <4>1. w = [p EXCEPT !.earned = @ \cup {i}, !.refused[i] = 0,
                            !.unblock_refused[i] = 0]
          BY <2>1, <3>2
        <4> QED BY <3>1, <3>2, <4>1 DEF Past
      <3>3. CASE m.ins # "unblock"
        <4>1. w = [p EXCEPT !.earned = @ \cup {i}, !.refused[i] = 0,
                            !.unblock_refused[i] = @]
          BY <2>1, <3>3
        <4> QED BY <3>1, <3>3, <4>1 DEF Past
      <3> QED BY <3>2, <3>3
    <2>3. /\ r.card.attempts = [c.attempts EXCEPT ![i] = ChvAttempts]
          /\ r.card.verified \subseteq c.verified \cup {i}
          /\ \/ /\ m.ins # "unblock" /\ c.attempts[i] # 0
                /\ r.card.unblocks = c.unblocks
             \/ /\ m.ins = "unblock" /\ c.unblocks[i] # 0 /\ m.secret = Puk
                /\ r.card.unblocks = [c.unblocks EXCEPT ![i] = UnblockAttempts]
      BY <1>3, <1>5, <1>8 DEF Ruled, Accepted
    <2> HIDE DEF i
    <2>4. Counted(r.card, w)
      BY <1>1, <1>2, <2>2, <2>3 DEF Counted
    <2>5. ASSUME NEW j \in Chv, p.refused[j] = ChvAttempts, w.refused[j] = 0
          PROVE  /\ m.ins = "unblock" /\ m.secret = Puk
                 /\ p.unblock_refused[j] < UnblockAttempts
      <3>1. j = i
        BY <1>1, <2>2, <2>5
      <3>2. c.attempts[i] = 0
        BY <1>1, <1>2, <2>5, <3>1
      <3> QED BY <1>1, <1>2, <2>3, <3>1, <3>2
    <2> QED BY <2>2, <2>4, <2>5
  <1>9. CASE Refused(b) /\ m.ins = "unblock"
    <2>1. w = locked
      BY <1>4, <1>5, <1>9
    <2>2. /\ w \in Past /\ w.earned = p.earned /\ w.refused = p.refused
          /\ w.unblock_refused =
               [p.unblock_refused EXCEPT ![i] = Capped(@ + 1, UnblockAttempts)]
      BY <1>1, <1>6, <2>1 DEF Past
    <2>3. /\ r.card.attempts = c.attempts /\ r.card.verified = c.verified
          /\ r.card.unblocks = [c.unblocks EXCEPT ![i] = Less(@)]
      BY <1>3, <1>5, <1>9 DEF Ruled, Refused
    <2> HIDE DEF i
    <2>4. Counted(r.card, w)
      BY <1>1, <1>2, <1>6, <2>2, <2>3 DEF Counted
    <2> QED BY <1>1, <2>2, <2>4
  <1>10. CASE Refused(b) /\ m.ins # "unblock"
    <2>1. w = denied
      BY <1>4, <1>5, <1>10
    <2>2. /\ w \in Past /\ w.earned = p.earned \ {i}
          /\ w.unblock_refused = p.unblock_refused
          /\ w.refused = [p.refused EXCEPT ![i] = Capped(@ + 1, ChvAttempts)]
      BY <1>1, <1>6, <2>1 DEF Past
    <2>3. /\ r.card.unblocks = c.unblocks /\ r.card.verified \subseteq c.verified
          /\ r.card.attempts = [c.attempts EXCEPT ![i] = Less(@)]
          /\ i \notin r.card.verified \/ c.attempts[i] = 0
      BY <1>3, <1>5, <1>10 DEF Ruled, Refused
    <2> HIDE DEF i
    <2>4. i \notin r.card.verified
      BY <1>1, <1>2, <2>3
    <2>5. Counted(r.card, w)
      BY <1>1, <1>2, <1>6, <2>2, <2>3, <2>4 DEF Counted
    <2> QED BY <1>1, <1>6, <2>2, <2>5
  <1>11. CASE ~Accepted(b) /\ ~Refused(b)
    <2>1. w = p
      BY <1>4, <1>11
    <2>2. r.card.attempts = c.attempts
          /\ r.card.verified = c.verified /\ r.card.unblocks = c.unblocks
      BY <1>3, <1>11 DEF Ruled
    <2> QED BY <1>1, <1>2, <2>1, <2>2 DEF Counted
  <1> QED BY <1>8, <1>9, <1>10, <1>11

\* The step of the history that SecretsGuardFile is about.
OnlyPukLifts(p, w, m) ==
    \A i \in Chv : p.refused[i] = ChvAttempts /\ w.refused[i] = 0 =>
      m.ins = "unblock" /\ m.secret = Puk /\ p.unblock_refused[i] < UnblockAttempts

LEMMA BodyAnswered ==
    ASSUME NEW c \in Card, c.pending = NothingOwed, c.fcp = NothingOwed,
           NEW p \in Past, Counted(c, p),
           NEW m \in SimCommand, m.ins \in WithBody, c.ins = m.ins, NEW turn \in Turn
    PROVE  LET r == FinishBody(c, m, turn)
               w == Witness(p, Chunk("body", m, TRUE, turn), r.bytes)
           IN  /\ \E b \in SimByte :
                    /\ r.bytes = <<b>> /\ b.turn = turn /\ b.owed = turn
                    /\ b.what \in Statuses
                    /\ m.ins \in {"read", "update", "authenticate"} /\ Opens(b.what)
                         => Authorized(r.card)
               /\ r.card \in Card /\ ~r.card.receiving /\ r.card.ins = m.ins
               /\ {r.card.pending, r.card.fcp} \subseteq {NothingOwed, turn}
               /\ NothingOwed \in {r.card.pending, r.card.fcp}
               /\ w \in Past /\ Counted(r.card, w) /\ OnlyPukLifts(p, w, m)
  <1> DEFINE idle == [c EXCEPT !.receiving = FALSE]
             r == FinishBody(c, m, turn)
             chunk == Chunk("body", m, TRUE, turn)
             w == Witness(p, chunk, r.bytes)
  <1>1. /\ SameSecrets(c, idle) /\ Bare(idle) /\ idle.ins = c.ins
        /\ m.ins \in ChvCommands => Verdict(r, idle, m, turn)
        /\ m.ins \notin ChvCommands => Finished(r, idle, m, turn)
    BY BodyFinished
  <1> HIDE DEF idle, r
  <1>2. Counted(idle, p) /\ idle \in Card
    BY <1>1 DEF Counted, SameSecrets, Bare
  <1>3. CASE m.ins \in ChvCommands
    <2>1. /\ w \in Past /\ Counted(r.card, w) /\ OnlyPukLifts(p, w, m)
      BY <1>1, <1>2, <1>3, CountedVerdict DEF OnlyPukLifts
    <2>2. m.ins \notin {"read", "update", "authenticate"}
      BY <1>3 DEF ChvCommands
    <2> HIDE DEF w
    <2>3. PICK b \in SimByte :
            /\ r.bytes = <<b>> /\ b.turn = turn /\ b.owed = turn /\ b.what \in Statuses
            /\ r.card \in Card /\ r.card.receiving = idle.receiving
            /\ r.card.ins = idle.ins
            /\ r.card.pending = idle.pending /\ r.card.fcp = idle.fcp
      BY <1>1, <1>3 DEF Verdict
    <2> QED BY <1>1, <2>1, <2>2, <2>3 DEF Bare, r, w
  <1>4. CASE m.ins \notin ChvCommands
    <2>1. w = p
      BY <1>4 DEF Witness, Chunk
    <2>2. Counted(r.card, w)
      BY <1>1, <1>2, <1>4, <2>1 DEF Finished, Counted, SameSecrets
    <2>3. OnlyPukLifts(p, w, m)
      BY <2>1, SimCardAssumption DEF OnlyPukLifts
    <2>4. m.ins # "read"
      BY DEF WithBody, ChvCommands
    <2> HIDE DEF w
    <2>5. /\ \E b \in SimByte :
                    /\ r.bytes = <<b>> /\ b.turn = turn /\ b.owed = turn
                    /\ b.what \in Statuses
                    /\ m.ins \in {"read", "update", "authenticate"} /\ Opens(b.what)
                         => Authorized(r.card)
               /\ r.card \in Card /\ ~r.card.receiving /\ r.card.ins = m.ins
               /\ {r.card.pending, r.card.fcp} \subseteq {NothingOwed, turn}
               /\ NothingOwed \in {r.card.pending, r.card.fcp}
      BY <1>1, <1>4, <2>4 DEF Finished
    <2> QED BY <2>1, <2>2, <2>3, <2>5 DEF r, w
  <1> QED BY <1>3, <1>4

\* A part of a body, written by the task or by the handler of FIQ6.
BodyOut(s, f, w, last) ==
    /\ f.simi \in Simi /\ f.simi.rx = f.bytes /\ Len(f.bytes) <= RxSize
    /\ f.simi.present = s.present /\ f.simi.clock /\ f.simi.active
    /\ f.simi.iir = s.iir /\ ~f.simi.ready /\ f.simi.tx_pending
    /\ s.present \/ f.bytes = <<>>
    /\ f.card \in Card /\ w \in Past /\ Counted(f.card, w)
    /\ OnlyPukLifts(past, w, phone.command)
    /\ \A n \in DOMAIN f.bytes :
         /\ n = Len(f.bytes) /\ f.bytes[n].turn = phone.turn
         /\ f.bytes[n].owed = phone.turn /\ f.bytes[n].what \in Statuses
         /\ phone.command.ins \in {"read", "update", "authenticate"}
              /\ Opens(f.bytes[n].what) => Authorized(f.card)
    /\ s.present =>
         /\ f.card.receiving <=> ~last
         /\ f.card.ins = phone.command.ins
         /\ {f.card.pending, f.card.fcp} \subseteq {NothingOwed, phone.turn}
         /\ NothingOwed \in {f.card.pending, f.card.fcp}
         /\ f.card.receiving => {f.card.pending, f.card.fcp} = {NothingOwed}
    /\ ~last => f.bytes = <<>>

LEMMA BodyFlushed ==
    ASSUME Typed, Counted(card, past), phone.command.ins \in WithBody,
           simi.present => /\ card.receiving /\ card.ins = phone.command.ins
                           /\ card.pending = NothingOwed /\ card.fcp = NothingOwed,
           NEW s \in Simi, s.present = simi.present, s.clock, s.active, s.rx = <<>>,
           ~s.ready, NEW last \in BOOLEAN, ~last => phone.command.ins \notin ChvCommands
    PROVE  LET chunk == Chunk("body", phone.command, last, phone.turn)
               f == Flush(s, card, chunk)
           IN  BodyOut(s, f, Witness(past, chunk, f.bytes), last)
  <1> DEFINE m == phone.command
             turn == phone.turn
             chunk == Chunk("body", m, last, turn)
             f == Flush(s, card, chunk)
             w == Witness(past, chunk, f.bytes)
             heard == Receive(card, chunk)
             r == FinishBody(card, m, turn)
  <1>1. m \in SimCommand /\ turn \in Turn /\ card \in Card /\ past \in Past
    BY DEF Typed, Phone
  <1>2. simi.present => heard = IF last THEN r ELSE Says(card, <<>>)
    BY DEF Receive, Chunk
  <1>3. simi.present =>
          /\ \E b \in SimByte :
               /\ r.bytes = <<b>> /\ b.turn = turn /\ b.owed = turn
               /\ b.what \in Statuses
               /\ m.ins \in {"read", "update", "authenticate"} /\ Opens(b.what)
                    => Authorized(r.card)
          /\ r.card \in Card /\ ~r.card.receiving /\ r.card.ins = m.ins
          /\ {r.card.pending, r.card.fcp} \subseteq {NothingOwed, turn}
          /\ NothingOwed \in {r.card.pending, r.card.fcp}
          /\ LET v == Witness(past, Chunk("body", m, TRUE, turn), r.bytes)
             IN  v \in Past /\ Counted(r.card, v) /\ OnlyPukLifts(past, v, m)
    <2> HIDE DEF m, turn
    <2>1. m.ins \in WithBody /\ (simi.present => card.ins = m.ins)
      BY DEF m
    <2> QED BY <1>1, <2>1, BodyAnswered
  <1>4. OnlyPukLifts(past, past, m)
    BY SimCardAssumption DEF OnlyPukLifts
  <1>5. Says(card, <<>>).card = card /\ Says(card, <<>>).bytes = <<>>
    BY DEF Says
  <1>6. simi.present => heard.bytes \in Seq(SimByte) /\ Len(heard.bytes) <= 3
    <2> HIDE DEF heard, r
    <2>1. <<>> \in Seq(SimByte) /\ Len(<<>>) <= 3
          /\ \A b \in SimByte : <<b>> \in Seq(SimByte) /\ Len(<<b>>) <= 3
      OBVIOUS
    <2> QED BY <1>2, <1>3, <1>5, <2>1
  <1>7. /\ f.simi \in Simi /\ f.simi.rx = f.bytes /\ Len(f.bytes) <= RxSize
        /\ f.simi.present = s.present /\ f.simi.clock /\ f.simi.active
        /\ f.simi.iir = s.iir /\ ~f.simi.ready /\ f.simi.tx_pending
        /\ IF s.present THEN f.card = heard.card /\ f.bytes = heard.bytes
           ELSE f.card = card /\ f.bytes = <<>>
    <2> HIDE DEF chunk
    <2> QED BY <1>6, Flushed
  <1>8. ~simi.present \/ ~last => w = past /\ f.bytes = <<>> /\ f.card = card
    <2>1. ~simi.present \/ ~last => f.bytes = <<>> /\ f.card = card
      <3> HIDE DEF f, heard
      <3> QED BY <1>2, <1>5, <1>7
    <2>2. f.bytes = <<>> => Witness(past, chunk, f.bytes) = past
      BY DEF Witness, Byte, Accepted, Refused
    <2> QED BY <2>1, <2>2
  <1>9. simi.present /\ last =>
          /\ f.bytes = r.bytes /\ f.card = r.card
          /\ w = Witness(past, Chunk("body", m, TRUE, turn), r.bytes)
    <2>1. simi.present /\ last => f.bytes = r.bytes /\ f.card = r.card
      <3> HIDE DEF f, heard, r
      <3> QED BY <1>2, <1>7
    <2> QED BY <2>1
  <1> HIDE DEF f, w, r, heard
  <1>10. CASE ~simi.present \/ ~last
    BY <1>1, <1>4, <1>7, <1>8, <1>10 DEF BodyOut, f, w
  <1>11. CASE simi.present /\ last
    <2>1. PICK b \in SimByte :
             /\ r.bytes = <<b>> /\ b.turn = turn /\ b.owed = turn
             /\ b.what \in Statuses
             /\ m.ins \in {"read", "update", "authenticate"} /\ Opens(b.what)
                  => Authorized(r.card)
      BY <1>3, <1>11
    <2>2. \A n \in DOMAIN <<b>> : n = Len(<<b>>) /\ <<b>>[n] = b
      OBVIOUS
    <2>3. w \in Past /\ Counted(r.card, w) /\ OnlyPukLifts(past, w, m)
      BY <1>3, <1>9, <1>11
    <2>4. BodyOut(s, f, w, last)
      BY <1>3, <1>7, <1>9, <1>11, <2>1, <2>2, <2>3 DEF BodyOut
    <2> QED BY <2>4 DEF f, w
  <1> QED BY <1>10, <1>11

\* A handset that waits for an answer to a chunk it wrote just now.
LEMMA SelectStep ==
    ASSUME SimInv, SelectParameters
    PROVE  SimInv' /\ OnlyPukLifts(past, past', phone.command)
  <1> DEFINE chunk == Chunk("pts", phone.command, TRUE, phone.turn)
             f == Flush(simi, card, chunk)
             b == Byte(phone.turn, phone.turn, "pts", "none")
             heard == Receive(card, chunk)
  <1>1. /\ phone.cause = {} /\ simi.clock /\ phone.state = "atr" /\ Answered
        /\ fiq' = fiq /\ scenario' = scenario /\ simi' = f.simi /\ card' = f.card
        /\ past' = Witness(past, chunk, f.bytes)
        /\ phone' = [[phone EXCEPT !.state = "pts"] EXCEPT !.got = <<>>, !.tx_done = FALSE]
    BY DEF SelectParameters, Runs, Sends
  <1>2. past' = past
    BY <1>1 DEF Witness, Chunk
  <1>3. /\ simi \in Simi /\ simi.active /\ simi.rx = <<>> /\ ~simi.ready
        /\ phone.chunks = <<>> /\ card \in Card /\ phone \in Phone /\ phone.turn \in Turn
    BY <1>1, AnsweredAll DEF SimInv, Typed, Socket, Transaction, InBody, On, Phone
  <1>4. /\ phone' \in Phone /\ phone'.state = "pts" /\ phone'.command = phone.command
        /\ phone'.turn = phone.turn /\ phone'.got = <<>> /\ ~phone'.tx_done
        /\ phone'.cause = {} /\ phone'.chunks = <<>>
    <2>1. <<>> \in Seq(SimByte) /\ "pts" \in PhoneStates
      BY DEF PhoneStates
    <2> QED BY <1>1, <1>3, <2>1 DEF Phone
  <1>5. simi.present =>
          /\ ~card.receiving /\ {card.pending, card.fcp} \subseteq {NothingOwed, phone.turn}
          /\ NothingOwed \in {card.pending, card.fcp}
    BY <1>1, <1>3 DEF SimInv, Transaction, InBody, Live, On
  <1>6. b \in SimByte /\ b.turn = phone.turn /\ b.owed = phone.turn /\ b.what = "pts"
    BY <1>3, ToolkitNames DEF Byte, SimByte, What
  <1>7. simi.present =>
          /\ heard.bytes = <<b>> /\ heard.card = [card EXCEPT !.pts = FALSE]
    BY <1>5 DEF Receive, Chunk, Says
  <1> HIDE DEF chunk, b, heard
  <1>8. \A n \in DOMAIN <<b>> : n = Len(<<b>>) /\ <<b>>[n] = b
    OBVIOUS
  <1>9. /\ f.simi \in Simi /\ f.simi.rx = f.bytes /\ Len(f.bytes) <= RxSize
        /\ f.simi.present = simi.present /\ f.simi.clock /\ f.simi.active
        /\ f.simi.iir = simi.iir /\ ~f.simi.ready /\ f.simi.tx_pending
        /\ IF simi.present THEN f.card = heard.card /\ f.bytes = heard.bytes
           ELSE f.card = card /\ f.bytes = <<>>
    <2>1. simi.present => heard.bytes \in Seq(SimByte) /\ Len(heard.bytes) <= 3
      <3>1. <<b>> \in Seq(SimByte) /\ Len(<<b>>) <= 3
        BY <1>6
      <3> QED BY <1>7, <3>1
    <2> QED BY <1>1, <1>3, <2>1, Flushed DEF heard
  <1> HIDE DEF f
  <1>10. /\ card' \in Card /\ SameSecrets(card, card')
         /\ card'.receiving = card.receiving
         /\ card'.pending = card.pending /\ card'.fcp = card.fcp
    <2>1. card' = card \/ card' = [card EXCEPT !.pts = FALSE]
      BY <1>1, <1>7, <1>9
    <2>2. CASE card' = card
      BY <1>3, <2>2 DEF SameSecrets
    <2>3. CASE card' = [card EXCEPT !.pts = FALSE]
      BY <1>3, <2>3 DEF Card, SameSecrets
    <2> QED BY <2>1, <2>2, <2>3
  <1>11. Typed'
    BY <1>1, <1>2, <1>4, <1>9, <1>10 DEF Typed, SimInv
  <1>12. Socket' /\ TxEmptyComesFirst'
    BY <1>1, <1>4, <1>9 DEF SimInv, Socket, On, TxEmptyComesFirst
  <1>13. Line'
    BY <1>1, <1>3, <1>4, <1>9 DEF SimInv, Line, Live, On
  <1>14. Transaction'
    BY <1>1, <1>4, <1>5, <1>9, <1>10 DEF Transaction, InBody, Live, On
  <1>15. Answer'
    <2>1. ASSUME NEW n \in DOMAIN simi'.rx
          PROVE  simi'.rx[n] = b /\ n = Len(simi'.rx)
      <3>1. simi'.rx = f.bytes
        BY <1>1, <1>9
      <3>2. simi'.rx = <<>> \/ simi'.rx = <<b>>
        BY <1>7, <1>9, <3>1
      <3>3. DOMAIN <<>> = {}
        OBVIOUS
      <3>4. simi'.rx = <<b>>
        BY <2>1, <3>2, <3>3
      <3> QED BY <1>8, <2>1, <3>4
    <2>2. Later(b.owed) # phone.turn
      BY <1>3, <1>6, Turns2
    <2> QED BY <1>4, <1>6, <2>1, <2>2 DEF Answer, On, Fits, Closes
  <1>16. Guarded'
    BY <1>2, <1>4, <1>10 DEF SimInv, Guarded, Counted, SameSecrets
  <1>17. OnlyPukLifts(past, past', phone.command)
    BY <1>2, SimCardAssumption DEF OnlyPukLifts
  <1> QED BY <1>11, <1>12, <1>13, <1>14, <1>15, <1>16, <1>17 DEF SimInv

LEMMA SendBodyStep ==
    ASSUME SimInv, SendBody
    PROVE  SimInv' /\ OnlyPukLifts(past, past', phone.command)
  <1> DEFINE m == phone.command
             last == m.ins # "update"
             chunk == Chunk("body", m, last, phone.turn)
             rest == IF last THEN <<>> ELSE <<Chunk("body", m, TRUE, phone.turn)>>
             f == Flush(simi, card, chunk)
             w == Witness(past, chunk, f.bytes)
  <1>1. Head(Body(m, phone.turn)) = chunk /\ Tail(Body(m, phone.turn)) = rest
    <2>1. \A a, b : /\ Head(<<a>>) = a /\ Tail(<<a>>) = <<>>
                    /\ Head(<<a, b>>) = a /\ Tail(<<a, b>>) = <<b>>
      OBVIOUS
    <2>2. CASE last
      BY <2>1, <2>2 DEF Body
    <2>3. CASE ~last
      BY <2>1, <2>3 DEF Body
    <2> QED BY <2>2, <2>3
  <1>2. /\ phone.cause = {} /\ simi.clock /\ phone.state = "header" /\ Answered
        /\ Last(phone.got).what = "ack"
        /\ fiq' = fiq /\ scenario' = scenario /\ simi' = f.simi /\ card' = f.card
        /\ past' = w
        /\ phone' = [[phone EXCEPT !.state = "body", !.chunks = rest]
                       EXCEPT !.got = <<>>, !.tx_done = FALSE]
    BY <1>1 DEF SendBody, Runs, Sends
  <1>3. m.ins \in WithBody
    BY <1>2 DEF Answered, Statuses
  <1>4. /\ simi \in Simi /\ simi.active /\ simi.rx = <<>> /\ ~simi.ready
        /\ phone.chunks = <<>> /\ card \in Card /\ phone \in Phone
        /\ phone.turn \in Turn /\ m \in SimCommand
    BY <1>2, AnsweredAll DEF SimInv, Typed, Socket, Transaction, InBody, On, Phone
  <1>5. last \in BOOLEAN /\ rest \in Seq(SimChunk)
        /\ (~last => m.ins = "update" /\ rest = <<Chunk("body", m, TRUE, phone.turn)>>)
        /\ (last => rest = <<>>)
    <2>1. phone.turn \in Turn => Chunk("body", m, TRUE, phone.turn) \in SimChunk
      <3>1. Turn = 0 .. Turns - 1
        BY DEF Turn
      <3> QED BY <1>4 DEF Chunk, SimChunk
    <2>2. <<>> \in Seq(SimChunk) /\ \A a \in SimChunk : <<a>> \in Seq(SimChunk)
      OBVIOUS
    <2>3. last \in BOOLEAN /\ (~last <=> m.ins = "update")
      OBVIOUS
    <2>4. CASE last
      BY <2>2, <2>3, <2>4
    <2>5. CASE ~last
      BY <1>4, <2>1, <2>2, <2>3, <2>5
    <2> QED BY <2>4, <2>5
  <1>6. BodyOut(simi, f, w, last)
    <2>1. simi.present => /\ card.receiving /\ card.ins = m.ins
                          /\ card.pending = NothingOwed /\ card.fcp = NothingOwed
      BY <1>2, <1>3 DEF SimInv, Transaction, InBody, Live, On
    <2>2. ~last => m.ins \notin ChvCommands
      BY <1>5 DEF ChvCommands
    <2> QED BY <1>2, <1>3, <1>4, <1>5, <2>1, <2>2, BodyFlushed DEF SimInv, Guarded
  <1> HIDE DEF f, w, chunk, last, rest
  <1>7. /\ phone' \in Phone /\ phone'.state = "body" /\ phone'.command = m
        /\ phone'.turn = phone.turn /\ phone'.got = <<>> /\ ~phone'.tx_done
        /\ phone'.cause = {} /\ phone'.chunks = rest
    <2>1. <<>> \in Seq(SimByte) /\ "body" \in PhoneStates
      BY DEF PhoneStates
    <2> QED BY <1>2, <1>4, <1>5, <2>1 DEF Phone
  <1> HIDE DEF m
  <1>8. Typed'
    BY <1>2, <1>6, <1>7 DEF Typed, SimInv, BodyOut
  <1>9. Socket' /\ TxEmptyComesFirst'
    BY <1>2, <1>6, <1>7 DEF SimInv, Socket, On, TxEmptyComesFirst, BodyOut
  <1>10. Line'
    BY <1>2, <1>4, <1>6, <1>7 DEF SimInv, Line, Live, On, BodyOut
  <1>11. rest = <<>> <=> last
    <2>1. \A a : <<a>> # <<>>
      OBVIOUS
    <2>2. CASE last
      BY <1>5, <2>2
    <2>3. CASE ~last
      BY <1>5, <2>1, <2>3
    <2> QED BY <2>2, <2>3
  <1>12. Transaction'
    <2>1. InBody' <=> ~last
      BY <1>7, <1>11 DEF InBody
    <2>2. ~last => simi'.rx = <<>> /\ simi'.clock
      BY <1>2, <1>6 DEF BodyOut
    <2>3. simi'.present =>
            /\ card'.receiving <=> ~last
            /\ card'.ins = m.ins
            /\ {card'.pending, card'.fcp} \subseteq {NothingOwed, phone.turn}
            /\ NothingOwed \in {card'.pending, card'.fcp}
            /\ card'.receiving => {card'.pending, card'.fcp} = {NothingOwed}
      BY <1>2, <1>6 DEF BodyOut, m
    <2> QED BY <1>3, <1>5, <1>7, <2>1, <2>2, <2>3 DEF Transaction, Live, On
  <1>13. Answer'
    <2>1. ASSUME NEW n \in DOMAIN simi'.rx
          PROVE  /\ n = Len(simi'.rx) /\ simi'.rx[n].turn = phone.turn
                 /\ Later(simi'.rx[n].owed) # phone.turn
                 /\ simi'.rx[n].what \in Statuses
      BY <1>2, <1>4, <1>6, <2>1, Turns2 DEF BodyOut
    <2> QED BY <1>7, <2>1 DEF Answer, On, Fits, Closes, Statuses
  <1>14. Guarded'
    <2>1. ASSUME NEW n \in DOMAIN simi'.rx, Opens(simi'.rx[n].what),
                 m.ins \in {"read", "update", "authenticate"}
          PROVE  Authorized(card')
      BY <1>2, <1>6, <2>1 DEF BodyOut, m
    <2> QED BY <1>2, <1>6, <1>7, <2>1 DEF Guarded, Releases, Opens, BodyOut
  <1>15. OnlyPukLifts(past, past', phone.command)
    BY <1>2, <1>6 DEF BodyOut
  <1> QED BY <1>8, <1>9, <1>10, <1>12, <1>13, <1>14, <1>15 DEF SimInv

\* The handler of FIQ6 writes the next chunk of a body.
LEMMA ChunkStep ==
    ASSUME SimInv, HandleFiq6, "tx" \in phone.cause, phone.chunks # <<>>
    PROVE  SimInv' /\ OnlyPukLifts(past, past', phone.command)
  <1> DEFINE m == phone.command
             chunk == Chunk("body", m, TRUE, phone.turn)
             s == [simi EXCEPT !.iir = @ \ phone.cause]
             f == Flush(s, card, chunk)
             w == Witness(past, chunk, f.bytes)
  <1>1. /\ phone.state = "body" /\ simi.rx = <<>> /\ phone.got = <<>> /\ simi.clock
        /\ m.ins = "update" /\ phone.chunks = <<chunk>>
    BY DEF SimInv, Transaction, InBody
  <1>2. Head(phone.chunks) = chunk /\ Tail(phone.chunks) = <<>>
    BY <1>1
  <1>3. /\ simi \in Simi /\ simi.active /\ ~simi.ready
        /\ card \in Card /\ phone \in Phone /\ phone.turn \in Turn
    BY <1>1 DEF SimInv, Typed, Socket, On, Phone
  <1>4. /\ s \in Simi /\ s.present = simi.present /\ s.clock /\ s.active
        /\ s.rx = <<>> /\ ~s.ready /\ s.iir = simi.iir \ phone.cause
    BY <1>1, <1>3 DEF Simi
  <1>5. BodyOut(s, f, w, TRUE)
    <2>1. simi.present => /\ card.receiving /\ card.ins = m.ins
                          /\ card.pending = NothingOwed /\ card.fcp = NothingOwed
      BY <1>1 DEF SimInv, Transaction, InBody, Live, On
    <2>2. m.ins \in WithBody
      BY <1>1 DEF WithBody
    <2> HIDE DEF s
    <2> QED BY <1>4, <2>1, <2>2, BodyFlushed DEF SimInv, Guarded
  <1>6. /\ simi' = f.simi /\ card' = f.card /\ past' = w
        /\ fiq' = fiq /\ scenario' = scenario
        /\ phone' = [phone EXCEPT !.cause = {}, !.chunks = <<>>, !.tx_done = @, !.got = @]
    <2>1. ~f.simi.ready
      BY <1>5 DEF BodyOut
    <2> HIDE DEF chunk
    <2>2. phone.tx_done \in BOOLEAN
      BY <1>3 DEF Phone
    <2>3. (phone.tx_done \/ FALSE) = phone.tx_done
      BY <2>2
    <2> QED BY <1>2, <2>1, <2>3 DEF HandleFiq6
  <1> HIDE DEF f, w, chunk, s
  <1>7. /\ phone' \in Phone /\ phone'.state = "body" /\ phone'.command = m
        /\ phone'.turn = phone.turn /\ phone'.got = <<>> /\ phone'.tx_done = phone.tx_done
        /\ phone'.cause = {} /\ phone'.chunks = <<>>
    <2>1. <<>> \in Seq(SimChunk) /\ {} \in SUBSET Causes
      OBVIOUS
    <2> QED BY <1>1, <1>3, <1>6, <2>1 DEF Phone
  <1> HIDE DEF m
  <1>8. Typed'
    BY <1>5, <1>6, <1>7 DEF Typed, SimInv, BodyOut
  <1>9. Socket' /\ TxEmptyComesFirst'
    BY <1>1, <1>4, <1>5, <1>6, <1>7 DEF SimInv, Socket, On, TxEmptyComesFirst, BodyOut
  <1>10. Line'
    <2>1. simi.present => "rx" \notin simi'.iir
      BY <1>1, <1>4, <1>5, <1>6 DEF SimInv, Line, Live, On, BodyOut
    <2> QED BY <1>4, <1>5, <1>6, <1>7, <2>1 DEF Line, Live, On, BodyOut
  <1>11. Transaction'
    <2>1. simi'.present =>
            /\ ~card'.receiving /\ card'.ins = m.ins
            /\ {card'.pending, card'.fcp} \subseteq {NothingOwed, phone.turn}
            /\ NothingOwed \in {card'.pending, card'.fcp}
      BY <1>5, <1>6 DEF BodyOut, m
    <2>2. m.ins \in WithBody
      BY <1>1 DEF WithBody
    <2> QED BY <1>7, <2>1, <2>2 DEF Transaction, Live, On, InBody
  <1>12. Answer'
    <2>1. ASSUME NEW n \in DOMAIN simi'.rx
          PROVE  /\ n = Len(simi'.rx) /\ simi'.rx[n].turn = phone.turn
                 /\ Later(simi'.rx[n].owed) # phone.turn
                 /\ simi'.rx[n].what \in Statuses
      BY <1>3, <1>5, <1>6, <2>1, Turns2 DEF BodyOut
    <2> QED BY <1>7, <2>1 DEF Answer, On, Fits, Closes, Statuses
  <1>13. Guarded'
    <2>1. ASSUME NEW n \in DOMAIN simi'.rx, Opens(simi'.rx[n].what),
                 m.ins \in {"read", "update", "authenticate"}
          PROVE  Authorized(card')
      BY <1>5, <1>6, <2>1 DEF BodyOut, m
    <2> QED BY <1>5, <1>6, <1>7, <2>1 DEF Guarded, Releases, Opens, BodyOut
  <1>14. OnlyPukLifts(past, past', phone.command)
    BY <1>5, <1>6 DEF BodyOut
  <1> QED BY <1>8, <1>9, <1>10, <1>11, <1>12, <1>13, <1>14 DEF SimInv

\* It takes note of a TX-empty, or of nothing.
Noted(p) ==
    /\ p \in Phone /\ p.state = phone.state /\ p.chunks = phone.chunks
    /\ p.command = phone.command /\ p.turn = phone.turn /\ p.cause = {}
    /\ p.tx_done <=> phone.tx_done \/ "tx" \in phone.cause

LEMMA NoteStep ==
    ASSUME SimInv, HandleFiq6, ~("tx" \in phone.cause /\ phone.chunks # <<>>),
           ~("rx" \in phone.cause /\ simi.ready)
    PROVE  SimInv'
  <1>1. /\ simi' = [simi EXCEPT !.iir = @ \ phone.cause] /\ card' = card /\ past' = past
        /\ fiq' = fiq /\ scenario' = scenario
        /\ phone' = [phone EXCEPT !.cause = {}, !.chunks = @,
                       !.tx_done = @ \/ "tx" \in phone.cause, !.got = @]
    <2>1. simi.ready = [simi EXCEPT !.iir = @ \ phone.cause].ready
      BY DEF SimInv, Typed, Simi
    <2> QED BY <2>1 DEF HandleFiq6
  <1>2. simi \in Simi /\ phone \in Phone
    BY DEF SimInv, Typed
  <1>3. Noted(phone') /\ phone'.got = phone.got
    <2>1. (phone.tx_done \/ "tx" \in phone.cause) \in BOOLEAN /\ {} \in SUBSET Causes
      OBVIOUS
    <2> QED BY <1>1, <1>2, <2>1 DEF Phone, Noted
  <1>4. /\ simi' \in Simi /\ simi'.present = simi.present /\ simi'.clock = simi.clock
        /\ simi'.active = simi.active /\ simi'.rx = simi.rx /\ simi'.ready = simi.ready
        /\ simi'.tx_pending = simi.tx_pending /\ simi'.iir = simi.iir \ phone.cause
    BY <1>1, <1>2 DEF Simi
  <1>5. Typed' /\ Socket' /\ TxEmptyComesFirst'
    BY <1>1, <1>3, <1>4 DEF SimInv, Typed, Socket, On, TxEmptyComesFirst, Noted
  <1>6. Line'
    BY <1>3, <1>4 DEF SimInv, Line, Live, On, Noted
  <1>7. Transaction'
    BY <1>1, <1>3, <1>4 DEF SimInv, Transaction, Live, On, InBody, Noted
  <1>8. Answer'
    <2>1. \A b : /\ Fits(b, phone') <=> Fits(b, phone)
                 /\ Closes(b, phone') <=> Closes(b, phone)
      BY <1>3 DEF Noted, Fits, Closes
    <2> QED BY <1>3, <1>4, <2>1 DEF SimInv, Answer, On, Noted
  <1>9. Guarded'
    BY <1>1, <1>3, <1>4 DEF SimInv, Guarded, Releases, Noted
  <1> QED BY <1>5, <1>6, <1>7, <1>8, <1>9 DEF SimInv

\* It reads a character.
LEMMA ReadStep ==
    ASSUME SimInv, HandleFiq6, "rx" \in phone.cause, simi.ready,
           ~("tx" \in phone.cause /\ phone.chunks # <<>>)
    PROVE  SimInv'
  <1> DEFINE s == [simi EXCEPT !.iir = @ \ phone.cause]
             byte == Head(simi.rx)
  <1>1. simi \in Simi /\ phone \in Phone /\ simi.rx # <<>> /\ simi.rx \in Seq(SimByte)
        /\ phone.got \in Seq(SimByte)
    BY DEF SimInv, Typed, Simi, Phone
  <1>2. /\ s \in Simi /\ s.present = simi.present /\ s.clock = simi.clock
        /\ s.active = simi.active /\ s.rx = simi.rx /\ s.ready = simi.ready
        /\ s.tx_pending = simi.tx_pending /\ s.iir = simi.iir \ phone.cause
    BY <1>1 DEF Simi
  <1> HIDE DEF s
  <1>3. /\ simi' = ReadRxd(s) /\ card' = card /\ past' = past
        /\ fiq' = fiq /\ scenario' = scenario
        /\ phone' = [phone EXCEPT !.cause = {}, !.chunks = @,
                       !.tx_done = @ \/ "tx" \in phone.cause,
                       !.got = Append(@, byte)]
    BY <1>1, <1>2 DEF HandleFiq6, s
  <1>4. /\ Tail(simi.rx) \in Seq(SimByte) /\ Len(Tail(simi.rx)) = Len(simi.rx) - 1
        /\ byte \in SimByte /\ byte = simi.rx[1] /\ 1 \in DOMAIN simi.rx
        /\ \A n \in DOMAIN Tail(simi.rx) :
             n + 1 \in DOMAIN simi.rx /\ Tail(simi.rx)[n] = simi.rx[n + 1]
    BY <1>1
  <1>5. /\ Append(phone.got, byte) \in Seq(SimByte)
        /\ Len(Append(phone.got, byte)) = Len(phone.got) + 1
        /\ \A n \in DOMAIN Append(phone.got, byte) :
             \/ n \in DOMAIN phone.got /\ Append(phone.got, byte)[n] = phone.got[n]
             \/ Append(phone.got, byte)[n] = byte
        /\ Append(phone.got, byte)[Len(phone.got) + 1] = byte
    BY <1>1, <1>4
  <1> HIDE DEF byte
  <1>6. Noted(phone') /\ phone'.got = Append(phone.got, byte)
    <2>1. (phone.tx_done \/ "tx" \in phone.cause) \in BOOLEAN /\ {} \in SUBSET Causes
      OBVIOUS
    <2> QED BY <1>1, <1>3, <1>5, <2>1 DEF Phone, Noted
  <1>7. /\ simi' \in Simi /\ simi'.present = simi.present /\ simi'.clock = simi.clock
        /\ simi'.active = simi.active /\ simi'.rx = Tail(simi.rx) /\ ~simi'.ready
        /\ simi'.tx_pending = simi.tx_pending /\ simi'.iir = simi.iir \ phone.cause
    <2>1. (Len(s.rx) > 1) \in BOOLEAN
      OBVIOUS
    <2> QED BY <1>2, <1>3, <1>4, <2>1 DEF Simi, ReadRxd
  <1>8. Typed'
    <2>1. Len(simi'.rx) <= RxSize
      <3>1. Len(simi.rx) <= RxSize /\ RxSize \in Nat /\ Len(simi.rx) \in Nat
        BY <1>1, SimInterfaceAssumption DEF SimInv, Typed
      <3> QED BY <1>4, <1>7, <3>1
    <2> QED BY <1>3, <1>6, <1>7, <2>1 DEF SimInv, Typed, Noted
  <1>9. simi.present /\ phone.chunks = <<>> /\ (On => Live) /\ phone.state # "ready"
    BY <1>1 DEF SimInv, Socket, Transaction, InBody, Live
  <1>10. Socket' /\ TxEmptyComesFirst'
    <2>1. phone.tx_done \/ "tx" \in phone.cause
      BY <1>9 DEF SimInv, Transaction, Line, On
    <2> QED BY <1>3, <1>6, <1>7, <1>9, <2>1 DEF SimInv, Socket, On, TxEmptyComesFirst, Noted
  <1>11. Line'
    BY <1>6, <1>7 DEF SimInv, Line, Live, On, Noted
  <1>12. Transaction'
    BY <1>3, <1>6, <1>7, <1>9 DEF SimInv, Transaction, Live, On, InBody, Noted
  <1>13. Answer'
    <2>1. ASSUME On, NEW n \in DOMAIN simi'.rx
          PROVE  /\ Fits(simi.rx[n + 1], phone) /\ simi'.rx[n] = simi.rx[n + 1]
                 /\ Closes(simi.rx[n + 1], phone) => n = Len(simi'.rx)
      <3>1. n + 1 \in DOMAIN simi.rx /\ simi'.rx[n] = simi.rx[n + 1]
            /\ Len(simi'.rx) = Len(simi.rx) - 1 /\ n \in Int /\ Len(simi.rx) \in Nat
        BY <1>1, <1>4, <1>7, <2>1
      <3> QED BY <2>1, <3>1 DEF SimInv, Answer
    <2>2. ASSUME On, NEW n \in DOMAIN phone'.got
          PROVE  Fits(phone'.got[n], phone)
      BY <1>4, <1>5, <1>6, <2>2 DEF SimInv, Answer
    <2>3. ASSUME On, Closes(byte, phone)
          PROVE  simi'.rx = <<>>
      <3>1. 1 = Len(simi.rx)
        BY <1>4, <2>3 DEF SimInv, Answer
      <3> QED BY <1>4, <1>7, <3>1
    <2>4. Last(phone'.got) = byte
      BY <1>5, <1>6 DEF Last
    <2>5. ASSUME On, phone.state = "atr"
          PROVE  Len(phone'.got) + Len(simi'.rx) = Len(Atr(phone.turn))
      <3>1. Len(phone.got) + Len(simi.rx) = Len(Atr(phone.turn))
        BY <1>9, <2>5 DEF SimInv, Answer
      <3>2. Len(phone.got) \in Nat /\ Len(simi.rx) \in Nat
        BY <1>1
      <3>3. Len(phone'.got) = Len(phone.got) + 1 /\ Len(simi'.rx) = Len(simi.rx) - 1
        BY <1>4, <1>5, <1>6, <1>7
      <3>4. \A g, r \in Nat : (g + 1) + (r - 1) = g + r
        OBVIOUS
      <3> QED BY <3>1, <3>2, <3>3, <3>4
    <2>6. /\ \A b : /\ Fits(b, phone') <=> Fits(b, phone)
                    /\ Closes(b, phone') <=> Closes(b, phone)
          /\ phone'.state = phone.state /\ phone'.turn = phone.turn
      BY <1>6 DEF Noted, Fits, Closes
    <2> HIDE DEF byte
    <2> QED BY <2>1, <2>2, <2>3, <2>4, <2>5, <2>6 DEF Answer, On
  <1>14. Guarded'
    <2>1. ASSUME NEW n \in DOMAIN simi'.rx
          PROVE  n + 1 \in DOMAIN simi.rx /\ simi'.rx[n] = simi.rx[n + 1]
      BY <1>4, <1>7, <2>1
    <2> QED BY <1>3, <1>6, <2>1 DEF SimInv, Guarded, Releases, Noted
  <1> QED BY <1>8, <1>10, <1>11, <1>12, <1>13, <1>14 DEF SimInv

\* The answer is read to its end, and the handset goes on.
LEMMA ConcludeStep ==
    ASSUME SimInv, Conclude
    PROVE  SimInv'
  <1> DEFINE status == Last(phone.got)
             ins == phone.command.ins
             accepted == status.what \in {"ok", "proactive"}
             taken == IF ins = "fetch" /\ accepted THEN phone.command.of ELSE "none"
             fetch == IF status.what = "proactive" THEN status.of
                      ELSE IF ins = "fetch" THEN "none" ELSE phone.fetch
             open == IF ins = "fetch" THEN taken
                     ELSE IF ins = "terminal_response" THEN "none" ELSE phone.open
             menu == phone.menu \/ (ins = "terminal_response" /\ phone.command.of = "menu")
             profiled == (phone.profiled \/ ins = "profile") /\ taken # "refresh"
  <1>1. /\ phone.cause = {} /\ phone.state \in {"pts", "header", "body"} /\ Answered
        /\ Last(phone.got).what # "ack" /\ phone' = Concluded(phone, status)
        /\ simi' = simi /\ card' = card /\ fiq' = fiq /\ past' = past
        /\ scenario' = scenario
    BY DEF Conclude, Runs
  <1>2. phone \in Phone /\ simi.rx = <<>> /\ phone.got \in Seq(SimByte) /\ phone.got # <<>>
        /\ phone.tx_done
    BY <1>1, AnsweredAll DEF SimInv, Typed, On, Phone, Answered
  <1>3. Len(phone.got) \in DOMAIN phone.got /\ status = phone.got[Len(phone.got)]
        /\ status \in SimByte
    BY <1>2 DEF Last
  <1>4. phone' = [phone EXCEPT !.state = "ready", !.got = <<>>, !.fetch = fetch,
                     !.open = open, !.menu = menu, !.profiled = profiled]
    BY <1>1 DEF Concluded
  <1>5. /\ fetch \in Proactive /\ open \in Proactive
        /\ menu \in BOOLEAN /\ profiled \in BOOLEAN
    <2>1. /\ status.of \in Proactive /\ phone.fetch \in Proactive /\ phone.open \in Proactive
          /\ phone.command.of \in Proactive /\ "none" \in Proactive
      BY <1>2, <1>3, ToolkitNames DEF SimByte, Phone, SimCommand
    <2> HIDE DEF status, ins
    <2> QED BY <2>1
  <1>6. ~(phone.state = "header" /\ ins \in WithBody) /\ phone.chunks = <<>>
    <2>1. phone.chunks = <<>>
      BY <1>2 DEF SimInv, Transaction, InBody
    <2>2. phone.state = "header" /\ ins \in WithBody => status.what = "ack"
      BY <1>3 DEF SimInv, Answer, On, Fits
    <2> QED BY <1>1, <2>1, <2>2
  <1> HIDE DEF fetch, open, menu, profiled, status, ins, taken, accepted
  <1>7. /\ phone' \in Phone /\ phone'.state = "ready" /\ phone'.got = <<>>
        /\ phone'.cause = {} /\ phone'.chunks = <<>> /\ phone'.tx_done
        /\ phone'.turn = phone.turn /\ phone'.command = phone.command
    <2>1. <<>> \in Seq(SimByte) /\ "ready" \in PhoneStates
      BY DEF PhoneStates
    <2> QED BY <1>1, <1>2, <1>4, <1>5, <1>6, <2>1 DEF Phone
  <1>8. Typed' /\ TxEmptyComesFirst'
    BY <1>1, <1>7 DEF SimInv, Typed, TxEmptyComesFirst
  <1>9. Socket'
    BY <1>1, <1>7 DEF SimInv, Socket, On
  <1>10. Line'
    BY <1>1, <1>7 DEF SimInv, Line, Live, On
  <1>11. Transaction'
    BY <1>1, <1>2, <1>6, <1>7 DEF SimInv, Transaction, InBody, Live, On, ins
  <1>12. Answer'
    BY <1>1, <1>2, <1>7 DEF Answer
  <1>13. Guarded'
    BY <1>1, <1>7 DEF SimInv, Guarded
  <1> QED BY <1>8, <1>9, <1>10, <1>11, <1>12, <1>13 DEF SimInv

\* A handset that is off, with nothing on its mind.
LEMMA OffInv ==
    ASSUME SimInv, Typed', phone'.state = "off", phone'.tx_done, phone'.chunks = <<>>,
           ~simi'.present => simi'.rx = <<>>, Counted(card, past)'
    PROVE  SimInv'
  BY DEF SimInv, Socket, Line, Transaction, Answer, Guarded, TxEmptyComesFirst,
         Live, On, InBody

LEMMA OffPhone ==
    ASSUME Typed
    PROVE  /\ PhoneOff(phone.turn) \in Phone /\ PhoneOff(phone.turn).state = "off"
           /\ PhoneOff(phone.turn).tx_done /\ PhoneOff(phone.turn).chunks = <<>>
  <1>1. phone.turn \in Turn
    BY DEF Typed, Phone
  <1> QED BY <1>1, PlainTyped DEF PhoneOff

LEMMA TakeFiq7Step ==
    ASSUME SimInv, TakeFiq7
    PROVE  SimInv'
  <1>1. phone' = PhoneOff(phone.turn) /\ simi' = simi /\ card' = card /\ past' = past
        /\ scenario' = scenario /\ fiq' \subseteq fiq
    BY DEF TakeFiq7
  <1>2. Typed'
    BY <1>1, OffPhone DEF SimInv, Typed
  <1> QED BY <1>1, <1>2, OffPhone, OffInv DEF SimInv, Socket, Guarded, Counted

\* A card that starts a session keeps its CHVs, and forgets who presented one.
LEMMA SessionReset ==
    ASSUME NEW c \in Card, NEW p \in Past, Counted(c, p), NEW turn \in Turn,
           NEW d \in {ResetSession(c, turn), ResetCard(c, turn)}
    PROVE  /\ d \in Card /\ ~d.receiving /\ d.pending = NothingOwed /\ d.fcp = turn
           /\ d.verified = {} /\ d.attempts = c.attempts /\ d.unblocks = c.unblocks
           /\ Counted(d, p)
  <1>1. turn \in Owing /\ NothingOwed \in Owing /\ "none" \in Proactive
    BY Turns2, ToolkitNames
  <1> DEFINE session == ResetSession(c, turn)
  <1>2. /\ session \in Card /\ ~session.receiving
        /\ session.pending = NothingOwed /\ session.fcp = turn
        /\ session.verified = {} /\ session.attempts = c.attempts
        /\ session.unblocks = c.unblocks
    BY <1>1 DEF ResetSession, Card
  <1> HIDE DEF session
  <1>3. LET e == [session EXCEPT !.ins = "none"] IN
        /\ e \in Card /\ ~e.receiving /\ e.pending = NothingOwed /\ e.fcp = turn
        /\ e.verified = {} /\ e.attempts = c.attempts /\ e.unblocks = c.unblocks
    BY <1>2 DEF Card
  <1>4. d = session \/ d = [session EXCEPT !.ins = "none"]
    BY DEF ResetCard, session
  <1>5. /\ d \in Card /\ ~d.receiving /\ d.pending = NothingOwed /\ d.fcp = turn
        /\ d.verified = {} /\ d.attempts = c.attempts /\ d.unblocks = c.unblocks
    BY <1>2, <1>3, <1>4
  <1> QED BY <1>5 DEF Counted

LEMMA ClearedSimi ==
    ASSUME NEW s \in Simi
    PROVE  LET t == ClearTransfer(s) IN
           /\ t \in Simi /\ t.rx = <<>> /\ ~t.ready /\ t.iir = {} /\ ~t.tx_pending
           /\ t.present = s.present /\ t.clock = s.clock /\ t.active = s.active
  <1>1. <<>> \in Seq(SimByte) /\ {} \in SUBSET Causes
    OBVIOUS
  <1> QED BY <1>1 DEF ClearTransfer, Simi

\* A count of what the bounds allow says nothing of the CHVs.
LEMMA PastCounts ==
    ASSUME NEW p \in Past
    PROVE  \A q \in {[p EXCEPT !.breaks = @ + 1], [p EXCEPT !.gates = @ + 1]} :
             /\ q \in Past /\ q.earned = p.earned /\ q.refused = p.refused
             /\ q.unblock_refused = p.unblock_refused
  <1>1. \A k \in Nat : [p EXCEPT !.breaks = k] \in Past /\ [p EXCEPT !.gates = k] \in Past
    BY DEF Past
  <1>2. p.breaks + 1 \in Nat /\ p.gates + 1 \in Nat
    BY DEF Past
  <1>3. \A k : LET q == [p EXCEPT !.breaks = k]
                   r == [p EXCEPT !.gates = k]
               IN  /\ q.earned = p.earned /\ r.earned = p.earned
                   /\ q.refused = p.refused /\ r.refused = p.refused
                   /\ q.unblock_refused = p.unblock_refused
                   /\ r.unblock_refused = p.unblock_refused
    BY DEF Past
  <1> QED BY <1>1, <1>2, <1>3

LEMMA MachineResetStep ==
    ASSUME SimInv, MachineReset
    PROVE  SimInv'
  <1> DEFINE s == ClearTransfer(simi)
  <1>1. /\ simi' = [s EXCEPT !.timer = FALSE, !.clock = FALSE, !.active = FALSE]
        /\ card' = ResetCard(card, phone.turn) /\ fiq' = {}
        /\ phone' = PhoneOff(phone.turn) /\ scenario' = scenario
        /\ past' = [past EXCEPT !.breaks = @ + 1]
    BY DEF MachineReset
  <1>2. s \in Simi /\ s.rx = <<>> /\ ~s.ready
    BY ClearedSimi DEF SimInv, Typed
  <1> HIDE DEF s
  <1>3. simi' \in Simi /\ simi'.rx = <<>> /\ ~simi'.ready
    BY <1>1, <1>2 DEF Simi
  <1>4. /\ past' \in Past /\ past'.earned = past.earned /\ past'.refused = past.refused
        /\ past'.unblock_refused = past.unblock_refused
    BY <1>1, PastCounts DEF SimInv, Typed
  <1>5. card' \in Card /\ Counted(card', past)
    BY <1>1, SessionReset DEF SimInv, Typed, Phone, Guarded
  <1>6. Typed'
    <2>1. Len(<<>>) <= RxSize
      BY SimInterfaceAssumption
    <2> QED BY <1>1, <1>3, <1>4, <1>5, <2>1, OffPhone DEF SimInv, Typed
  <1>7. Counted(card, past)'
    BY <1>4, <1>5 DEF Counted
  <1> QED BY <1>1, <1>3, <1>6, <1>7, OffPhone, OffInv DEF SimInv

LEMMA RemoveStep ==
    ASSUME SimInv, RemoveCard
    PROVE  SimInv'
  <1> DEFINE s == ClearTransfer(simi)
  <1>1. /\ simi' = [s EXCEPT !.present = FALSE, !.timer = FALSE]
        /\ card' = ResetSession(card, phone.turn) /\ fiq' = fiq \cup {7}
        /\ phone' = phone /\ scenario' = scenario
        /\ past' = [past EXCEPT !.breaks = @ + 1]
    BY DEF RemoveCard
  <1>2. s \in Simi /\ s.rx = <<>> /\ ~s.ready /\ s.clock = simi.clock
        /\ s.active = simi.active
    BY ClearedSimi DEF SimInv, Typed
  <1> HIDE DEF s
  <1>3. simi' \in Simi /\ simi'.rx = <<>> /\ ~simi'.ready /\ ~simi'.present
        /\ simi'.clock = simi.clock /\ simi'.active = simi.active
    BY <1>1, <1>2 DEF Simi
  <1>4. /\ past' \in Past /\ past'.earned = past.earned /\ past'.refused = past.refused
        /\ past'.unblock_refused = past.unblock_refused
    BY <1>1, PastCounts DEF SimInv, Typed
  <1>5. card' \in Card /\ Counted(card', past)
    BY <1>1, SessionReset DEF SimInv, Typed, Phone, Guarded
  <1>6. Typed'
    <2>1. Len(<<>>) <= RxSize
      BY SimInterfaceAssumption
    <2> QED BY <1>1, <1>3, <1>4, <1>5, <2>1 DEF SimInv, Typed
  <1>7. Socket' /\ Line' /\ TxEmptyComesFirst'
    BY <1>1, <1>3 DEF SimInv, Socket, Line, Live, On, TxEmptyComesFirst
  <1>8. Transaction'
    BY <1>1, <1>3 DEF SimInv, Transaction, Live, On, InBody
  <1>9. Answer'
    <2>1. DOMAIN <<>> = {}
      OBVIOUS
    <2>2. On => \A n \in DOMAIN phone.got : Fits(phone.got[n], phone)
      BY DEF SimInv, Answer
    <2> QED BY <1>1, <1>3, <2>1, <2>2 DEF Answer, On
  <1>10. Guarded'
    <2>1. Counted(card, past)'
      BY <1>4, <1>5 DEF Counted
    <2> QED BY <1>3, <2>1 DEF Guarded
  <1> QED BY <1>6, <1>7, <1>8, <1>9, <1>10 DEF SimInv

LEMMA InsertStep ==
    ASSUME SimInv, InsertCard
    PROVE  SimInv'
  <1>1. /\ ~simi.present /\ 7 \notin fiq /\ simi' = [simi EXCEPT !.present = TRUE]
        /\ fiq' = fiq \cup {7} /\ card' = card /\ phone' = phone /\ past' = past
        /\ scenario' = scenario
    BY DEF InsertCard
  <1>2. phone.state = "off" /\ phone.tx_done /\ phone.chunks = <<>>
    BY <1>1 DEF SimInv, Socket, On, Transaction, InBody
  <1>3. simi' \in Simi /\ simi'.rx = simi.rx /\ simi'.ready = simi.ready /\ simi'.present
    BY <1>1 DEF SimInv, Typed, Simi
  <1>4. Typed'
    BY <1>1, <1>3 DEF SimInv, Typed
  <1> QED BY <1>1, <1>2, <1>3, <1>4, OffInv DEF SimInv, Guarded, Counted

------------------------------------------------------------------------------
(* Steps of the devices *)

\* The interface changes, and neither what it holds nor who is there.
LEMMA DeviceStep ==
    ASSUME SimInv, simi' \in Simi, simi'.rx = simi.rx, simi'.present = simi.present,
           simi'.active = simi.active, InBody => simi'.clock,
           simi'.ready => simi'.rx # <<>>, Line', card' = card, phone' = phone,
           past' \in Past, Counted(card, past'),
           fiq' \subseteq {6, 7}, 7 \in fiq => 7 \in fiq', scenario' = scenario
    PROVE  SimInv'
  <1>1. Typed' /\ TxEmptyComesFirst'
    BY DEF SimInv, Typed, TxEmptyComesFirst
  <1>2. Socket'
    BY DEF SimInv, Socket, On
  <1>3. Transaction'
    BY DEF SimInv, Transaction, InBody, Live, On
  <1>4. Answer'
    <2>1. \A b : (Fits(b, phone') <=> Fits(b, phone))
                 /\ (Closes(b, phone') <=> Closes(b, phone))
      OBVIOUS
    <2> QED BY <2>1 DEF SimInv, Answer, On
  <1>5. Guarded'
    <2>1. Counted(card', past')
      OBVIOUS
    <2> QED BY <2>1 DEF SimInv, Guarded, Releases
  <1> QED BY <1>1, <1>2, <1>3, <1>4, <1>5 DEF SimInv

LEMMA RxReadyStep ==
    ASSUME SimInv, RxReady
    PROVE  SimInv'
  <1>1. /\ card' = card /\ phone' = phone /\ past' = past /\ scenario' = scenario
        /\ simi \in Simi /\ past \in Past /\ Counted(card, past') /\ fiq \subseteq {6, 7}
    BY DEF RxReady, SimInv, Typed, Guarded
  <1>2. CASE simi' = [simi EXCEPT !.timer = FALSE] /\ fiq' = fiq
    <2>1. /\ simi' \in Simi /\ simi'.rx = simi.rx /\ simi'.present = simi.present
          /\ simi'.active = simi.active /\ simi'.clock = simi.clock
          /\ simi'.ready = simi.ready /\ simi'.iir = simi.iir
          /\ simi'.tx_pending = simi.tx_pending
      BY <1>1, <1>2 DEF Simi
    <2>2. Line'
      BY <1>1, <2>1 DEF SimInv, Line, Live, On
    <2>3. (InBody => simi'.clock) /\ (simi'.ready => simi'.rx # <<>>)
      BY <2>1 DEF SimInv, Typed, Transaction
    <2> QED BY <1>1, <1>2, <2>1, <2>2, <2>3, DeviceStep
  <1>3. CASE /\ simi' = [simi EXCEPT !.tx_pending = FALSE, !.iir = @ \cup {"tx"}]
             /\ fiq' = fiq \cup {6}
    <2>1. /\ simi' \in Simi /\ simi'.rx = simi.rx /\ simi'.present = simi.present
          /\ simi'.active = simi.active /\ simi'.clock = simi.clock
          /\ simi'.ready = simi.ready /\ simi'.iir = simi.iir \cup {"tx"}
      BY <1>1, <1>3 DEF Simi, Causes
    <2>2. Line'
      BY <1>1, <2>1 DEF SimInv, Line, Live, On
    <2>3. (InBody => simi'.clock) /\ (simi'.ready => simi'.rx # <<>>)
      BY <2>1 DEF SimInv, Typed, Transaction
    <2> QED BY <1>1, <1>3, <2>1, <2>2, <2>3, DeviceStep
  <1>4. CASE /\ simi.rx # <<>> /\ ~simi.tx_pending /\ fiq' = fiq \cup {6}
             /\ simi' = [simi EXCEPT !.ready = TRUE, !.iir = @ \cup {"rx"}, !.timer = FALSE]
    <2>1. /\ simi' \in Simi /\ simi'.rx = simi.rx /\ simi'.present = simi.present
          /\ simi'.active = simi.active /\ simi'.clock = simi.clock
          /\ simi'.tx_pending = simi.tx_pending /\ simi'.iir = simi.iir \cup {"rx"}
      BY <1>1, <1>4 DEF Simi, Causes
    <2>2. Line'
      BY <1>1, <1>4, <2>1 DEF SimInv, Line, Live, On
    <2>3. (InBody => simi'.clock) /\ (simi'.ready => simi'.rx # <<>>)
      BY <1>4, <2>1 DEF SimInv, Transaction
    <2> QED BY <1>1, <1>4, <2>1, <2>2, <2>3, DeviceStep
  <1> QED BY <1>2, <1>3, <1>4 DEF RxReady

\* The clock stops between transactions, and goes on at any time.
LEMMA ClockStep ==
    ASSUME SimInv, Gate \/ Ungate
    PROVE  SimInv' /\ past'.refused = past.refused
  <1>1. /\ card' = card /\ phone' = phone /\ fiq' = fiq /\ scenario' = scenario
        /\ simi \in Simi /\ past \in Past /\ Counted(card, past) /\ fiq \subseteq {6, 7}
        /\ past' = past \/ past' = [past EXCEPT !.gates = @ + 1]
    BY DEF Gate, Ungate, SimInv, Typed, Guarded
  <1>2. past' \in Past /\ past'.refused = past.refused /\ Counted(card, past')
    <2>1. past' \in Past /\ past'.earned = past.earned /\ past'.refused = past.refused
          /\ past'.unblock_refused = past.unblock_refused
      BY <1>1, PastCounts
    <2> QED BY <1>1, <2>1 DEF Counted
  <1>3. PICK enabled \in BOOLEAN :
          simi' = SetClock(simi, enabled) /\ (InBody => enabled)
    BY DEF Gate, Ungate, InBody
  <1>4. /\ simi' \in Simi /\ simi'.rx = simi.rx /\ simi'.present = simi.present
        /\ simi'.active = simi.active /\ simi'.clock = enabled
        /\ simi'.ready = simi.ready /\ simi'.iir = simi.iir
        /\ simi'.tx_pending = simi.tx_pending
    <2>1. (enabled /\ (simi.tx_pending \/ (~simi.ready /\ simi.rx # <<>>))) \in BOOLEAN
      OBVIOUS
    <2> QED BY <1>1, <1>3, <2>1 DEF Simi, SetClock
  <1>5. Line'
    BY <1>1, <1>4 DEF SimInv, Line, Live, On
  <1>6. simi'.ready => simi'.rx # <<>>
    BY <1>4 DEF SimInv, Typed
  <1> QED BY <1>1, <1>2, <1>3, <1>4, <1>5, <1>6, DeviceStep

\* The toolkit's own timer leaves the T=0 parser and the CHVs alone.
LEMMA ToolkitTimerStep ==
    ASSUME SimInv, ToolkitTimer
    PROVE  SimInv'
  <1>1. /\ card' = ToolkitCommandReady(card) /\ simi' = simi /\ fiq' = fiq
        /\ phone' = phone /\ past' = past /\ scenario' = scenario /\ card \in Card
    BY DEF ToolkitTimer, SimInv, Typed
  <1>2. /\ card' \in Card /\ SameSecrets(card, card') /\ card'.receiving = card.receiving
        /\ card'.ins = card.ins /\ card'.pending = card.pending /\ card'.fcp = card.fcp
    <2>1. HasToolkit => "text" \in Proactive
      BY ToolkitNames
    <2>2. \/ card' = [card EXCEPT !.timer = FALSE]
          \/ HasToolkit
             /\ card' = [card EXCEPT !.timer = FALSE, !.proactive = "text", !.ready = TRUE]
      BY <1>1 DEF ToolkitCommandReady
    <2>3. CASE card' = [card EXCEPT !.timer = FALSE]
      BY <1>1, <2>3 DEF Card, SameSecrets
    <2>4. CASE /\ HasToolkit
               /\ card' = [card EXCEPT !.timer = FALSE, !.proactive = "text", !.ready = TRUE]
      BY <1>1, <2>1, <2>4 DEF Card, SameSecrets
    <2> QED BY <2>2, <2>3, <2>4
  <1>3. Typed' /\ Socket' /\ TxEmptyComesFirst'
    BY <1>1, <1>2 DEF SimInv, Typed, Socket, On, TxEmptyComesFirst
  <1>4. Line' /\ Transaction'
    BY <1>1, <1>2 DEF SimInv, Line, Transaction, InBody, Live, On
  <1>5. Answer'
    BY <1>1 DEF SimInv, Answer, On
  <1>6. Guarded'
    BY <1>1, <1>2 DEF SimInv, Guarded, Counted, Authorized, SameSecrets, Releases
  <1> QED BY <1>3, <1>4, <1>5, <1>6 DEF SimInv

\* The handler of FIQ6 reads the causes.
LEMMA TakeFiq6Step ==
    ASSUME SimInv, TakeFiq6
    PROVE  SimInv'
  <1>1. /\ phone' = [phone EXCEPT !.cause = simi.iir] /\ fiq' = fiq \ {6}
        /\ simi' = simi /\ card' = card /\ past' = past /\ scenario' = scenario
        /\ phone \in Phone /\ simi \in Simi
    BY DEF TakeFiq6, SimInv, Typed
  <1>2. /\ phone' \in Phone /\ phone'.state = phone.state /\ phone'.chunks = phone.chunks
        /\ phone'.command = phone.command /\ phone'.turn = phone.turn
        /\ phone'.tx_done = phone.tx_done /\ phone'.got = phone.got
        /\ phone'.cause = simi.iir
    BY <1>1 DEF Phone, Simi
  <1>3. Typed' /\ Socket' /\ TxEmptyComesFirst'
    BY <1>1, <1>2 DEF SimInv, Typed, Socket, On, TxEmptyComesFirst
  <1>4. Line'
    BY <1>1, <1>2 DEF SimInv, Line, Live, On
  <1>5. Transaction'
    BY <1>1, <1>2 DEF SimInv, Transaction, InBody, Live, On
  <1>6. Answer'
    <2>1. \A b : (Fits(b, phone') <=> Fits(b, phone))
                 /\ (Closes(b, phone') <=> Closes(b, phone))
      BY <1>2 DEF Fits, Closes
    <2> QED BY <1>1, <1>2, <2>1 DEF SimInv, Answer, On
  <1>7. Guarded'
    BY <1>1, <1>2 DEF SimInv, Guarded, Releases
  <1> QED BY <1>3, <1>4, <1>5, <1>6, <1>7 DEF SimInv

\* Activation: bit 7 falls, and rises over the card's answer to reset.
LEMMA ControlWritten ==
    ASSUME NEW s \in Simi, NEW turn \in Turn, s.present, s.clock
    PROVE  LET t == ControlWrite(ControlWrite(s, FALSE, <<>>), TRUE, Atr(turn)) IN
           /\ t \in Simi /\ t.rx = Atr(turn) /\ ~t.ready /\ t.iir = {} /\ ~t.tx_pending
           /\ t.present /\ t.clock /\ t.active
  <1> DEFINE low == [s EXCEPT !.active = FALSE]
             high == [low EXCEPT !.active = TRUE]
             cleared == ClearTransfer(high)
             filled == [cleared EXCEPT !.rx = @ \o Atr(turn)]
  <1>1. low \in Simi /\ low.present /\ low.clock /\ ~low.active
    BY DEF Simi
  <1>2. ControlWrite(s, FALSE, <<>>) = low
    BY DEF ControlWrite, Activates
  <1> HIDE DEF low
  <1>3. high \in Simi /\ high.present /\ high.clock /\ high.active
    BY <1>1 DEF Simi
  <1>4. ControlWrite(low, TRUE, Atr(turn)) =
          ScheduleCardBytes([ClearTransfer(high) EXCEPT
                               !.rx = @ \o IF low.present THEN Atr(turn) ELSE <<>>],
                            FALSE, low.present)
    BY <1>1 DEF ControlWrite, Activates
  <1> HIDE DEF high
  <1>5. /\ cleared \in Simi /\ cleared.rx = <<>> /\ cleared.iir = {}
        /\ cleared.present /\ cleared.clock /\ cleared.active
    BY <1>3, ClearedSimi
  <1> HIDE DEF cleared
  <1>6. Atr(turn) \in Seq(SimByte) /\ <<>> \o Atr(turn) = Atr(turn)
    <2>1. Byte(turn, turn, "atr", "none") \in SimByte
      BY ToolkitNames DEF Byte, SimByte, What
    <2> QED BY <2>1 DEF Atr
  <1>7. /\ filled \in Simi /\ filled.rx = Atr(turn) /\ filled.iir = {}
        /\ filled.present /\ filled.clock /\ filled.active
    BY <1>5, <1>6 DEF Simi
  <1>8. ControlWrite(low, TRUE, Atr(turn)) = ScheduleCardBytes(filled, FALSE, TRUE)
    BY <1>1, <1>4 DEF cleared
  <1> HIDE DEF filled
  <1>9. LET t == ScheduleCardBytes(filled, FALSE, TRUE) IN
        /\ t \in Simi /\ t.rx = Atr(turn) /\ ~t.ready /\ t.iir = {} /\ ~t.tx_pending
        /\ t.present /\ t.clock /\ t.active
    <2>1. (filled.timer \/ FALSE \/ filled.rx # <<>>) \in BOOLEAN
      OBVIOUS
    <2> QED BY <1>7, <2>1 DEF ScheduleCardBytes, Simi
  <1> QED BY <1>2, <1>8, <1>9

LEMMA AtrBytes ==
    ASSUME NEW turn
    PROVE  /\ Len(Atr(turn)) = 2 /\ DOMAIN Atr(turn) = {1, 2}
           /\ \A n \in DOMAIN Atr(turn) :
                /\ Atr(turn)[n].turn = turn /\ Atr(turn)[n].owed = turn
                /\ Atr(turn)[n].what = "atr"
  <1> DEFINE b == Byte(turn, turn, "atr", "none")
  <1>1. b.turn = turn /\ b.owed = turn /\ b.what = "atr"
    BY DEF Byte
  <1> HIDE DEF b
  <1>2. Len(<<b, b>>) = 2 /\ DOMAIN <<b, b>> = {1, 2}
        /\ \A n \in DOMAIN <<b, b>> : <<b, b>>[n] = b
    OBVIOUS
  <1> QED BY <1>1, <1>2 DEF Atr, b

LEMMA ActivateStep ==
    ASSUME SimInv, Activate
    PROVE  SimInv' /\ past'.refused = past.refused
  <1> DEFINE turn == Later(phone.turn)
  <1>1. /\ phone.turn \in Turn /\ turn \in Turn /\ Later(turn) # turn /\ turn # NothingOwed
        /\ simi \in Simi /\ past \in Past /\ card \in Card
    BY Turns2 DEF SimInv, Typed, Phone
  <1>2. /\ simi' = ControlWrite(ControlWrite(simi, FALSE, <<>>), TRUE, Atr(turn))
        /\ card' = ResetSession(card, turn) /\ phone' = [PhoneOff(turn) EXCEPT !.state = "atr"]
        /\ past' = [past EXCEPT !.earned = {}] /\ fiq' = fiq /\ scenario' = scenario
        /\ simi.present /\ simi.clock
    BY DEF Activate
  <1> HIDE DEF turn
  <1>3. /\ simi' \in Simi /\ simi'.rx = Atr(turn) /\ ~simi'.ready /\ simi'.iir = {}
        /\ ~simi'.tx_pending /\ simi'.present /\ simi'.clock /\ simi'.active
    BY <1>1, <1>2, ControlWritten
  <1>4. /\ card' \in Card /\ ~card'.receiving /\ card'.pending = NothingOwed
        /\ card'.fcp = turn /\ card'.verified = {} /\ card'.attempts = card.attempts
        /\ card'.unblocks = card.unblocks
    BY <1>1, <1>2, SessionReset DEF SimInv, Guarded
  <1>5. /\ past' \in Past /\ past'.refused = past.refused
        /\ past'.unblock_refused = past.unblock_refused
    BY <1>1, <1>2 DEF Past
  <1>6. /\ phone' \in Phone /\ phone'.state = "atr" /\ phone'.got = <<>>
        /\ phone'.tx_done /\ phone'.chunks = <<>> /\ phone'.turn = turn
        /\ phone'.cause = {}
    <2> DEFINE off == PhoneOff(turn)
    <2>1. /\ off \in Phone /\ off.got = <<>> /\ off.tx_done /\ off.chunks = <<>>
          /\ off.turn = turn /\ off.cause = {}
      BY <1>1, PlainTyped DEF PhoneOff
    <2>2. phone' = [off EXCEPT !.state = "atr"] /\ "atr" \in PhoneStates
      BY <1>2 DEF PhoneStates
    <2> HIDE DEF off
    <2> QED BY <2>1, <2>2 DEF Phone
  <1>7. Typed'
    <2>1. Len(simi'.rx) <= RxSize
      <3>1. Len(simi'.rx) = 2 /\ RxSize \in Nat /\ RxSize >= 3
        BY <1>3, AtrBytes, SimInterfaceAssumption
      <3> QED BY <3>1
    <2> QED BY <1>2, <1>3, <1>4, <1>5, <1>6, <2>1 DEF SimInv, Typed
  <1>8. Socket' /\ TxEmptyComesFirst'
    BY <1>3, <1>6 DEF Socket, TxEmptyComesFirst
  <1>9. Line'
    BY <1>3, <1>6 DEF Line
  <1>10. Transaction'
    BY <1>3, <1>4, <1>6 DEF Transaction, InBody
  <1>11. Answer'
    <2>1. ASSUME NEW n \in DOMAIN simi'.rx
          PROVE  Fits(simi'.rx[n], phone') /\ ~Closes(simi'.rx[n], phone')
      <3>1. LET b == simi'.rx[n] IN b.turn = turn /\ b.owed = turn /\ b.what = "atr"
        BY <1>3, <2>1, AtrBytes
      <3> QED BY <1>1, <1>6, <3>1 DEF Fits, Closes, Statuses
    <2>2. Len(<<>>) + Len(Atr(turn)) = Len(Atr(turn)) /\ DOMAIN <<>> = {}
      BY AtrBytes
    <2>3. Len(phone'.got) + Len(simi'.rx) = Len(Atr(phone'.turn))
      BY <1>3, <1>6, <2>2
    <2> QED BY <1>6, <2>1, <2>2, <2>3 DEF Answer
  <1>12. Guarded'
    <2>1. Counted(card, past)'
      BY <1>4, <1>5 DEF SimInv, Guarded, Counted
    <2> QED BY <1>6, <2>1 DEF Guarded
  <1> QED BY <1>5, <1>7, <1>8, <1>9, <1>10, <1>11, <1>12 DEF SimInv

------------------------------------------------------------------------------
(* The specification *)

LEMMA InitInv == SimInit => SimInv
  <1> SUFFICES ASSUME SimInit PROVE SimInv
    OBVIOUS
  <1>1. scenario.enabled \in BOOLEAN /\ scenario.pin \in Pins /\ scenario \in Scenarios
    BY SimInterfaceAssumption DEF SimInit
  <1>2. 0 \in Turn /\ ChvAttempts \in 0 .. ChvAttempts
        /\ UnblockAttempts \in 0 .. UnblockAttempts /\ 0 \in 0 .. ChvAttempts
        /\ 0 \in 0 .. UnblockAttempts /\ Len(<<>>) <= RxSize
    BY SimCardAssumption, SimInterfaceAssumption DEF Turn
  <1>3. /\ simi \in Simi /\ simi.rx = <<>> /\ ~simi.ready /\ simi.present
    <2>1. <<>> \in Seq(SimByte) /\ {} \in SUBSET Causes
      OBVIOUS
    <2> QED BY <2>1 DEF SimInit, SimiInit, Simi
  <1>4. card \in Card
    <2>1. /\ [i \in Chv |-> scenario.pin] \in [Chv -> Pins]
          /\ [i \in Chv |-> ChvAttempts] \in [Chv -> 0 .. ChvAttempts]
          /\ [i \in Chv |-> UnblockAttempts] \in [Chv -> 0 .. UnblockAttempts]
      BY <1>1, <1>2
    <2>2. "none" \in Proactive /\ NothingOwed \in Owing /\ {} \in SUBSET Chv
      BY ToolkitNames DEF Owing
    <2> QED BY <1>1, <2>1, <2>2 DEF SimInit, NewCard, Card
  <1>5. past \in Past
    <2>1. /\ [i \in Chv |-> 0] \in [Chv -> 0 .. ChvAttempts]
          /\ [i \in Chv |-> 0] \in [Chv -> 0 .. UnblockAttempts]
      BY <1>2
    <2> QED BY <2>1 DEF SimInit, PastInit, Counts, Past
  <1>6. Counted(card, past)
    <2>1. \A i \in Chv : /\ card.attempts[i] = ChvAttempts
                         /\ card.unblocks[i] = UnblockAttempts /\ i \notin card.verified
                         /\ past.refused[i] = 0 /\ past.unblock_refused[i] = 0
      BY DEF SimInit, NewCard, PastInit, Counts
    <2> QED BY <2>1, SimCardAssumption DEF Counted
  <1>7. /\ phone \in Phone /\ phone.state = "off" /\ phone.tx_done
        /\ phone.chunks = <<>> /\ phone.got = <<>>
    BY <1>2, PlainTyped DEF SimInit, PhoneOff
  <1>8. Typed
    BY <1>1, <1>2, <1>3, <1>4, <1>5, <1>7 DEF Typed, SimInit
  <1> QED BY <1>3, <1>6, <1>7, <1>8
          DEF SimInv, Socket, Line, Transaction, Answer, Guarded,
              TxEmptyComesFirst, Live, On, InBody

LEMMA Untouched ==
    ASSUME past'.refused = past.refused
    PROVE  OnlyPukLifts(past, past', phone.command)
  BY SimCardAssumption DEF OnlyPukLifts

\* Every step keeps the invariant, and none but the PUK gives attempts back.
LEMMA StepInv ==
    ASSUME SimInv, [SimNext]_simVars
    PROVE  SimInv' /\ OnlyPukLifts(past, past', phone.command)
  <1>1. CASE UNCHANGED simVars
    <2>1. SimInv'
      BY <1>1 DEF simVars, SimInv, Typed, Socket, Line, Transaction, Answer, Guarded,
                  TxEmptyComesFirst, Live, On, InBody, Releases
    <2> QED BY <1>1, <2>1, Untouched DEF simVars
  <1>2. CASE RxReady
    BY <1>2, RxReadyStep, Untouched DEF RxReady
  <1>3. CASE ToolkitTimer
    BY <1>3, ToolkitTimerStep, Untouched DEF ToolkitTimer
  <1>4. CASE InsertCard
    BY <1>4, InsertStep, Untouched DEF InsertCard
  <1>5. CASE TakeFiq6
    BY <1>5, TakeFiq6Step, Untouched DEF TakeFiq6
  <1>6. CASE HandleFiq6
    <2>1. CASE "tx" \in phone.cause /\ phone.chunks # <<>>
      BY <1>6, <2>1, ChunkStep
    <2>2. CASE ~("tx" \in phone.cause /\ phone.chunks # <<>>)
      <3>1. past' = past
        BY <1>6, <2>2 DEF HandleFiq6
      <3> QED BY <1>6, <2>2, <3>1, NoteStep, ReadStep, Untouched
    <2> QED BY <2>1, <2>2
  <1>7. CASE TakeFiq7
    BY <1>7, TakeFiq7Step, Untouched DEF TakeFiq7
  <1>8. CASE SelectParameters
    BY <1>8, SelectStep
  <1>9. CASE SendBody
    BY <1>9, SendBodyStep
  <1>10. CASE Conclude
    BY <1>10, ConcludeStep, Untouched DEF Conclude
  <1>11. CASE Issue
    <2>1. \E k : past' = [past EXCEPT !.selections = k]
      BY <1>11 DEF Issue
    <2>2. past'.refused = past.refused
      BY <2>1 DEF SimInv, Typed, Past
    <2> QED BY <1>11, <2>2, IssueStep, Untouched
  <1>12. CASE Activate
    BY <1>12, ActivateStep, Untouched
  <1>13. CASE Gate \/ Ungate
    BY <1>13, ClockStep, Untouched
  <1>14. CASE RemoveCard \/ MachineReset
    <2>1. past'.refused = past.refused
      BY <1>14, PastCounts DEF RemoveCard, MachineReset, SimInv, Typed
    <2> QED BY <1>14, <2>1, RemoveStep, MachineResetStep, Untouched
  <1> QED BY <1>1, <1>2, <1>3, <1>4, <1>5, <1>6, <1>7, <1>8, <1>9, <1>10, <1>11,
             <1>12, <1>13, <1>14 DEF SimNext, Interrupts, Task, Faults

\* What the card opened was earned, whatever happened since.
LEMMA OpenWasEarned ==
    ASSUME SimInv, Authorized(card)
    PROVE  FileIsOpen
  <1>1. 1 \in Chv /\ card.attempts[1] \in 0 .. ChvAttempts
    BY DEF SimInv, Typed, Card, Chv
  <1>2. past.refused[1] = ChvAttempts - card.attempts[1]
        /\ (1 \in card.verified => 1 \in past.earned)
    BY <1>1 DEF SimInv, Guarded, Counted
  <1>3. card.attempts[1] # 0 /\ (card.enabled => 1 \in card.verified)
    BY DEF Authorized
  <1>4. past.refused[1] < ChvAttempts
    BY <1>1, <1>2, <1>3, SimCardAssumption
  <1> QED BY <1>2, <1>3, <1>4 DEF FileIsOpen

LEMMA SimInductive == SimSpec => []SimInv
  <1>1. SimInv /\ [SimNext]_simVars => SimInv'
    BY StepInv
  <1> QED BY InitInv, <1>1, PTL DEF SimSpec

\* The registers, the receive queue and its length, the CHVs with their
\* counters and the toolkit's command have their types whatever the handset
\* sends, however its card and its clock are handled, and a character is
\* announced only while there is one.
THEOREM SimTypeCorrect == SimSpec => []SimTypeOK
  <1>1. SimInv => SimTypeOK
    <2> SUFFICES ASSUME SimInv PROVE SimTypeOK
      OBVIOUS
    <2>1. simi \in Simi /\ card \in Card
      BY DEF SimInv, Typed
    <2>2. {card.pending, card.fcp} \subseteq {NothingOwed} \cup 0 .. Turns - 1
      BY <2>1 DEF Card, Owing, Turn
    <2>3. card.attempts \in [Chv -> 0 .. ChvAttempts] /\ card.chv \in [Chv -> Pins]
          /\ card.unblocks \in [Chv -> 0 .. UnblockAttempts]
          /\ card.verified \subseteq Chv /\ card.proactive \in Proactive
      BY <2>1 DEF Card
    <2>4. simi \in [present : BOOLEAN, clock : BOOLEAN, active : BOOLEAN,
                    rx : Seq([turn : 0 .. Turns - 1, owed : 0 .. Turns - 1,
                              what : Statuses \cup {"ack", "data", "atr", "pts"},
                              of : Proactive]),
                    ready : BOOLEAN, iir : SUBSET Causes, tx_pending : BOOLEAN,
                    timer : BOOLEAN]
      BY <2>1 DEF Simi, SimByte, Turn, What
    <2> QED BY <2>2, <2>3, <2>4 DEF SimTypeOK, SimInv, Typed
  <1> QED BY SimInductive, <1>1, PTL

\* The handset never has a character of an answer before it knows that its own
\* chunk left the transmitter, and what it reads was said to the transaction it
\* is in: a removal, a reset, an activation or a command in between leaves
\* nothing of an earlier one, in the queue or in what GET RESPONSE brings.
THEOREM AnswersCorrect == SimSpec => []AnswersInTurn
  <1>1. SimInv => AnswersInTurn
    BY DEF SimInv, AnswersInTurn, AnswersOwnCommand, Answer, On, Fits
  <1> QED BY SimInductive, <1>1, PTL

\* No file is opened before CHV1 was presented in this activation, unless it is
\* disabled, nor once it was refused as often as the card allows, although the
\* card is pulled out and the machine reset meanwhile; and a count of refusals
\* that is full goes back to none only for the PUK, while that is not refused
\* too often itself.
THEOREM SecretsGuarded == SimSpec => SecretsGuardFile
  <1>1. SimInv => (phone.state \in {"header", "body"} =>
                     \A n \in DOMAIN simi.rx : Releases(simi.rx[n]) => FileIsOpen)
    BY OpenWasEarned DEF SimInv, Guarded
  <1>2. SimInv /\ [SimNext]_simVars =>
          [\A i \in Chv :
             past.refused[i] = ChvAttempts /\ past'.refused[i] = 0 =>
               /\ phone.command.ins = "unblock" /\ phone.command.secret = Puk
               /\ past.unblock_refused[i] < UnblockAttempts]_past
    BY StepInv DEF OnlyPukLifts
  <1> QED BY SimInductive, <1>1, <1>2, PTL DEF SimSpec, SecretsGuardFile
==============================================================================
