-------------------------- MODULE SimToolkitProofs --------------------------
(***************************************************************************)
(* A theorem about the SIM toolkit: what the card announces, the handset   *)
(* can fetch.  InStep is the inductive invariant beside SimInv; it says    *)
(* what the handset may think the card waits for, wherever an answer is on *)
(* its way between the two, and when the toolkit's timer may run.          *)
(***************************************************************************)
EXTENDS SimTransportProofs

------------------------------------------------------------------------------
(* The toolkit *)

ToolkitIns == {"profile", "fetch", "terminal_response", "envelope"}

\* The commands of the toolkit are the handset's own, and a menu that refreshes
\* has no other item and is used once.
ToolkitOnly ==
    /\ \A n \in DOMAIN Selection : Selection[n] # "none"
    /\ \A n \in DOMAIN Selection : Selection[n] = "refresh" =>
         Selection = <<"refresh">> /\ \A s \in Scenarios : s.selections <= 1
    /\ \A s \in Scenarios : \A m \in s.commands : m.ins \notin ToolkitIns

Doing(p, state, ins) == p.state = state /\ p.command.ins = ins

\* The card, whoever talks to it.
CardInStep ==
    /\ ~(card.ready /\ card.fetched)
    /\ card.ready \/ card.fetched => card.proactive # "none"
    /\ card.profiled => HasToolkit
    /\ card.proactive = "refresh" => past.selections >= scenario.selections

\* What the handset sends of the toolkit, whether the card hears it or not.
Sending ==
    /\ phone.state \in {"off", "atr", "pts"} => phone.command.ins = "status"
    /\ Doing(phone, "header", "envelope") => past.selections > 0

\* What was announced can be fetched, what was fetched is what the card waits to
\* be told of, and a handset that has to send its profile has nothing else to do.
Agree(c, p) ==
    /\ p.fetch # "none" /\ ~Doing(p, "header", "fetch") =>
         c.ready /\ c.profiled /\ c.proactive = p.fetch
    /\ Doing(p, "header", "fetch") =>
         c.fetched /\ c.proactive = p.command.of /\ p.fetch = p.command.of
         /\ p.fetch # "none"
    /\ p.open # "none" /\ ~Doing(p, "body", "terminal_response") =>
         c.fetched /\ c.proactive = p.open
    /\ Doing(p, "header", "terminal_response") =>
         c.fetched /\ c.proactive = p.command.of
    /\ p.state \in {"header", "body"} /\ p.command.ins = "terminal_response" => p.profiled
    /\ p.state \in {"header", "body"} /\ p.command.ins = "profile" => ~p.profiled
    /\ ~p.profiled =>
         /\ p.fetch = "none"
         /\ \/ p.open = "refresh"
            \/ p.open = "none" /\ ~p.menu
               /\ (~c.profiled \/ Doing(p, "body", "profile"))

\* The toolkit timer runs only while nothing else can become ready.
Timed(c, p, left) ==
    c.timer =>
      /\ ~c.ready /\ ~c.fetched /\ ~(p.menu /\ left)
      /\ ~Doing(p, "header", "envelope")
      /\ Doing(p, "body", "terminal_response") => p.command.of = "refresh"

\* A status that announces a command announces the one that is ready.
Announces(byte, c, p) ==
    /\ byte.what = "proactive" =>
         /\ c.ready /\ c.profiled /\ c.proactive = byte.of
         /\ p.command.ins \notin {"fetch", "profile"}
    /\ p.command.ins = "fetch" => byte.what # "refused"

Left == past.selections < scenario.selections
InStep ==
    /\ CardInStep /\ Sending
    /\ Live =>
         /\ Agree(card, phone) /\ Timed(card, phone, Left)
         /\ \A n \in DOMAIN simi.rx : Announces(simi.rx[n], card, phone)
         /\ \A n \in DOMAIN phone.got : Announces(phone.got[n], card, phone)

\* Where a REFRESH comes from and what follows it.
LEMMA RefreshAlone ==
    ASSUME ToolkitOnly
    PROVE  /\ Follows("refresh") = "none" /\ "text" # "refresh"
           /\ \A x : Follows(x) # "refresh"
           /\ Selection # <<>> =>
                /\ Head(Selection) # "none"
                /\ Head(Selection) = "refresh" =>
                     \A s \in Scenarios : s.selections <= 1
  <1>1. Selection \in Seq(STRING) /\ DOMAIN Selection = 1 .. Len(Selection)
        /\ Len(Selection) \in Nat
    BY SimCardAssumption
  <1>2. /\ DOMAIN Chain = 1 .. Len(Chain) /\ Len(Chain) \in Nat
        /\ \A n \in DOMAIN Chain : Chain[n] # "refresh"
    <2>1. PICK n \in 0 .. 4 : Chain = SubSeq(<<"text", "inkey", "input", "menu">>, 1, n)
      BY SimCardAssumption
    <2>2. CASE n = 0
      BY <2>1, <2>2
    <2>3. CASE n # 0
      <3>1. \A k \in 1 .. 4 : <<"text", "inkey", "input", "menu">>[k] # "refresh"
        OBVIOUS
      <3>2. /\ DOMAIN Chain = 1 .. n /\ Len(Chain) = n
            /\ \A k \in 1 .. n : Chain[k] = <<"text", "inkey", "input", "menu">>[k]
        BY <2>1, <2>3
      <3> QED BY <3>1, <3>2
    <2> QED BY <2>2, <2>3
  <1>3. ASSUME NEW n \in DOMAIN Selection, Selection[n] = "refresh"
        PROVE  /\ Len(Selection) = 1 /\ \A s \in Scenarios : s.selections <= 1
    <2>1. Selection = <<"refresh">> /\ \A s \in Scenarios : s.selections <= 1
      BY <1>3 DEF ToolkitOnly
    <2> QED BY <2>1
  <1>4. ASSUME NEW x PROVE Successor(Chain, x) # "refresh"
    <2>1. CASE \E n \in 1 .. Len(Chain) - 1 : Chain[n] = x
      <3> DEFINE k == CHOOSE n \in 1 .. Len(Chain) - 1 : Chain[n] = x
      <3>1. k \in 1 .. Len(Chain) - 1
        BY <2>1
      <3>2. 1 + k \in DOMAIN Chain
        BY <1>2, <3>1
      <3> QED BY <1>2, <2>1, <3>2 DEF Successor
    <2>2. CASE ~ \E n \in 1 .. Len(Chain) - 1 : Chain[n] = x
      BY <2>2 DEF Successor
    <2> QED BY <2>1, <2>2
  <1>5. ASSUME NEW x PROVE Successor(Selection, x) # "refresh"
    <2>1. CASE \E n \in 1 .. Len(Selection) - 1 : Selection[n] = x
      <3> DEFINE k == CHOOSE n \in 1 .. Len(Selection) - 1 : Selection[n] = x
      <3>1. k \in 1 .. Len(Selection) - 1
        BY <2>1
      <3>2. 1 + k \in DOMAIN Selection /\ Len(Selection) # 1
        BY <1>1, <3>1
      <3> QED BY <1>3, <2>1, <3>2 DEF Successor
    <2>2. CASE ~ \E n \in 1 .. Len(Selection) - 1 : Selection[n] = x
      BY <2>2 DEF Successor
    <2> QED BY <2>1, <2>2
  <1>6. Successor(Chain, "refresh") = "none"
    BY <1>2 DEF Successor
  <1>7. Successor(Selection, "refresh") = "none"
    <2>1. \A n \in 1 .. Len(Selection) - 1 : n \in DOMAIN Selection /\ Len(Selection) # 1
      BY <1>1
    <2> QED BY <1>3, <2>1 DEF Successor
  <1>8. Selection # <<>> => 1 \in DOMAIN Selection /\ Head(Selection) = Selection[1]
    BY <1>1
  <1> QED BY <1>3, <1>4, <1>5, <1>6, <1>7, <1>8 DEF Follows, ToolkitOnly

------------------------------------------------------------------------------
(* The card's part *)

SameToolkit(c, d) ==
    /\ d.profiled = c.profiled /\ d.proactive = c.proactive /\ d.ready = c.ready
    /\ d.fetched = c.fetched /\ d.timer = c.timer

\* A status, of a card as it is then.
Plainly == Statuses \ {"proactive"}
Announced(byte, c) ==
    byte.what = "proactive" =>
      /\ c.ready /\ c.profiled /\ c.proactive = byte.of
      /\ c.ins \notin {"fetch", "profile"}

LEMMA RepliesAnnounced ==
    ASSUME NEW c, NEW turn, NEW sw \in Plainly
    PROVE  /\ Replies(c, turn, sw).card = c
           /\ \E b : Replies(c, turn, sw).bytes = <<b>> /\ Announced(b, c)
  <1>1. Announced(Status(c, turn, sw), c)
    BY DEF Status, Byte, Announced, Advertises, Plainly
  <1> QED BY <1>1 DEF Replies, Says

\* The CHV commands do not touch the toolkit's session.
LEMMA ChvToolkit ==
    ASSUME NEW c \in Card, NEW m \in SimCommand, NEW turn \in Turn
    PROVE  \E d : \E sw \in Plainly :
             /\ ProcessChv(c, m, turn) = Replies(d, turn, sw)
             /\ SameToolkit(c, d) /\ d.ins = c.ins
  <1> DEFINE P(r) == \E d : \E sw \in Plainly :
                       r = Replies(d, turn, sw) /\ SameToolkit(c, d) /\ d.ins = c.ins
  <1>1. {"ok", "denied", "blocked", "unneeded", "refused"} \subseteq Plainly
    BY DEF Plainly, Statuses
  <1>2. ASSUME NEW d, SameToolkit(c, d), d.ins = c.ins,
               NEW sw \in {"ok", "denied", "blocked", "unneeded", "refused"}
        PROVE  P(Replies(d, turn, sw))
    BY <1>1, <1>2
  <1>3. SameToolkit(c, c)
    BY DEF SameToolkit
  <1> HIDE DEF P
  <1>4. ASSUME NEW i PROVE P(ChvFailure(c, i, turn))
    <2> DEFINE left == Less(c.attempts[i])
               failed == [c EXCEPT !.attempts[i] = left, !.verified = @ \ {i}]
    <2>1. SameToolkit(c, failed) /\ failed.ins = c.ins
      BY DEF SameToolkit, Card
    <2>2. ChvFailure(c, i, turn) =
            Replies(failed, turn, IF left = 0 THEN "blocked" ELSE "denied")
      BY DEF ChvFailure
    <2> HIDE DEF failed, left
    <2> QED BY <1>2, <2>1, <2>2
  <1>5. ASSUME NEW i PROVE P(UnblockFailure(c, i, turn))
    <2> DEFINE left == Less(c.unblocks[i])
               failed == [c EXCEPT !.unblocks[i] = left]
    <2>1. SameToolkit(c, failed) /\ failed.ins = c.ins
      BY DEF SameToolkit, Card
    <2>2. UnblockFailure(c, i, turn) =
            Replies(failed, turn, IF left = 0 THEN "blocked" ELSE "denied")
      BY DEF UnblockFailure
    <2> HIDE DEF failed, left
    <2> QED BY <1>2, <2>1, <2>2
  <1>6. P(Unblock(c, m, turn))
    <2> DEFINE i == m.chv
               opened == [c EXCEPT !.chv[i] = m.new, !.unblocks[i] = UnblockAttempts,
                                   !.attempts[i] = ChvAttempts, !.verified = @ \cup {i},
                                   !.enabled = @ \/ i = 1]
    <2>1. SameToolkit(c, opened) /\ opened.ins = c.ins
      BY DEF SameToolkit, Card
    <2>2. Unblock(c, m, turn) \in {Replies(c, turn, "blocked"), UnblockFailure(c, i, turn),
                                   Replies(opened, turn, "ok")}
      BY DEF Unblock
    <2> HIDE DEF opened, i
    <2>3. P(Replies(c, turn, "blocked")) /\ P(UnblockFailure(c, i, turn))
          /\ P(Replies(opened, turn, "ok"))
      BY <1>2, <1>3, <1>5, <2>1
    <2> QED BY <2>2, <2>3
  <1>7. P(VerifyOrChange(c, m, turn))
    <2> DEFINE i == m.chv
               passed == [c EXCEPT !.chv[i] = IF c.ins = "change" THEN m.new ELSE @,
                                   !.attempts[i] = ChvAttempts, !.verified = @ \cup {i}]
    <2>1. SameToolkit(c, passed) /\ passed.ins = c.ins
      BY DEF SameToolkit, Card
    <2>2. VerifyOrChange(c, m, turn) \in
            {Replies(c, turn, "unneeded"), ChvFailure(c, i, turn),
             Replies(passed, turn, "ok")}
      BY DEF VerifyOrChange
    <2> HIDE DEF passed, i
    <2>3. P(Replies(c, turn, "unneeded")) /\ P(ChvFailure(c, i, turn))
          /\ P(Replies(passed, turn, "ok"))
      BY <1>2, <1>3, <1>4, <2>1
    <2> QED BY <2>2, <2>3
  <1>8. P(EnableOrDisable(c, m, turn))
    <2> DEFINE enabling == c.ins = "enable"
               passed == [c EXCEPT !.attempts[1] = ChvAttempts, !.enabled = enabling,
                            !.verified = IF enabling THEN @ \ {1} ELSE @ \cup {1}]
    <2>1. SameToolkit(c, passed) /\ passed.ins = c.ins
      BY DEF SameToolkit, Card
    <2>2. EnableOrDisable(c, m, turn) \in
            {Replies(c, turn, "refused"), Replies(c, turn, "unneeded"),
             ChvFailure(c, 1, turn), Replies(passed, turn, "ok")}
      BY DEF EnableOrDisable
    <2> HIDE DEF passed
    <2>3. P(Replies(c, turn, "refused")) /\ P(Replies(c, turn, "unneeded"))
          /\ P(ChvFailure(c, 1, turn)) /\ P(Replies(passed, turn, "ok"))
      BY <1>2, <1>3, <1>4, <2>1
    <2> QED BY <2>2, <2>3
  <1>9. P(Replies(c, turn, "blocked"))
    BY <1>2, <1>3
  <1>10. P(ProcessChv(c, m, turn))
    BY <1>6, <1>7, <1>8, <1>9 DEF ProcessChv
  <1> QED BY <1>10 DEF P

\* What a body does to the toolkit's session.
ProfileTaken(c, d) ==
    \/ ~HasToolkit /\ SameToolkit(c, d)
    \/ /\ HasToolkit /\ c.fetched /\ c.proactive = "refresh" /\ d.profiled
       /\ d.proactive = c.proactive /\ d.ready = c.ready
       /\ d.fetched = c.fetched /\ d.timer = c.timer
    \/ /\ HasToolkit /\ ~(c.fetched /\ c.proactive = "refresh") /\ d.profiled
       /\ d.proactive = "text" /\ ~d.ready /\ ~d.fetched
ResponseTaken(c, d, m) ==
    \/ SameToolkit(c, d)
    \/ /\ m.of = c.proactive /\ d.profiled = c.profiled
       /\ d.proactive = Follows(c.proactive)
       /\ d.ready = (d.proactive # "none") /\ ~d.fetched
       /\ d.timer = (c.timer \/ c.proactive = "refresh")
EnvelopeTaken(c, d) ==
    \/ SameToolkit(c, d)
    \/ /\ c.proactive = "none" /\ Selection # <<>> /\ d.proactive = Head(Selection)
       /\ d.ready /\ d.profiled = c.profiled /\ d.fetched = c.fetched
       /\ d.timer = c.timer /\ HasToolkit
Taken(c, d, m) ==
    CASE m.ins = "profile" -> ProfileTaken(c, d)
      [] m.ins = "terminal_response" -> ResponseTaken(c, d, m)
      [] m.ins = "envelope" -> EnvelopeTaken(c, d)
      [] OTHER -> SameToolkit(c, d)

LEMMA BodyToolkit ==
    ASSUME NEW c \in Card, NEW m \in SimCommand, NEW turn \in Turn, c.ins = m.ins,
           m.ins \in WithBody
    PROVE  LET r == FinishBody(c, m, turn) IN
           /\ Taken(c, r.card, m)
           /\ \E b : r.bytes = <<b>> /\ Announced(b, r.card)
           /\ r.card.ins = m.ins
  <1> DEFINE idle == [c EXCEPT !.receiving = FALSE]
             r == FinishBody(c, m, turn)
             P(t) == \E d : \E sw \in Plainly :
                       t = Replies(d, turn, sw) /\ Taken(c, d, m) /\ d.ins = m.ins
  <1>1. idle \in Card /\ SameToolkit(c, idle) /\ idle.ins = m.ins
    BY DEF Card, SameToolkit
  <1>2. {"ok", "denied", "blocked", "unneeded", "refused", "result"} \subseteq Plainly
    BY DEF Plainly, Statuses
  <1>3. ASSUME NEW d, Taken(c, d, m), d.ins = m.ins,
               NEW sw \in {"ok", "denied", "blocked", "unneeded", "refused", "result"}
        PROVE  P(Replies(d, turn, sw))
    BY <1>2, <1>3
  <1> HIDE DEF P, idle
  <1>4. m.ins # "profile" \/ ~HasToolkit => Taken(c, idle, m)
    BY <1>1 DEF Taken, ResponseTaken, EnvelopeTaken, ProfileTaken
  <1>5. P(r)
    <2>1. CASE m.ins \in ChvCommands
      <3>1. r = ProcessChv(idle, m, turn)
        BY <2>1 DEF FinishBody, ChvCommands, idle
      <3>2. PICK d : \E sw \in Plainly :
              /\ r = Replies(d, turn, sw) /\ SameToolkit(idle, d) /\ d.ins = idle.ins
        BY <1>1, <3>1, ChvToolkit
      <3>3. SameToolkit(c, d)
        BY <1>1, <3>2 DEF SameToolkit
      <3>4. Taken(c, d, m)
        BY <2>1, <3>3 DEF Taken, ChvCommands
      <3> QED BY <1>1, <3>2, <3>4 DEF P
    <2>2. CASE m.ins = "profile"
      <3> DEFINE profiled == [idle EXCEPT !.profiled = TRUE]
                 begun == [profiled EXCEPT !.ready = FALSE, !.fetched = FALSE,
                                           !.proactive = "text", !.timer = TRUE]
      <3>1. r = AcceptTerminalProfile(idle, turn)
        BY <2>2 DEF FinishBody, ChvCommands, idle
      <3>2. /\ profiled.ins = m.ins /\ begun.ins = m.ins
            /\ profiled.profiled /\ profiled.proactive = idle.proactive
            /\ profiled.ready = idle.ready /\ profiled.fetched = idle.fetched
            /\ profiled.timer = idle.timer
            /\ begun.profiled /\ begun.proactive = "text" /\ ~begun.ready /\ ~begun.fetched
        BY <1>1 DEF Card
      <3>3. IF ~HasToolkit THEN r = Replies(idle, turn, "refused")
            ELSE IF idle.fetched /\ idle.proactive = "refresh"
            THEN r = Replies(profiled, turn, "ok")
            ELSE r = Replies(begun, turn, "ok")
        BY <3>1 DEF AcceptTerminalProfile
      <3> HIDE DEF profiled, begun, r
      <3>4. CASE ~HasToolkit
        BY <1>1, <1>3, <1>4, <3>3, <3>4
      <3>5. CASE HasToolkit /\ idle.fetched /\ idle.proactive = "refresh"
        <4>1. ProfileTaken(c, profiled)
          BY <1>1, <3>2, <3>5 DEF ProfileTaken, SameToolkit
        <4>2. Taken(c, profiled, m)
          BY <2>2, <4>1 DEF Taken
        <4> QED BY <1>3, <3>2, <3>3, <3>5, <4>2
      <3>6. CASE HasToolkit /\ ~(idle.fetched /\ idle.proactive = "refresh")
        <4>1. ProfileTaken(c, begun)
          BY <1>1, <3>2, <3>6 DEF ProfileTaken, SameToolkit
        <4>2. Taken(c, begun, m)
          BY <2>2, <4>1 DEF Taken
        <4> QED BY <1>3, <3>2, <3>3, <3>6, <4>2
      <3> QED BY <3>4, <3>5, <3>6
    <2>3. CASE m.ins = "terminal_response"
      <3> DEFINE next == Follows(idle.proactive)
                 closed == [idle EXCEPT !.fetched = FALSE, !.proactive = next,
                                        !.ready = next # "none",
                                        !.timer = @ \/ idle.proactive = "refresh"]
      <3>1. r = AcceptTerminalResponse(idle, m, turn)
        BY <2>3 DEF FinishBody, ChvCommands, idle
      <3>2. /\ closed.ins = m.ins /\ ~closed.fetched /\ closed.proactive = next
            /\ closed.ready = (next # "none") /\ closed.profiled = idle.profiled
            /\ closed.timer = (idle.timer \/ idle.proactive = "refresh")
        <4> HIDE DEF next
        <4> QED BY <1>1 DEF Card
      <3>3. \/ r = Replies(idle, turn, "refused")
            \/ r = Replies(closed, turn, "ok") /\ m.of = idle.proactive
        BY <3>1 DEF AcceptTerminalResponse
      <3> HIDE DEF closed, r
      <3>4. m.of = idle.proactive => ResponseTaken(c, closed, m)
        BY <1>1, <3>2 DEF ResponseTaken, SameToolkit
      <3>5. m.of = idle.proactive => Taken(c, closed, m)
        BY <2>3, <3>4 DEF Taken
      <3> QED BY <1>1, <1>3, <1>4, <2>3, <3>2, <3>3, <3>5
    <2>4. CASE m.ins = "envelope"
      <3> DEFINE chosen == [idle EXCEPT !.proactive = Head(Selection), !.ready = TRUE]
      <3>1. r = AcceptEnvelope(idle, turn)
        BY <2>4 DEF FinishBody, ChvCommands, idle
      <3>2. /\ chosen.ins = m.ins /\ chosen.ready /\ chosen.proactive = Head(Selection)
            /\ chosen.profiled = idle.profiled /\ chosen.fetched = idle.fetched
            /\ chosen.timer = idle.timer
        BY <1>1 DEF Card
      <3>3. \/ r = Replies(idle, turn, "refused") \/ r = Replies(idle, turn, "ok")
            \/ /\ r = Replies(chosen, turn, "ok") /\ idle.proactive = "none"
               /\ Selection # <<>>
        BY <3>1 DEF AcceptEnvelope
      <3>4. Selection # <<>> => HasToolkit
        <4>1. Len(<<>>) # 4
          OBVIOUS
        <4> QED BY <4>1, SimCardAssumption DEF HasToolkit
      <3> HIDE DEF chosen, r
      <3>5. idle.proactive = "none" /\ Selection # <<>> => EnvelopeTaken(c, chosen)
        BY <1>1, <3>2, <3>4 DEF EnvelopeTaken, SameToolkit
      <3>6. idle.proactive = "none" /\ Selection # <<>> => Taken(c, chosen, m)
        BY <2>4, <3>5 DEF Taken
      <3> QED BY <1>1, <1>3, <1>4, <2>4, <3>2, <3>3, <3>6
    <2>5. CASE m.ins \in {"select", "authenticate", "update"}
      <3> DEFINE selected == [idle EXCEPT !.fcp = turn]
                 run == [idle EXCEPT !.pending = turn]
      <3>1. r \in {Replies(selected, turn, "result"), Replies(run, turn, "result"),
                   Replies(idle, turn, "denied"), Replies(idle, turn, "ok")}
        BY <2>5 DEF FinishBody, ChvCommands, idle
      <3>2. /\ SameToolkit(c, selected) /\ selected.ins = m.ins
            /\ SameToolkit(c, run) /\ run.ins = m.ins
        BY <1>1 DEF Card, SameToolkit
      <3> HIDE DEF selected, run, r
      <3>3. Taken(c, selected, m) /\ Taken(c, run, m)
        BY <2>5, <3>2 DEF Taken
      <3>4. P(Replies(selected, turn, "result")) /\ P(Replies(run, turn, "result"))
            /\ P(Replies(idle, turn, "denied")) /\ P(Replies(idle, turn, "ok"))
        BY <2>5, <1>1, <1>3, <1>4, <3>2, <3>3
      <3> QED BY <3>1, <3>4
    <2> QED BY <2>1, <2>2, <2>3, <2>4, <2>5 DEF WithBody
  <1>6. PICK d : \E sw \in Plainly :
          r = Replies(d, turn, sw) /\ Taken(c, d, m) /\ d.ins = m.ins
    BY <1>5 DEF P
  <1> HIDE DEF r
  <1>7. r.card = d /\ \E b : r.bytes = <<b>> /\ Announced(b, d)
    BY <1>6, RepliesAnnounced
  <1> QED BY <1>6, <1>7 DEF r

\* A header leaves the toolkit's session alone, but for FETCH.
LEMMA OutgoingAnnounced ==
    ASSUME NEW d, NEW turn, NEW owed, NEW of, d.ins # "profile",
           d.ins = "fetch" => ~d.ready
    PROVE  LET r == Outgoing(d, turn, owed, of) IN
           /\ r.card = d
           /\ \A n \in DOMAIN r.bytes :
                Announced(r.bytes[n], d) /\ r.bytes[n].what # "refused"
  <1> DEFINE a == Byte(turn, turn, "ack", "none")
             b == Byte(turn, owed, "data", of)
             s == IF Advertises(d) THEN Byte(turn, turn, "proactive", d.proactive)
                                   ELSE Byte(turn, turn, "ok", "none")
  <1>1. Announced(a, d) /\ Announced(b, d) /\ Announced(s, d)
    BY DEF Announced, Byte, Advertises
  <1>2. a.what # "refused" /\ b.what # "refused" /\ s.what # "refused"
    BY DEF Byte
  <1>3. Outgoing(d, turn, owed, of).card = d
        /\ Outgoing(d, turn, owed, of).bytes = <<a, b, s>>
    BY DEF Outgoing, Says
  <1> HIDE DEF a, b, s
  <1>4. \A n \in DOMAIN <<a, b, s>> :
          <<a, b, s>>[n] = a \/ <<a, b, s>>[n] = b \/ <<a, b, s>>[n] = s
    OBVIOUS
  <1> QED BY <1>1, <1>2, <1>3, <1>4

Fetched(c, d, m) ==
    /\ c.ready /\ d.profiled = c.profiled /\ d.proactive = c.proactive
    /\ ~d.ready /\ d.fetched /\ d.timer = c.timer

LEMMA HeaderToolkit ==
    ASSUME NEW c \in Card, NEW m \in SimCommand, NEW turn \in Turn,
           m.ins = "fetch" =>
             HasToolkit /\ c.profiled /\ c.ready /\ m.of # "none" /\ m.of = c.proactive
    PROVE  LET r == FinishHeader(c, m, turn) IN
           /\ IF m.ins = "fetch" THEN Fetched(c, r.card, m) ELSE SameToolkit(c, r.card)
           /\ \A n \in DOMAIN r.bytes :
                /\ Announced(r.bytes[n], r.card)
                /\ m.ins = "fetch" => r.bytes[n].what # "refused"
           /\ r.card.ins = m.ins
  <1> DEFINE taken == TakeHeader(c, m.ins)
             r == FinishHeader(c, m, turn)
  <1>1. m.ins \in Instructions
    BY DEF SimCommand
  <1>2. taken \in Card /\ SameToolkit(c, taken) /\ taken.ins = m.ins
    BY <1>1, Turns2 DEF TakeHeader, Card, SameToolkit, Owing
  <1> HIDE DEF taken
  <1>3. ASSUME NEW d, SameToolkit(c, d), d.ins = m.ins, NEW sw \in Plainly,
               r = Replies(d, turn, sw), m.ins # "fetch"
        PROVE  /\ SameToolkit(c, r.card) /\ r.card.ins = m.ins
               /\ \A n \in DOMAIN r.bytes : Announced(r.bytes[n], r.card)
    <2>1. r.card = d /\ \E b : r.bytes = <<b>> /\ Announced(b, d)
      BY <1>3, RepliesAnnounced
    <2>2. \A b : \A n \in DOMAIN <<b>> : <<b>>[n] = b
      OBVIOUS
    <2> HIDE DEF r
    <2> QED BY <1>3, <2>1, <2>2
  <1>4. ASSUME NEW d, SameToolkit(c, d), d.ins = m.ins, NEW owed, NEW of,
               r = Outgoing(d, turn, owed, of), m.ins \notin {"fetch", "profile"}
        PROVE  /\ SameToolkit(c, r.card) /\ r.card.ins = m.ins
               /\ \A n \in DOMAIN r.bytes : Announced(r.bytes[n], r.card)
    <2>1. /\ r.card = d
          /\ \A n \in DOMAIN r.bytes :
               Announced(r.bytes[n], d) /\ r.bytes[n].what # "refused"
      BY <1>4, OutgoingAnnounced
    <2> QED BY <1>4, <2>1
  <1>5. CASE m.ins \in WithBody
    <2> DEFINE waits == [taken EXCEPT !.receiving = TRUE]
               a == Byte(turn, turn, "ack", "none")
    <2>1. SameToolkit(c, waits) /\ waits.ins = m.ins
      BY <1>2 DEF Card, SameToolkit
    <2>2. r.card = waits /\ r.bytes = <<a>>
      BY <1>5 DEF FinishHeader, Says, taken
    <2>3. a.what = "ack"
      BY DEF Byte
    <2>4. \A n \in DOMAIN <<a>> : <<a>>[n] = a
      OBVIOUS
    <2>5. m.ins # "fetch"
      BY <1>5 DEF WithBody, ChvCommands
    <2> HIDE DEF waits, a, r
    <2>6. \A n \in DOMAIN r.bytes : Announced(r.bytes[n], r.card)
      BY <2>2, <2>3, <2>4 DEF Announced
    <2> QED BY <2>1, <2>2, <2>5, <2>6 DEF r
  <1>6. CASE m.ins = "fetch"
    <2> DEFINE fetched == [taken EXCEPT !.ready = FALSE, !.fetched = TRUE]
    <2>1. r = Fetch(taken, m, turn)
      BY <1>6 DEF FinishHeader, WithBody, ChvCommands, taken
    <2>2. r = Outgoing(fetched, turn, turn, taken.proactive)
      BY <1>2, <1>6, <2>1 DEF Fetch, SameToolkit
    <2>3. Fetched(c, fetched, m) /\ fetched.ins = m.ins /\ ~fetched.ready
      BY <1>2, <1>6 DEF Card, SameToolkit, Fetched
    <2> HIDE DEF fetched, r
    <2>4. /\ r.card = fetched
          /\ \A n \in DOMAIN r.bytes :
               Announced(r.bytes[n], fetched) /\ r.bytes[n].what # "refused"
      BY <1>6, <2>2, <2>3, OutgoingAnnounced
    <2> QED BY <1>6, <2>3, <2>4 DEF r
  <1>7. CASE m.ins = "get_response"
    <2> DEFINE answered == [taken EXCEPT !.pending = NothingOwed]
               described == [taken EXCEPT !.fcp = NothingOwed]
    <2>1. /\ SameToolkit(c, answered) /\ answered.ins = m.ins
          /\ SameToolkit(c, described) /\ described.ins = m.ins
      BY <1>2 DEF Card, SameToolkit
    <2>2. r = GetResponse(taken, turn)
      BY <1>7 DEF FinishHeader, WithBody, ChvCommands, taken
    <2>3. \/ r = Outgoing(answered, turn, taken.pending, "none")
          \/ r = Outgoing(described, turn, taken.fcp, "none")
          \/ r = Replies(taken, turn, "refused")
      BY <2>2 DEF GetResponse
    <2>4. "refused" \in Plainly
      BY DEF Plainly, Statuses
    <2> HIDE DEF answered, described, r
    <2> QED BY <1>2, <1>3, <1>4, <1>7, <2>1, <2>3, <2>4 DEF r
  <1>8. CASE m.ins \in {"status", "read"}
    <2>1. r = Outgoing(taken, turn, turn, "none") \/ r = Replies(taken, turn, "denied")
      BY <1>8 DEF FinishHeader, WithBody, ChvCommands, taken
    <2>2. "denied" \in Plainly
      BY DEF Plainly, Statuses
    <2> HIDE DEF r
    <2> QED BY <1>2, <1>3, <1>4, <1>8, <2>1, <2>2 DEF r
  <1> QED BY <1>1, <1>5, <1>6, <1>7, <1>8 DEF Instructions

------------------------------------------------------------------------------
(* What the card hears *)

\* What the handset knows of the toolkit.
SameKnowledge(p, q) ==
    /\ q.fetch = p.fetch /\ q.open = p.open /\ q.menu = p.menu
    /\ q.profiled = p.profiled

LEMMA IssueHeard ==
    ASSUME SimInv, Issue
    PROVE  \E m \in scenario.commands \cup ToolkitCommands :
             LET r == FinishHeader(card, m, Later(phone.turn)) IN
             /\ m \in SimCommand /\ phone.state = "ready"
             /\ IF simi.present THEN card' = r.card /\ simi'.rx = r.bytes
                ELSE card' = card
             /\ simi'.present = simi.present /\ scenario' = scenario
             /\ past'.selections = IF m.ins = "envelope" THEN past.selections + 1
                                   ELSE past.selections
             /\ phone'.state = "header" /\ phone'.command = m /\ phone'.got = <<>>
             /\ SameKnowledge(phone, phone')
  <1> DEFINE turn == Later(phone.turn)
  <1>1. PICK m \in scenario.commands \cup ToolkitCommands :
          LET f == Flush(simi, card, Chunk("header", m, TRUE, turn))
          IN  /\ simi' = f.simi /\ card' = f.card
              /\ past' = [past EXCEPT !.selections =
                            IF m.ins = "envelope" THEN @ + 1 ELSE @]
              /\ phone' = [phone EXCEPT !.state = "header", !.command = m,
                             !.turn = turn, !.got = <<>>, !.tx_done = FALSE]
    BY DEF Issue
  <1> DEFINE chunk == Chunk("header", m, TRUE, turn)
             f == Flush(simi, card, chunk)
  <1>2. m \in SimCommand /\ phone.turn \in Turn /\ turn \in Turn
    BY CommandsTyped, Turns2 DEF SimInv, Typed, Phone
  <1>3. phone.state = "ready" /\ scenario' = scenario /\ simi.clock
    BY DEF Issue
  <1>4. /\ simi \in Simi /\ simi.active /\ simi.rx = <<>> /\ ~simi.ready
        /\ phone.chunks = <<>> /\ card \in Card /\ past \in Past /\ phone \in Phone
    BY <1>3 DEF SimInv, Typed, Socket, Transaction, InBody, On
  <1>5. simi.present => /\ Receive(card, chunk) = FinishHeader(card, m, turn)
                        /\ Receive(card, chunk).bytes \in Seq(SimByte)
                        /\ Len(Receive(card, chunk).bytes) <= 3
    <2> SUFFICES ASSUME simi.present
                 PROVE  /\ Receive(card, chunk) = FinishHeader(card, m, turn)
                        /\ Receive(card, chunk).bytes \in Seq(SimByte)
                        /\ Len(Receive(card, chunk).bytes) <= 3
      OBVIOUS
    <2>1. ~card.receiving /\ NothingOwed \in {card.pending, card.fcp}
          /\ {card.pending, card.fcp} \subseteq {NothingOwed, phone.turn}
      BY <1>3, <1>4 DEF SimInv, Transaction, InBody, Live, On
    <2>2. Receive(card, chunk) = FinishHeader(card, m, turn)
      BY <2>1 DEF Receive, Chunk
    <2> HIDE DEF turn, chunk
    <2>3. Headed(FinishHeader(card, m, turn), card, m, turn)
      BY <1>2, <1>4, <2>1, HeaderHeaded
    <2> QED BY <2>2, <2>3 DEF Headed
  <1> HIDE DEF chunk
  <1>6. /\ f.simi.present = simi.present
        /\ IF simi.present THEN f.card = Receive(card, chunk).card
                                /\ f.simi.rx = Receive(card, chunk).bytes
           ELSE f.card = card
    BY <1>3, <1>4, <1>5, Flushed
  <1>7. simi' = f.simi /\ card' = f.card
    BY <1>1 DEF f, chunk
  <1>8. /\ past'.selections = IF m.ins = "envelope" THEN past.selections + 1
                              ELSE past.selections
        /\ phone'.state = "header" /\ phone'.command = m /\ phone'.got = <<>>
        /\ SameKnowledge(phone, phone')
    BY <1>1, <1>4 DEF Past, Phone, SameKnowledge
  <1> HIDE DEF f
  <1> QED BY <1>2, <1>3, <1>5, <1>6, <1>7, <1>8 DEF turn

\* A body, or the part of one that was left.
BodyHeard(m) ==
    LET r == FinishBody(card, m, phone.turn) IN
    /\ m.ins \in WithBody
    /\ \/ phone.state = "header"
       \/ phone.state = "body" /\ m.ins = "update"
    /\ simi'.present = simi.present /\ scenario' = scenario
    /\ past'.selections = past.selections
    /\ phone'.state = "body" /\ phone'.command = m /\ phone'.got = <<>>
    /\ SameKnowledge(phone, phone')
    /\ simi.present => card.ins = m.ins
    /\ IF simi.present
       THEN \/ card' = r.card /\ simi'.rx = r.bytes
            \/ m.ins = "update" /\ card' = card /\ simi'.rx = <<>>
       ELSE card' = card

\* What is presented to the card is no count of selections.
LEMMA WitnessSelections ==
    ASSUME NEW p \in Past, NEW chunk, NEW bytes
    PROVE  Witness(p, chunk, bytes).selections = p.selections
  BY DEF Witness, Past

LEMMA BodyFlushHeard ==
    ASSUME Typed, Counted(card, past), phone.command.ins \in WithBody,
           simi.present => /\ card.receiving /\ card.ins = phone.command.ins
                           /\ card.pending = NothingOwed /\ card.fcp = NothingOwed,
           NEW s \in Simi, s.present = simi.present, s.clock, s.active, s.rx = <<>>,
           ~s.ready, NEW last \in BOOLEAN
    PROVE  LET m == phone.command
               f == Flush(s, card, Chunk("body", m, last, phone.turn))
               r == FinishBody(card, m, phone.turn)
           IN  /\ f.simi.present = s.present /\ ~f.simi.ready
               /\ IF s.present
                  THEN \/ last /\ f.card = r.card /\ f.simi.rx = r.bytes
                       \/ ~last /\ f.card = card /\ f.simi.rx = <<>>
                  ELSE f.card = card
  <1> DEFINE m == phone.command
             turn == phone.turn
             chunk == Chunk("body", m, last, turn)
             heard == Receive(card, chunk)
             r == FinishBody(card, m, turn)
  <1>1. m \in SimCommand /\ turn \in Turn /\ card \in Card /\ past \in Past
    BY DEF Typed, Phone
  <1>2. simi.present => heard = IF last THEN r ELSE Says(card, <<>>)
    BY DEF Receive, Chunk
  <1>3. simi.present => \E b \in SimByte :
                          /\ r.bytes = <<b>> /\ b.turn = turn /\ b.owed = turn
                          /\ b.what \in Statuses
                          /\ m.ins \in {"read", "update", "authenticate"}
                               /\ Opens(b.what) => Authorized(r.card)
    <2> HIDE DEF m, turn
    <2>1. m.ins \in WithBody /\ (simi.present => card.ins = m.ins)
      BY DEF m
    <2> QED BY <1>1, <2>1, BodyAnswered
  <1>4. Says(card, <<>>).card = card /\ Says(card, <<>>).bytes = <<>>
    BY DEF Says
  <1>5. simi.present => heard.bytes \in Seq(SimByte) /\ Len(heard.bytes) <= 3
    <2> HIDE DEF heard, r
    <2>1. <<>> \in Seq(SimByte) /\ Len(<<>>) <= 3
          /\ \A b \in SimByte : <<b>> \in Seq(SimByte) /\ Len(<<b>>) <= 3
      OBVIOUS
    <2> QED BY <1>2, <1>3, <1>4, <2>1
  <1> DEFINE f == Flush(s, card, chunk)
  <1>6. /\ f.simi.present = s.present /\ ~f.simi.ready /\ f.simi.rx = f.bytes
        /\ IF s.present THEN f.card = heard.card /\ f.bytes = heard.bytes
           ELSE f.card = card /\ f.bytes = <<>>
    <2> HIDE DEF chunk
    <2> QED BY <1>5, Flushed
  <1>7. IF s.present
        THEN \/ last /\ f.card = r.card /\ f.simi.rx = r.bytes
             \/ ~last /\ f.card = card /\ f.simi.rx = <<>>
        ELSE f.card = card
    <2> HIDE DEF f, heard, r
    <2> QED BY <1>2, <1>4, <1>6
  <1> QED BY <1>6, <1>7

LEMMA SendBodyHeard ==
    ASSUME SimInv, SendBody
    PROVE  BodyHeard(phone.command)
  <1> DEFINE m == phone.command
             last == m.ins # "update"
             chunk == Chunk("body", m, last, phone.turn)
             rest == IF last THEN <<>> ELSE <<Chunk("body", m, TRUE, phone.turn)>>
             f == Flush(simi, card, chunk)
             w == Witness(past, chunk, f.bytes)
             r == FinishBody(card, m, phone.turn)
  <1>1. Head(Body(m, phone.turn)) = chunk /\ Tail(Body(m, phone.turn)) = rest
    <2>1. \A a, b : /\ Head(<<a>>) = a /\ Tail(<<a>>) = <<>>
                    /\ Head(<<a, b>>) = a /\ Tail(<<a, b>>) = <<b>>
      OBVIOUS
    <2>2. CASE last
      BY <2>1, <2>2 DEF Body
    <2>3. CASE ~last
      BY <2>1, <2>3 DEF Body
    <2> QED BY <2>2, <2>3
  <1>2. /\ simi.clock /\ phone.state = "header" /\ Answered
        /\ Last(phone.got).what = "ack"
        /\ scenario' = scenario /\ simi' = f.simi /\ card' = f.card /\ past' = w
        /\ phone' = [[phone EXCEPT !.state = "body", !.chunks = rest]
                       EXCEPT !.got = <<>>, !.tx_done = FALSE]
    BY <1>1 DEF SendBody, Sends
  <1>3. m.ins \in WithBody
    BY <1>2 DEF Answered, Statuses
  <1>4. /\ simi \in Simi /\ simi.active /\ simi.rx = <<>> /\ ~simi.ready
        /\ past \in Past /\ phone \in Phone /\ Counted(card, past) /\ Typed
    BY <1>2, AnsweredAll DEF SimInv, Typed, Socket, On, Guarded
  <1>5. simi.present => /\ card.receiving /\ card.ins = m.ins
                        /\ card.pending = NothingOwed /\ card.fcp = NothingOwed
    BY <1>2, <1>3 DEF SimInv, Transaction, InBody, Live, On
  <1>6. /\ f.simi.present = simi.present
        /\ IF simi.present
           THEN \/ last /\ f.card = r.card /\ f.simi.rx = r.bytes
                \/ ~last /\ f.card = card /\ f.simi.rx = <<>>
           ELSE f.card = card
    BY <1>2, <1>3, <1>4, <1>5, BodyFlushHeard
  <1>7. w.selections = past.selections
    BY <1>4, WitnessSelections
  <1>8. /\ phone'.state = "body" /\ phone'.command = m /\ phone'.got = <<>>
        /\ SameKnowledge(phone, phone')
    BY <1>2, <1>4 DEF Phone, SameKnowledge
  <1> HIDE DEF f, w, r
  <1> QED BY <1>2, <1>3, <1>5, <1>6, <1>7, <1>8 DEF BodyHeard, r

LEMMA ChunkHeard ==
    ASSUME SimInv, HandleFiq6, "tx" \in phone.cause, phone.chunks # <<>>
    PROVE  BodyHeard(phone.command)
  <1> DEFINE m == phone.command
             chunk == Chunk("body", m, TRUE, phone.turn)
             s == [simi EXCEPT !.iir = @ \ phone.cause]
             f == Flush(s, card, chunk)
             w == Witness(past, chunk, f.bytes)
             r == FinishBody(card, m, phone.turn)
  <1>1. /\ phone.state = "body" /\ simi.rx = <<>> /\ phone.got = <<>> /\ simi.clock
        /\ m.ins = "update" /\ phone.chunks = <<chunk>>
    BY DEF SimInv, Transaction, InBody
  <1>2. Head(phone.chunks) = chunk /\ Tail(phone.chunks) = <<>>
    BY <1>1
  <1>3. /\ simi \in Simi /\ simi.active /\ ~simi.ready /\ Typed
        /\ past \in Past /\ phone \in Phone /\ Counted(card, past)
    BY <1>1 DEF SimInv, Typed, Socket, On, Guarded
  <1>4. /\ s \in Simi /\ s.present = simi.present /\ s.clock /\ s.active
        /\ s.rx = <<>> /\ ~s.ready
    BY <1>1, <1>3 DEF Simi
  <1>5. m.ins \in WithBody
    BY <1>1 DEF WithBody
  <1>6. simi.present => /\ card.receiving /\ card.ins = m.ins
                        /\ card.pending = NothingOwed /\ card.fcp = NothingOwed
    BY <1>1 DEF SimInv, Transaction, InBody, Live, On
  <1>7. /\ f.simi.present = s.present /\ ~f.simi.ready
        /\ IF s.present THEN f.card = r.card /\ f.simi.rx = r.bytes
           ELSE f.card = card
    <2> HIDE DEF s
    <2> QED BY <1>3, <1>4, <1>5, <1>6, BodyFlushHeard
  <1>8. /\ simi' = f.simi /\ card' = f.card /\ past' = w /\ scenario' = scenario
        /\ phone' = [phone EXCEPT !.cause = {}, !.chunks = <<>>, !.tx_done = @, !.got = @]
    <2> HIDE DEF chunk
    <2>1. (phone.tx_done \/ FALSE) = phone.tx_done
      BY <1>3 DEF Phone
    <2> QED BY <1>2, <1>7, <2>1 DEF HandleFiq6
  <1>9. w.selections = past.selections
    BY <1>3, WitnessSelections
  <1>10. /\ phone'.state = "body" /\ phone'.command = m /\ phone'.got = <<>>
         /\ SameKnowledge(phone, phone')
    BY <1>1, <1>3, <1>8 DEF Phone, SameKnowledge
  <1> HIDE DEF f, w, r, s
  <1> QED BY <1>1, <1>4, <1>5, <1>6, <1>7, <1>8, <1>9, <1>10 DEF BodyHeard, r

------------------------------------------------------------------------------
(* Steps *)

\* A step that is none of the toolkit's.
LEMMA KeptInStep ==
    ASSUME InStep, Live' => Live, SameToolkit(card, card'), SameKnowledge(phone, phone'),
           past'.selections = past.selections, scenario' = scenario,
           phone'.command = phone.command,
           \/ phone'.state = phone.state
           \/ phone.state = "atr" /\ phone'.state = "pts",
           Live => /\ \A n \in DOMAIN simi'.rx : Announces(simi'.rx[n], card, phone)
                   /\ \A n \in DOMAIN phone'.got : Announces(phone'.got[n], card, phone)
    PROVE  InStep'
  <1>1. CardInStep' /\ Sending'
    BY DEF InStep, CardInStep, Sending, SameToolkit, SameKnowledge, Doing
  <1>2. ASSUME Live'
        PROVE  Agree(card', phone') /\ Timed(card', phone', Left')
    BY <1>2 DEF InStep, Agree, Timed, Left, Doing, SameToolkit, SameKnowledge
  <1>3. \A b : Announces(b, card, phone) => Announces(b, card', phone')
    BY DEF Announces, SameToolkit
  <1> QED BY <1>1, <1>2, <1>3 DEF InStep

\* The card has gone, or the handset has, and starts anew.
LEMMA DownInStep ==
    ASSUME ~Live', Sending', CardInStep'
    PROVE  InStep'
  BY DEF InStep

LEMMA CardKept ==
    ASSUME CardInStep,
           \/ SameToolkit(card, card')
           \/ /\ ~card'.ready /\ ~card'.fetched
              /\ card'.proactive = "none" /\ ~card'.profiled,
           past.selections \in Nat, past'.selections \in Nat,
           past'.selections >= past.selections, scenario' = scenario,
           scenario.selections \in Nat
    PROVE  CardInStep'
  BY DEF CardInStep, SameToolkit

LEMMA ResetToolkit ==
    ASSUME NEW c \in Card, NEW turn, NEW d \in {ResetSession(c, turn), ResetCard(c, turn)}
    PROVE  ~d.ready /\ ~d.fetched /\ d.proactive = "none" /\ ~d.profiled /\ ~d.timer
  <1> DEFINE session == ResetSession(c, turn)
             plain == [session EXCEPT !.ins = "none"]
  <1>1. /\ ~session.ready /\ ~session.fetched /\ session.proactive = "none"
        /\ ~session.profiled /\ ~session.timer
    BY DEF ResetSession, Card
  <1>2. /\ plain.ready = session.ready /\ plain.fetched = session.fetched
        /\ plain.proactive = session.proactive /\ plain.profiled = session.profiled
        /\ plain.timer = session.timer
    BY DEF ResetSession, Card
  <1>3. d = session \/ d = plain
    BY DEF ResetCard
  <1> QED BY <1>1, <1>2, <1>3

\* A handset that is off has no command of the toolkit in hand.
LEMMA OffCommand ==
    ASSUME NEW turn \in Turn
    PROVE  /\ PhoneOff(turn).command.ins = "status" /\ PhoneOff(turn).state = "off"
           /\ PhoneOff(turn).fetch = "none" /\ PhoneOff(turn).open = "none"
           /\ ~PhoneOff(turn).menu /\ ~PhoneOff(turn).profiled
           /\ PhoneOff(turn).got = <<>>
  <1>1. "status" \in Instructions
    BY DEF Instructions
  <1>2. \E m \in SimCommand : m.ins = "status"
    BY <1>1, PlainTyped
  <1>3. (CHOOSE m \in SimCommand : m.ins = "status").ins = "status"
    BY <1>2
  <1> QED BY <1>3 DEF PhoneOff

LEMMA SelectionCounts ==
    ASSUME Typed
    PROVE  past.selections \in Nat /\ scenario.selections \in Nat
  <1>1. {scenario.breaks, scenario.gates, scenario.selections} \subseteq Nat
    BY SimInterfaceAssumption DEF Typed
  <1> QED BY <1>1 DEF Typed, Past

\* Devices, interrupts and the clock move what was said, and say nothing.
LEMMA MovedInStep ==
    ASSUME SimInv, InStep, RxReady \/ TakeFiq6 \/ Gate \/ Ungate
    PROVE  InStep'
  <1>1. /\ simi \in Simi /\ phone \in Phone /\ past \in Past /\ scenario' = scenario
        /\ card' = card
    BY DEF SimInv, Typed, RxReady, TakeFiq6, Gate, Ungate
  <1>2. simi'.rx = simi.rx /\ simi'.present = simi.present
    <2>1. CASE RxReady
      BY <1>1, <2>1 DEF RxReady, Simi
    <2>2. CASE TakeFiq6
      BY <2>2 DEF TakeFiq6
    <2>3. CASE Gate \/ Ungate
      BY <1>1, <2>3 DEF Gate, Ungate, SetClock, Simi
    <2> QED BY <2>1, <2>2, <2>3
  <1>3. /\ phone'.state = phone.state /\ phone'.command = phone.command
        /\ phone'.got = phone.got /\ SameKnowledge(phone, phone')
    <2>1. phone' = phone \/ phone' = [phone EXCEPT !.cause = simi.iir]
      BY DEF RxReady, TakeFiq6, Gate, Ungate
    <2> QED BY <1>1, <2>1 DEF Phone, SameKnowledge
  <1>4. past'.selections = past.selections
    BY <1>1 DEF RxReady, TakeFiq6, Gate, Ungate, Past
  <1>5. SameToolkit(card, card') /\ (Live' => Live)
    BY <1>1, <1>2, <1>3 DEF SameToolkit, Live, On
  <1>6. Live => /\ \A n \in DOMAIN simi'.rx : Announces(simi'.rx[n], card, phone)
                /\ \A n \in DOMAIN phone'.got : Announces(phone'.got[n], card, phone)
    BY <1>2, <1>3 DEF InStep
  <1> QED BY <1>1, <1>3, <1>4, <1>5, <1>6, KeptInStep

LEMMA ReadInStep ==
    ASSUME SimInv, InStep, HandleFiq6, ~("tx" \in phone.cause /\ phone.chunks # <<>>)
    PROVE  InStep'
  <1> DEFINE s == [simi EXCEPT !.iir = @ \ phone.cause]
             reads == "rx" \in phone.cause /\ simi.ready
             byte == Head(simi.rx)
  <1>1. simi \in Simi /\ phone \in Phone /\ (simi.ready => simi.rx # <<>>)
        /\ simi.rx \in Seq(SimByte) /\ phone.got \in Seq(SimByte)
    BY DEF SimInv, Typed, Simi, Phone
  <1>2. s \in Simi /\ s.present = simi.present /\ s.rx = simi.rx /\ s.ready = simi.ready
    BY <1>1 DEF Simi
  <1> HIDE DEF s
  <1>3. /\ simi' = (IF reads THEN ReadRxd(s) ELSE s) /\ card' = card /\ past' = past
        /\ scenario' = scenario
        /\ phone' = [phone EXCEPT !.cause = {}, !.chunks = @,
                       !.tx_done = @ \/ "tx" \in phone.cause,
                       !.got = IF reads THEN Append(@, byte) ELSE @]
    <2>1. CASE reads
      <3>1. /\ simi' = ReadRxd(s) /\ card' = card /\ past' = past
            /\ scenario' = scenario
            /\ phone' = [phone EXCEPT !.cause = {}, !.chunks = @,
                           !.tx_done = @ \/ "tx" \in phone.cause,
                           !.got = Append(@, byte)]
        BY <1>1, <1>2, <2>1 DEF HandleFiq6, s
      <3> QED BY <2>1, <3>1
    <2>2. CASE ~reads
      BY <1>1, <1>2, <2>2 DEF HandleFiq6, s
    <2> QED BY <2>1, <2>2
  <1>4. reads => /\ byte = simi.rx[1] /\ 1 \in DOMAIN simi.rx
                 /\ \A n \in DOMAIN Tail(simi.rx) :
                      n + 1 \in DOMAIN simi.rx /\ Tail(simi.rx)[n] = simi.rx[n + 1]
    BY <1>1
  <1>5. \A n \in DOMAIN Append(phone.got, byte) :
           \/ n \in DOMAIN phone.got /\ Append(phone.got, byte)[n] = phone.got[n]
           \/ Append(phone.got, byte)[n] = byte
    <2> HIDE DEF byte
    <2> QED BY <1>1
  <1> HIDE DEF byte
  <1>6. /\ phone'.state = phone.state /\ phone'.command = phone.command
        /\ phone'.got = (IF reads THEN Append(phone.got, byte) ELSE phone.got)
        /\ SameKnowledge(phone, phone')
    BY <1>1, <1>3 DEF Phone, SameKnowledge
  <1>7. simi'.present = simi.present
        /\ simi'.rx = (IF reads THEN Tail(simi.rx) ELSE simi.rx)
    BY <1>2, <1>3 DEF Simi, ReadRxd
  <1>8. SameToolkit(card, card') /\ (Live' => Live)
    BY <1>3, <1>6, <1>7 DEF SameToolkit, Live, On
  <1>9. ASSUME Live
        PROVE  /\ \A n \in DOMAIN simi'.rx : Announces(simi'.rx[n], card, phone)
               /\ \A n \in DOMAIN phone'.got : Announces(phone'.got[n], card, phone)
    <2>1. /\ \A n \in DOMAIN simi.rx : Announces(simi.rx[n], card, phone)
          /\ \A n \in DOMAIN phone.got : Announces(phone.got[n], card, phone)
      BY <1>9 DEF InStep
    <2> HIDE DEF reads
    <2>2. \A n \in DOMAIN simi'.rx : Announces(simi'.rx[n], card, phone)
      BY <1>4, <1>7, <2>1
    <2>3. \A n \in DOMAIN phone'.got : Announces(phone'.got[n], card, phone)
      BY <1>4, <1>5, <1>6, <2>1
    <2> QED BY <2>2, <2>3
  <1> QED BY <1>3, <1>6, <1>8, <1>9, KeptInStep

LEMMA SelectInStep ==
    ASSUME SimInv, InStep, SelectParameters
    PROVE  InStep'
  <1> DEFINE chunk == Chunk("pts", phone.command, TRUE, phone.turn)
             f == Flush(simi, card, chunk)
             b == Byte(phone.turn, phone.turn, "pts", "none")
             heard == Receive(card, chunk)
  <1>1. /\ simi.clock /\ phone.state = "atr" /\ Answered
        /\ scenario' = scenario /\ simi' = f.simi /\ card' = f.card
        /\ past' = Witness(past, chunk, f.bytes)
        /\ phone' = [[phone EXCEPT !.state = "pts"] EXCEPT !.got = <<>>, !.tx_done = FALSE]
    BY DEF SelectParameters, Runs, Sends
  <1>2. past'.selections = past.selections
    BY <1>1, WitnessSelections DEF SimInv, Typed
  <1>3. /\ simi \in Simi /\ simi.active /\ simi.rx = <<>> /\ ~simi.ready
        /\ card \in Card /\ phone \in Phone /\ phone.turn \in Turn /\ phone.chunks = <<>>
    BY <1>1, AnsweredAll DEF SimInv, Typed, Socket, On, Phone, Transaction, InBody
  <1>4. simi.present => ~card.receiving
    BY <1>1, <1>3 DEF SimInv, Transaction, InBody, Live, On
  <1>5. b \in SimByte /\ b.what = "pts"
    BY <1>3, ToolkitNames DEF Byte, SimByte, What
  <1>6. simi.present =>
          heard.bytes = <<b>> /\ heard.card = [card EXCEPT !.pts = FALSE]
    BY <1>4 DEF Receive, Chunk, Says
  <1> HIDE DEF chunk, b, heard
  <1>7. /\ f.simi.present = simi.present
        /\ IF simi.present THEN f.card = heard.card /\ f.simi.rx = heard.bytes
           ELSE f.card = card
    <2>1. simi.present => heard.bytes \in Seq(SimByte) /\ Len(heard.bytes) <= 3
      <3>1. <<b>> \in Seq(SimByte) /\ Len(<<b>>) <= 3
        BY <1>5
      <3> QED BY <1>6, <3>1
    <2> QED BY <1>1, <1>3, <2>1, Flushed DEF heard
  <1> HIDE DEF f
  <1>8. SameToolkit(card, card')
    BY <1>1, <1>3, <1>6, <1>7 DEF Card, SameToolkit
  <1>9. /\ phone'.state = "pts" /\ phone'.command = phone.command /\ phone'.got = <<>>
        /\ SameKnowledge(phone, phone') /\ (Live' => Live)
    BY <1>1, <1>3, <1>7 DEF Phone, SameKnowledge, Live, On
  <1>10. phone.command.ins = "status"
    BY <1>1 DEF InStep, Sending
  <1>11. ASSUME Live
         PROVE  /\ \A n \in DOMAIN simi'.rx : Announces(simi'.rx[n], card, phone)
                /\ \A n \in DOMAIN phone'.got : Announces(phone'.got[n], card, phone)
    <2>1. simi'.rx = <<b>>
      BY <1>1, <1>6, <1>7, <1>11 DEF Live
    <2>2. DOMAIN <<>> = {} /\ \A n \in DOMAIN <<b>> : <<b>>[n] = b
      OBVIOUS
    <2> QED BY <1>5, <1>9, <1>10, <2>1, <2>2 DEF Announces
  <1> QED BY <1>1, <1>2, <1>8, <1>9, <1>11, KeptInStep

\* The card pulled out or put back, and a handset that starts anew.
LEMMA DownSteps ==
    ASSUME SimInv, InStep, RemoveCard \/ MachineReset \/ TakeFiq7 \/ InsertCard
    PROVE  InStep'
  <1>1. /\ simi \in Simi /\ phone \in Phone /\ past \in Past /\ card \in Card
        /\ phone.turn \in Turn /\ scenario' = scenario
        /\ past.selections \in Nat /\ scenario.selections \in Nat
    BY SelectionCounts
       DEF SimInv, Typed, Phone, RemoveCard, MachineReset, TakeFiq7, InsertCard
  <1>2. past'.selections = past.selections
    <2>1. past' = past \/ past' = [past EXCEPT !.breaks = @ + 1]
      BY DEF RemoveCard, MachineReset, TakeFiq7, InsertCard
    <2> QED BY <1>1, <2>1 DEF Past
  <1>3. \/ SameToolkit(card, card')
        \/ ~card'.ready /\ ~card'.fetched /\ card'.proactive = "none" /\ ~card'.profiled
    <2>1. \/ card' = card
          \/ card' \in {ResetSession(card, phone.turn), ResetCard(card, phone.turn)}
      BY DEF RemoveCard, MachineReset, TakeFiq7, InsertCard
    <2> QED BY <1>1, <2>1, ResetToolkit DEF SameToolkit
  <1>4. CardInStep'
    BY <1>1, <1>2, <1>3, CardKept DEF InStep
  <1>5. Sending' /\ ~Live'
    <2>1. CASE RemoveCard
      <3>1. ~simi'.present
        BY <1>1, <2>1, ClearedSimi DEF RemoveCard, Simi
      <3> QED BY <1>2, <2>1, <3>1 DEF RemoveCard, InStep, Sending, Doing, Live
    <2>2. CASE MachineReset \/ TakeFiq7
      <3>1. phone' = PhoneOff(phone.turn)
        BY <2>2 DEF MachineReset, TakeFiq7
      <3>2. phone'.state = "off" /\ phone'.command.ins = "status"
        BY <1>1, <3>1, OffCommand
      <3> QED BY <3>2 DEF Sending, Doing, Live, On
    <2>3. CASE InsertCard
      <3>1. phone' = phone /\ ~On
        BY <2>3 DEF InsertCard, SimInv, Socket
      <3> QED BY <1>2, <3>1 DEF InStep, Sending, Doing, Live, On
    <2> QED BY <2>1, <2>2, <2>3
  <1> QED BY <1>4, <1>5, DownInStep

LEMMA ActivateInStep ==
    ASSUME SimInv, InStep, Activate
    PROVE  InStep'
  <1> DEFINE turn == Later(phone.turn)
             off == PhoneOff(turn)
  <1>1. turn \in Turn /\ simi \in Simi /\ past \in Past /\ card \in Card
        /\ past.selections \in Nat /\ scenario.selections \in Nat
    BY Turns2, SelectionCounts DEF SimInv, Typed, Phone
  <1>2. /\ simi' = ControlWrite(ControlWrite(simi, FALSE, <<>>), TRUE, Atr(turn))
        /\ card' = ResetSession(card, turn) /\ phone' = [off EXCEPT !.state = "atr"]
        /\ past' = [past EXCEPT !.earned = {}] /\ scenario' = scenario
        /\ simi.present /\ simi.clock
    BY DEF Activate
  <1> HIDE DEF turn
  <1>3. simi'.rx = Atr(turn)
    BY <1>1, <1>2, ControlWritten
  <1>4. /\ ~card'.ready /\ ~card'.fetched /\ card'.proactive = "none"
        /\ ~card'.profiled /\ ~card'.timer
    BY <1>1, <1>2, ResetToolkit
  <1>5. /\ off \in Phone /\ off.command.ins = "status" /\ off.got = <<>>
        /\ off.fetch = "none" /\ off.open = "none" /\ ~off.menu /\ ~off.profiled
    BY <1>1, PlainTyped, OffCommand
  <1> HIDE DEF off
  <1>6. /\ phone'.state = "atr" /\ phone'.command.ins = "status" /\ phone'.got = <<>>
        /\ phone'.fetch = "none" /\ phone'.open = "none" /\ ~phone'.menu
        /\ ~phone'.profiled
    BY <1>2, <1>5 DEF Phone
  <1>7. past'.selections = past.selections
    BY <1>1, <1>2 DEF Past
  <1>8. CardInStep'
    BY <1>1, <1>2, <1>4, <1>7, CardKept DEF InStep
  <1>9. Sending' /\ Agree(card', phone') /\ Timed(card', phone', Left')
    BY <1>4, <1>6 DEF Sending, Agree, Timed, Doing
  <1>10. /\ \A n \in DOMAIN simi'.rx : Announces(simi'.rx[n], card', phone')
         /\ \A n \in DOMAIN phone'.got : Announces(phone'.got[n], card', phone')
    <2>1. \A n \in DOMAIN simi'.rx : simi'.rx[n].what = "atr"
      BY <1>3, AtrBytes
    <2>2. DOMAIN <<>> = {}
      OBVIOUS
    <2> QED BY <1>6, <2>1, <2>2 DEF Announces
  <1> QED BY <1>8, <1>9, <1>10 DEF InStep

LEMMA TimerInStep ==
    ASSUME SimInv, InStep, ToolkitTimer
    PROVE  InStep'
  <1>1. /\ card.timer /\ card' = ToolkitCommandReady(card) /\ simi' = simi
        /\ phone' = phone /\ past' = past /\ scenario' = scenario /\ card \in Card
    BY DEF ToolkitTimer, SimInv, Typed
  <1>2. /\ ~card'.timer /\ card'.profiled = card.profiled
        /\ card'.fetched = card.fetched
        /\ \/ card'.proactive = card.proactive /\ card'.ready = card.ready
           \/ ~card.fetched /\ card'.proactive = "text" /\ card'.ready
    <2>1. \/ card' = [card EXCEPT !.timer = FALSE]
          \/ /\ ~card.fetched
             /\ card' = [card EXCEPT !.timer = FALSE, !.proactive = "text", !.ready = TRUE]
      BY <1>1 DEF ToolkitCommandReady
    <2> QED BY <1>1, <2>1 DEF Card
  <1>3. CardInStep' /\ Sending'
    BY <1>1, <1>2 DEF InStep, CardInStep, Sending, Doing
  <1>4. ASSUME Live'
        PROVE  /\ Agree(card', phone') /\ Timed(card', phone', Left')
               /\ \A n \in DOMAIN simi'.rx : Announces(simi'.rx[n], card', phone')
               /\ \A n \in DOMAIN phone'.got : Announces(phone'.got[n], card', phone')
    <2>1. Live /\ ~card.ready /\ ~card.fetched
      BY <1>1, <1>4 DEF Live, On, InStep, Timed
    <2>2. Agree(card', phone') /\ Timed(card', phone', Left')
      BY <1>1, <1>2, <2>1 DEF InStep, Agree, Timed, Doing
    <2>3. \A b : Announces(b, card, phone) => Announces(b, card', phone')
      BY <1>1, <2>1 DEF Announces
    <2> QED BY <1>1, <2>1, <2>2, <2>3 DEF InStep
  <1> QED BY <1>3, <1>4 DEF InStep

\* Why a command of the toolkit is issued.
LEMMA IssuedToolkit ==
    ASSUME ToolkitOnly, Typed, NEW m \in scenario.commands \cup ToolkitCommands
    PROVE  /\ m.ins = "profile" => ~phone.profiled
           /\ m.ins = "envelope" => MaySelect
           /\ m.ins = "fetch" => m.of = phone.fetch /\ m.of # "none"
           /\ m.ins = "terminal_response" =>
                m.of = phone.open /\ m.of # "none" /\ (phone.profiled \/ m.of # "refresh")
  <1>1. ASSUME NEW ins \in Instructions, NEW of \in Proactive
        PROVE  Plain(ins).ins = ins /\ Naming(ins, of).ins = ins /\ Naming(ins, of).of = of
    <2>1. Plain(ins) \in SimCommand /\ Plain(ins).ins = ins /\ Naming(ins, of).ins = ins
      BY PlainTyped
    <2>2. Naming(ins, of).of = of
      <3> DEFINE plain == Plain(ins)
      <3>1. [plain EXCEPT !.of = of].of = of
        <4> HIDE DEF plain
        <4>1. plain \in SimCommand
          BY <2>1 DEF plain
        <4> QED BY <4>1 DEF SimCommand
      <3> QED BY <3>1 DEF Naming
    <2> QED BY <2>1, <2>2
  <1>2. phone.fetch \in Proactive /\ phone.open \in Proactive /\ "none" \in Proactive
    BY ToolkitNames DEF Typed, Phone
  <1>3. ToolkitIns \subseteq Instructions
    BY DEF ToolkitIns, Instructions, WithBody
  <1>4. CASE m \in scenario.commands
    <2>1. m.ins \notin ToolkitIns
      BY <1>4 DEF ToolkitOnly, Typed
    <2> QED BY <2>1 DEF ToolkitIns
  <1>5. CASE m \in {Plain(ins) : ins \in (IF HasToolkit /\ ~phone.profiled
                                            THEN {"profile"} ELSE {})
                                         \cup (IF MaySelect THEN {"envelope"} ELSE {})}
    <2>1. PICK ins \in ToolkitIns :
            /\ m = Plain(ins) /\ ins \in {"profile", "envelope"}
            /\ ins = "profile" => ~phone.profiled
            /\ ins = "envelope" => MaySelect
      BY <1>5 DEF ToolkitIns
    <2>2. m.ins = ins
      BY <1>1, <1>2, <1>3, <2>1
    <2> QED BY <2>1, <2>2
  <1>6. CASE m \in {Naming("fetch", of) : of \in {phone.fetch} \ {"none"}}
    <2>1. m = Naming("fetch", phone.fetch) /\ phone.fetch # "none"
      BY <1>6
    <2>2. m.ins = "fetch" /\ m.of = phone.fetch
      BY <1>1, <1>2, <1>3, <2>1 DEF ToolkitIns
    <2> QED BY <2>1, <2>2
  <1>7. CASE m \in {Naming("terminal_response", of) :
                      of \in {phone.open} \ (IF phone.profiled THEN {"none"}
                                             ELSE {"none", "refresh"})}
    <2>1. /\ m = Naming("terminal_response", phone.open) /\ phone.open # "none"
          /\ phone.profiled \/ phone.open # "refresh"
      BY <1>7
    <2>2. m.ins = "terminal_response" /\ m.of = phone.open
      BY <1>1, <1>2, <1>3, <2>1 DEF ToolkitIns
    <2> QED BY <2>1, <2>2
  <1> QED BY <1>4, <1>5, <1>6, <1>7 DEF ToolkitCommands

LEMMA IssueInStep ==
    ASSUME SimInv, InStep, ToolkitOnly, Issue
    PROVE  InStep'
  <1>1. PICK m \in scenario.commands \cup ToolkitCommands :
          LET r == FinishHeader(card, m, Later(phone.turn)) IN
          /\ m \in SimCommand /\ phone.state = "ready"
          /\ IF simi.present THEN card' = r.card /\ simi'.rx = r.bytes
             ELSE card' = card
          /\ simi'.present = simi.present /\ scenario' = scenario
          /\ past'.selections = IF m.ins = "envelope" THEN past.selections + 1
                                ELSE past.selections
          /\ phone'.state = "header" /\ phone'.command = m /\ phone'.got = <<>>
          /\ SameKnowledge(phone, phone')
    BY IssueHeard
  <1> DEFINE r == FinishHeader(card, m, Later(phone.turn))
  <1>2. /\ card \in Card /\ Later(phone.turn) \in Turn /\ Typed
        /\ past.selections \in Nat /\ scenario.selections \in Nat
    BY Turns2, SelectionCounts DEF SimInv, Typed, Phone
  <1>3. /\ m.ins = "profile" => ~phone.profiled
        /\ m.ins = "envelope" => MaySelect
        /\ m.ins = "fetch" => m.of = phone.fetch /\ m.of # "none"
        /\ m.ins = "terminal_response" =>
             m.of = phone.open /\ m.of # "none" /\ (phone.profiled \/ m.of # "refresh")
    BY <1>2, IssuedToolkit
  <1>4. past'.selections >= past.selections /\ past'.selections \in Nat
        /\ (m.ins = "envelope" => past'.selections > 0) /\ (Left' => Left)
    BY <1>1, <1>2 DEF Left
  <1>5. Sending'
    BY <1>1, <1>4 DEF Sending, Doing
  <1>6. CASE ~simi.present
    <2>1. CardInStep'
      BY <1>1, <1>2, <1>4, <1>6, CardKept DEF InStep, SameToolkit
    <2> QED BY <1>1, <1>5, <1>6, <2>1, DownInStep DEF Live
  <1>7. CASE simi.present
    <2>1. Live
      BY <1>1, <1>7 DEF Live, On
    <2>2. CardInStep /\ Agree(card, phone) /\ Timed(card, phone, Left)
      BY <2>1 DEF InStep
    <2>3. m.ins = "fetch" => HasToolkit /\ card.profiled /\ card.ready /\ m.of # "none"
                             /\ m.of = card.proactive
      BY <1>1, <1>3, <2>2 DEF CardInStep, Agree, Doing
    <2>4. /\ IF m.ins = "fetch" THEN Fetched(card, r.card, m) ELSE SameToolkit(card, r.card)
          /\ \A n \in DOMAIN r.bytes :
               /\ Announced(r.bytes[n], r.card)
               /\ m.ins = "fetch" => r.bytes[n].what # "refused"
          /\ r.card.ins = m.ins
      BY <1>1, <1>2, <2>3, HeaderToolkit
    <2>5. card' = r.card /\ simi'.rx = r.bytes
      BY <1>1, <1>7
    <2> HIDE DEF r
    <2>6. CASE m.ins = "fetch"
      <3>1. Fetched(card, card', m)
        BY <2>4, <2>5, <2>6
      <3>2. CardInStep'
        BY <1>1, <1>2, <1>4, <2>2, <3>1 DEF CardInStep, Fetched
      <3>3. Agree(card', phone')
        BY <1>1, <1>3, <2>2, <2>3, <2>6, <3>1
           DEF CardInStep, Agree, Doing, Fetched, SameKnowledge
      <3>4. ~card'.timer
        BY <2>2, <2>3, <2>6, <3>1 DEF Timed, Fetched
      <3> QED BY <3>2, <3>3, <3>4, <1>1, <1>5, <2>4, <2>5, <2>6
              DEF InStep, Timed, Announces, Announced
    <2>7. CASE m.ins # "fetch"
      <3>1. SameToolkit(card, card')
        BY <2>4, <2>5, <2>7
      <3>2. CardInStep'
        BY <1>1, <1>2, <1>4, <2>2, <3>1, CardKept
      <3>3. Agree(card', phone')
        BY <1>1, <1>3, <2>2, <2>7, <3>1
           DEF CardInStep, Agree, Doing, SameToolkit, SameKnowledge
      <3>4. Timed(card', phone', Left')
        BY <1>1, <1>3, <1>4, <2>2, <3>1
           DEF Timed, Doing, SameToolkit, SameKnowledge, MaySelect, Left
      <3> QED BY <3>2, <3>3, <3>4, <1>1, <1>5, <2>4, <2>5, <2>7
              DEF InStep, Announces, Announced
    <2> QED BY <2>6, <2>7
  <1> QED BY <1>6, <1>7

\* What a body leaves the handset and the card with.
LEMMA BodyInStep ==
    ASSUME SimInv, InStep, ToolkitOnly, BodyHeard(phone.command)
    PROVE  InStep'
  <1> DEFINE m == phone.command
             r == FinishBody(card, m, phone.turn)
  <1>1. /\ m.ins \in WithBody
        /\ \/ phone.state = "header"
           \/ phone.state = "body" /\ m.ins = "update"
        /\ simi'.present = simi.present /\ scenario' = scenario
        /\ past'.selections = past.selections
        /\ phone'.state = "body" /\ phone'.command = m /\ phone'.got = <<>>
        /\ SameKnowledge(phone, phone')
        /\ simi.present => card.ins = m.ins
        /\ IF simi.present
           THEN \/ card' = r.card /\ simi'.rx = r.bytes
                \/ m.ins = "update" /\ card' = card /\ simi'.rx = <<>>
           ELSE card' = card
    BY DEF BodyHeard
  <1>2. /\ card \in Card /\ phone.turn \in Turn /\ m \in SimCommand
        /\ past.selections \in Nat /\ scenario.selections \in Nat
        /\ scenario \in Scenarios
    BY SelectionCounts DEF SimInv, Typed, Phone
  <1>3. Sending'
    BY <1>1 DEF Sending, Doing
  <1>4. CASE ~simi.present
    <2>1. CardInStep'
      BY <1>1, <1>2, <1>4, CardKept DEF InStep, SameToolkit
    <2> QED BY <1>1, <1>3, <1>4, <2>1, DownInStep DEF Live
  <1>5. CASE simi.present
    <2>1. Live
      BY <1>1, <1>5 DEF Live, On
    <2>2. CardInStep /\ Sending /\ Agree(card, phone) /\ Timed(card, phone, Left)
      BY <2>1 DEF InStep
    <2>3. /\ Taken(card, r.card, m) /\ \E b : r.bytes = <<b>> /\ Announced(b, r.card)
          /\ r.card.ins = m.ins
      BY <1>1, <1>2, <1>5, BodyToolkit
    <2> HIDE DEF r
    <2>4. Taken(card, card', m)
      BY <1>1, <1>5, <2>3 DEF Taken, SameToolkit
    <2>5. m.ins # "fetch"
      BY <1>1 DEF WithBody, ChvCommands
    <2>6. \A n \in DOMAIN simi'.rx : Announces(simi'.rx[n], card', phone')
      <3>1. DOMAIN <<>> = {} /\ \A b : \A n \in DOMAIN <<b>> : <<b>>[n] = b
        OBVIOUS
      <3>2. CASE card' = r.card /\ simi'.rx = r.bytes
        BY <1>1, <2>3, <2>5, <3>1, <3>2 DEF Announces, Announced
      <3>3. CASE simi'.rx = <<>>
        BY <3>1, <3>3
      <3> QED BY <1>1, <1>5, <3>2, <3>3
    <2>7. \A n \in DOMAIN phone'.got : Announces(phone'.got[n], card', phone')
      <3>1. DOMAIN <<>> = {}
        OBVIOUS
      <3> QED BY <1>1, <3>1
    <2>8. Left' <=> Left
      BY <1>1 DEF Left
    <2> HIDE DEF m
    <2>9. CardInStep' /\ Agree(card', phone') /\ Timed(card', phone', Left')
      <3>1. CASE m.ins = "profile"
        <4>1. Doing(phone, "header", "profile") /\ ~phone.profiled /\ phone.fetch = "none"
          BY <1>1, <2>2, <3>1 DEF Agree, Doing, m
        <4>2. /\ \/ phone.open = "refresh" /\ card.fetched /\ card.proactive = "refresh"
                 \/ phone.open = "none" /\ ~phone.menu /\ ~card.profiled
          BY <1>1, <2>2, <3>1, <4>1 DEF Agree, Doing, m
        <4>3. ProfileTaken(card, card')
          BY <2>4, <3>1 DEF Taken
        <4>4. CardInStep'
          BY <1>1, <2>2, <4>3 DEF CardInStep, ProfileTaken, SameToolkit
        <4>5. Agree(card', phone')
          BY <1>1, <3>1, <4>1, <4>2, <4>3
             DEF Agree, Doing, ProfileTaken, SameToolkit, SameKnowledge
        <4>6. Timed(card', phone', Left')
          BY <1>1, <2>2, <2>8, <3>1, <4>1, <4>2, <4>3
             DEF Timed, Doing, ProfileTaken, SameToolkit, SameKnowledge
        <4> QED BY <4>4, <4>5, <4>6
      <3>2. CASE m.ins = "terminal_response"
        <4>1. Doing(phone, "header", "terminal_response") /\ phone.profiled
              /\ card.fetched /\ card.proactive = m.of /\ ~card.ready
          BY <1>1, <2>2, <3>2 DEF Agree, Doing, CardInStep, m
        <4>2. phone.fetch = "none" /\ ~card.timer
          BY <2>2, <4>1 DEF Agree, Timed, Doing
        <4>3. ResponseTaken(card, card', m)
          BY <2>4, <3>2 DEF Taken
        <4>4. /\ Follows("refresh") = "none" /\ \A x : Follows(x) # "refresh"
          BY RefreshAlone
        <4>5. CardInStep'
          BY <1>1, <2>2, <4>3, <4>4 DEF CardInStep, ResponseTaken, SameToolkit
        <4>6. Agree(card', phone')
          BY <1>1, <3>2, <4>1, <4>2 DEF Agree, Doing, SameKnowledge
        <4>7. card'.timer => card.proactive = "refresh" /\ ~card'.ready /\ ~card'.fetched
          BY <4>2, <4>3, <4>4 DEF ResponseTaken, SameToolkit
        <4>8. card.proactive = "refresh" => ~Left
          BY <1>2, <2>2 DEF CardInStep, Left
        <4>9. Timed(card', phone', Left')
          BY <1>1, <2>8, <3>2, <4>1, <4>7, <4>8 DEF Timed, Doing
        <4> QED BY <4>5, <4>6, <4>9
      <3>3. CASE m.ins = "envelope"
        <4>1. Doing(phone, "header", "envelope") /\ past.selections > 0 /\ ~card.timer
          BY <1>1, <2>2, <3>3 DEF Sending, Timed, Doing, m
        <4>2. EnvelopeTaken(card, card')
          BY <2>4, <3>3 DEF Taken
        <4>3. CASE SameToolkit(card, card')
          <5>1. CardInStep'
            BY <1>1, <2>2, <4>3 DEF CardInStep, SameToolkit
          <5>2. Agree(card', phone')
            BY <1>1, <2>2, <3>3, <4>3 DEF Agree, Doing, SameToolkit, SameKnowledge, m
          <5> QED BY <4>1, <4>3, <5>1, <5>2 DEF Timed, SameToolkit
        <4>4. CASE ~SameToolkit(card, card')
          <5>1. /\ card.proactive = "none" /\ Selection # <<>>
                /\ card'.proactive = Head(Selection) /\ card'.ready
                /\ card'.profiled = card.profiled /\ card'.fetched = card.fetched
                /\ card'.timer = card.timer
            BY <4>2, <4>4 DEF EnvelopeTaken
          <5>2. ~card.ready /\ ~card.fetched
            BY <2>2, <5>1 DEF CardInStep
          <5>3. phone.fetch = "none" /\ phone.open = "none"
            BY <2>2, <4>1, <5>2 DEF Agree, Doing
          <5>4. /\ Head(Selection) # "none"
                /\ Head(Selection) = "refresh" => scenario.selections <= 1
            BY <1>2, <5>1, RefreshAlone
          <5>5. CardInStep'
            BY <1>1, <1>2, <2>2, <4>1, <5>1, <5>2, <5>4 DEF CardInStep
          <5>6. Agree(card', phone')
            BY <1>1, <2>2, <3>3, <5>1, <5>3 DEF Agree, Doing, SameKnowledge, m
          <5> QED BY <4>1, <5>1, <5>5, <5>6 DEF Timed
        <4> QED BY <4>3, <4>4
      <3>4. CASE m.ins \notin {"profile", "terminal_response", "envelope"}
        <4>1. SameToolkit(card, card')
          BY <2>4, <3>4 DEF Taken
        <4>2. CardInStep'
          BY <1>1, <2>2, <4>1 DEF CardInStep, SameToolkit
        <4>3. Agree(card', phone')
          BY <1>1, <2>2, <2>5, <3>4, <4>1 DEF Agree, Doing, SameToolkit, SameKnowledge, m
        <4>4. Timed(card', phone', Left')
          BY <1>1, <2>2, <2>8, <3>4, <4>1 DEF Timed, Doing, SameToolkit, SameKnowledge
        <4> QED BY <4>2, <4>3, <4>4
      <3> QED BY <3>1, <3>2, <3>3, <3>4
    <2> QED BY <1>3, <2>6, <2>7, <2>9 DEF InStep
  <1> QED BY <1>4, <1>5

LEMMA ConcludeInStep ==
    ASSUME SimInv, InStep, Conclude
    PROVE  InStep'
  <1> DEFINE status == Last(phone.got)
             ins == phone.command.ins
             of == phone.command.of
             accepted == status.what \in {"ok", "proactive"}
             taken == IF ins = "fetch" /\ accepted THEN of ELSE "none"
             fetch == IF status.what = "proactive" THEN status.of
                      ELSE IF ins = "fetch" THEN "none" ELSE phone.fetch
             open == IF ins = "fetch" THEN taken
                     ELSE IF ins = "terminal_response" THEN "none" ELSE phone.open
             menu == phone.menu \/ (ins = "terminal_response" /\ of = "menu")
             profiled == (phone.profiled \/ ins = "profile") /\ taken # "refresh"
  <1>1. /\ phone.state \in {"pts", "header", "body"} /\ Answered
        /\ status.what # "ack" /\ phone' = Concluded(phone, status)
        /\ simi' = simi /\ card' = card /\ past' = past /\ scenario' = scenario
    BY DEF Conclude
  <1>2. /\ phone \in Phone /\ simi.rx = <<>> /\ phone.got \in Seq(SimByte)
        /\ phone.got # <<>>
    BY <1>1, AnsweredAll DEF SimInv, Typed, On, Phone, Answered
  <1>3. Len(phone.got) \in DOMAIN phone.got /\ status = phone.got[Len(phone.got)]
    BY <1>2 DEF Last
  <1>4. phone' = [phone EXCEPT !.state = "ready", !.got = <<>>, !.fetch = fetch,
                     !.open = open, !.menu = menu, !.profiled = profiled]
    BY <1>1 DEF Concluded
  <1>5. ~(phone.state = "header" /\ ins \in WithBody)
        /\ (phone.state = "body" => ins \in WithBody)
    <2>1. phone.state = "header" /\ ins \in WithBody => status.what = "ack"
      BY <1>3 DEF SimInv, Answer, On, Fits
    <2> QED BY <1>1, <2>1 DEF SimInv, Transaction
  <1>6. phone.state = "pts" => ins = "status"
    BY DEF InStep, Sending
  <1>7. /\ ins \in {"profile", "terminal_response", "envelope"} => phone.state = "body"
        /\ ins = "fetch" => phone.state = "header"
    BY <1>1, <1>5, <1>6 DEF WithBody, ChvCommands
  <1>8. Live => Announces(status, card, phone)
    BY <1>3 DEF InStep
  <1> HIDE DEF fetch, open, menu, profiled, taken, accepted, status
  <1>9. /\ phone'.state = "ready" /\ phone'.got = <<>> /\ phone'.fetch = fetch
        /\ phone'.open = open /\ phone'.menu = menu /\ phone'.profiled = profiled
    BY <1>2, <1>4 DEF Phone
  <1>10. CardInStep' /\ Sending' /\ (Left' <=> Left)
    BY <1>1, <1>9 DEF InStep, CardInStep, Sending, Doing, Left
  <1>11. ASSUME Live'
         PROVE  Agree(card', phone') /\ Timed(card', phone', Left')
    <2>1. Live /\ Agree(card, phone) /\ Timed(card, phone, Left) /\ CardInStep
          /\ Announces(status, card, phone)
      BY <1>1, <1>8, <1>11 DEF Live, On, InStep
    <2>2. phone.profiled \in BOOLEAN /\ phone.menu \in BOOLEAN
      BY <1>2 DEF Phone
    <2>3. CASE status.what = "proactive"
      <3>1. /\ card.ready /\ card.profiled /\ card.proactive = status.of /\ ~card.fetched
            /\ ins \notin {"fetch", "profile"} /\ ~card.timer
        BY <2>1, <2>3 DEF Announces, CardInStep, Timed
      <3>2. fetch = status.of /\ taken = "none" /\ profiled = phone.profiled
        BY <2>2, <2>3, <3>1 DEF fetch, taken, profiled
      <3>3. open = "none"
        BY <2>1, <3>1 DEF open, Agree, Doing
      <3>4. phone.profiled
        BY <1>7, <2>1, <3>1 DEF Agree, Doing
      <3> QED BY <1>1, <1>9, <3>1, <3>2, <3>3, <3>4 DEF Agree, Timed, Doing
    <2>4. CASE status.what # "proactive" /\ ins = "fetch"
      <3>1. /\ card.fetched /\ card.proactive = of /\ phone.fetch = of /\ of # "none"
            /\ phone.profiled /\ ~card.timer
        BY <1>7, <2>1, <2>4 DEF Agree, Timed, Doing
      <3>2. fetch = "none" /\ open = taken /\ (taken = "none" \/ taken = of)
            /\ (profiled <=> taken # "refresh")
        BY <2>4, <3>1 DEF fetch, open, taken, profiled
      <3> QED BY <1>1, <1>9, <3>1, <3>2 DEF Agree, Timed, Doing
    <2>5. CASE status.what # "proactive" /\ ins = "terminal_response"
      <3>1. Doing(phone, "body", "terminal_response") /\ phone.profiled
        BY <1>7, <2>1, <2>5 DEF Agree, Doing
      <3>2. fetch = phone.fetch /\ open = "none" /\ taken = "none" /\ profiled
            /\ menu = (phone.menu \/ of = "menu")
        BY <2>5, <3>1 DEF fetch, open, taken, profiled, menu
      <3>3. card.timer => /\ of = "refresh" /\ ~card.ready /\ ~card.fetched
                          /\ ~(phone.menu /\ Left)
        BY <2>1, <3>1 DEF Timed
      <3>4. phone.fetch # "none" => card.ready /\ card.profiled
                                    /\ card.proactive = phone.fetch
        BY <2>1, <3>1 DEF Agree, Doing
      <3> QED BY <1>1, <1>9, <1>10, <3>2, <3>3, <3>4 DEF Agree, Timed, Doing
    <2>6. CASE status.what # "proactive" /\ ins \notin {"fetch", "terminal_response"}
      <3>1. /\ fetch = phone.fetch /\ open = phone.open /\ menu = phone.menu
            /\ profiled = (phone.profiled \/ ins = "profile")
        BY <2>2, <2>6 DEF fetch, open, taken, profiled, menu
      <3>2. Agree(card', phone')
        BY <1>1, <1>9, <2>1, <2>6, <3>1 DEF Agree, Doing
      <3>3. Timed(card', phone', Left')
        BY <1>1, <1>9, <1>10, <2>1, <3>1 DEF Timed, Doing
      <3> QED BY <3>2, <3>3
    <2> QED BY <2>3, <2>4, <2>5, <2>6
  <1>12. /\ \A n \in DOMAIN simi'.rx : Announces(simi'.rx[n], card', phone')
         /\ \A n \in DOMAIN phone'.got : Announces(phone'.got[n], card', phone')
    <2>1. DOMAIN <<>> = {}
      OBVIOUS
    <2> QED BY <1>1, <1>2, <1>9, <2>1
  <1> QED BY <1>10, <1>11, <1>12 DEF InStep

LEMMA InitInStep == SimInit => InStep
  <1> SUFFICES ASSUME SimInit PROVE InStep
    OBVIOUS
  <1>1. 0 \in Turn
    BY SimCardAssumption DEF Turn
  <1>2. phone.state = "off" /\ phone.command.ins = "status"
    BY <1>1, OffCommand DEF SimInit
  <1>3. ~card.ready /\ ~card.fetched /\ ~card.profiled /\ card.proactive = "none"
    BY DEF SimInit, NewCard
  <1> QED BY <1>2, <1>3 DEF InStep, CardInStep, Sending, Doing, Live, On

LEMMA StepInStep ==
    ASSUME SimInv, InStep, ToolkitOnly, [SimNext]_simVars
    PROVE  InStep'
  <1>1. CASE UNCHANGED simVars
    BY <1>1 DEF simVars, InStep, CardInStep, Sending, Agree, Timed, Announces, Doing,
                Left, Live, On
  <1>2. CASE RxReady \/ TakeFiq6 \/ Gate \/ Ungate
    BY <1>2, MovedInStep
  <1>3. CASE HandleFiq6
    <2>1. CASE "tx" \in phone.cause /\ phone.chunks # <<>>
      BY <1>3, <2>1, ChunkHeard, BodyInStep
    <2>2. CASE ~("tx" \in phone.cause /\ phone.chunks # <<>>)
      BY <1>3, <2>2, ReadInStep
    <2> QED BY <2>1, <2>2
  <1>4. CASE RemoveCard \/ MachineReset \/ TakeFiq7 \/ InsertCard
    BY <1>4, DownSteps
  <1>5. CASE ToolkitTimer
    BY <1>5, TimerInStep
  <1>6. CASE Activate
    BY <1>6, ActivateInStep
  <1>7. CASE SelectParameters
    BY <1>7, SelectInStep
  <1>8. CASE Issue
    BY <1>8, IssueInStep
  <1>9. CASE SendBody
    BY <1>9, SendBodyHeard, BodyInStep
  <1>10. CASE Conclude
    BY <1>10, ConcludeInStep
  <1> QED BY <1>1, <1>2, <1>3, <1>4, <1>5, <1>6, <1>7, <1>8, <1>9, <1>10
          DEF SimNext, Interrupts, Task, Faults

\* One proactive command at a time, and the handset can fetch whatever the card
\* announced to it, whatever is pulled out, reset or gated in between: as long
\* as the commands of the toolkit are those the card asked for, and a menu that
\* refreshes has that item alone and is used once.
THEOREM ToolkitInStep ==
    ASSUME ToolkitOnly
    PROVE  SimSpec => []ProactiveInStep
  <1>1. ASSUME SimInv, InStep PROVE ProactiveInStep
    <2>1. CASE Live
      BY <1>1, <2>1 DEF InStep, CardInStep, Announces, ProactiveInStep
    <2>2. CASE ~On
      BY <1>1, <2>2 DEF InStep, CardInStep, Sending, On, ProactiveInStep
    <2>3. CASE On /\ ~simi.present
      <3>1. simi.rx = <<>> /\ DOMAIN <<>> = {}
        BY <1>1, <2>3 DEF SimInv, Socket
      <3> QED BY <1>1, <3>1 DEF InStep, CardInStep, ProactiveInStep
    <2> QED BY <2>1, <2>2, <2>3 DEF Live
  <1>2. SimInv /\ InStep => ProactiveInStep
    BY <1>1
  <1>3. SimInv /\ InStep /\ [SimNext]_simVars => InStep'
    BY StepInStep
  <1> QED BY SimInductive, InitInStep, <1>2, <1>3, PTL DEF SimSpec
==============================================================================
