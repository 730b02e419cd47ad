------------------------------- MODULE SimCard -------------------------------
(***************************************************************************)
(* nokia_sim_card.cpp, the card: its T=0 commands, the CHVs and their      *)
(* retry counters, the response kept for GET RESPONSE, and the SIM toolkit *)
(* session.  The bytes of a command are those the handset's transmit FIFO  *)
(* carries at a time (a chunk): a header, or a part of a body.  Files are  *)
(* one elementary file under CHV1; the rest of the file system is not      *)
(* modelled.                                                               *)
(***************************************************************************)
EXTENDS Integers, Sequences

CONSTANTS
    Pins,           \* the values of a CHV
    Puk,            \* the value that unblocks one
    ChvAttempts,    \* 3
    UnblockAttempts,\* 10
    Chain,          \* toolkit_profile: the commands issued one after another,
    Selection,      \* and those issued when menu item 1 is selected
    Turns           \* bound: transactions told apart before the count wraps

ASSUME SimCardAssumption ==
    /\ Puk \notin Pins /\ Pins # {}
    /\ ChvAttempts \in Nat \ {0} /\ UnblockAttempts \in Nat \ {0}
    /\ Chain \in {SubSeq(<<"text", "inkey", "input", "menu">>, 1, n) : n \in 0 .. 4}
    /\ Selection \in Seq(STRING) /\ (Selection # <<>> => Len(Chain) = 4)
    /\ Turns \in Nat \ {0, 1}

Chv == {1, 2}
Secret == Pins \cup {Puk}
Proactive ==
    {"none"} \cup {Chain[n] : n \in DOMAIN Chain}
             \cup {Selection[n] : n \in DOMAIN Selection}

ChvCommands == {"verify", "change", "disable", "enable", "unblock"}
WithBody ==
    ChvCommands \cup {"select", "authenticate", "update",
                      "profile", "terminal_response", "envelope"}
Instructions ==
    WithBody \cup {"get_response", "status", "read", "fetch"}

\* A command as the handset issues it.  secret and new are the CHV values of
\* its body, of the proactive command that FETCH asks for, by its length, or
\* that TERMINAL RESPONSE names.
SimCommand ==
    [ins : Instructions, chv : Chv, secret : Secret, new : Pins, of : Proactive]

\* One write of the transmit FIFO; turn numbers the handset's transactions,
\* for the properties.
Chunk(part, command, last, turn) ==
    [part |-> part, command |-> command, last |-> last, turn |-> turn]

\* A byte of a response, or a group of bytes: to which transaction it was said,
\* to which one it was owed, and the command a status of 91xx advertises.
Byte(turn, owed, what, of) ==
    [turn |-> turn, owed |-> owed, what |-> what, of |-> of]
Statuses ==
    {"ok", "proactive", "result", "denied", "blocked", "unneeded", "refused"}

NothingOwed == -1

\* A card as nvram_default leaves it, or with the CHV1 an NVRAM file enables.
NewCard(enabled, pin) ==
    [pts |-> TRUE, receiving |-> FALSE, ins |-> "none",
     fcp |-> NothingOwed, pending |-> NothingOwed,
     chv |-> [i \in Chv |-> pin], attempts |-> [i \in Chv |-> ChvAttempts],
     unblocks |-> [i \in Chv |-> UnblockAttempts],
     enabled |-> enabled, verified |-> {},
     profiled |-> FALSE, proactive |-> "none", ready |-> FALSE,
     fetched |-> FALSE, timer |-> FALSE]

\* reset_session_state.  The MF is selected, and may be asked for.
ResetSession(c, turn) ==
    [c EXCEPT !.pts = TRUE, !.receiving = FALSE, !.fcp = turn,
              !.pending = NothingOwed, !.verified = {},
              !.profiled = FALSE, !.proactive = "none", !.ready = FALSE,
              !.fetched = FALSE, !.timer = FALSE]
ResetCard(c, turn) == [ResetSession(c, turn) EXCEPT !.ins = "none"]

------------------------------------------------------------------------------
(* Responses *)

Says(c, bytes) == [card |-> c, bytes |-> bytes]

\* queue_status: the completion of a command advertises a proactive command.
Advertises(c) == c.profiled /\ c.ready
Status(c, turn, sw) ==
    IF sw = "ok" /\ Advertises(c) /\ c.ins \notin {"profile", "fetch"}
    THEN Byte(turn, turn, "proactive", c.proactive)
    ELSE Byte(turn, turn, sw, "none")
Replies(c, turn, sw) == Says(c, <<Status(c, turn, sw)>>)

\* The procedure byte, the data and append_completion_status.
Outgoing(c, turn, owed, of) ==
    Says(c, <<Byte(turn, turn, "ack", "none"), Byte(turn, owed, "data", of),
              IF Advertises(c) THEN Byte(turn, turn, "proactive", c.proactive)
                               ELSE Byte(turn, turn, "ok", "none")>>)

------------------------------------------------------------------------------
(* CHVs *)

\* Mutant of Authorized: a disabled CHV1 authorizes although it is blocked.
DisabledAuthorizes(c) == ~c.enabled \/ 1 \in c.verified

\* chv1_authorized
Authorized(c) == c.attempts[1] # 0 /\ (~c.enabled \/ 1 \in c.verified)

Less(n) == IF n = 0 THEN 0 ELSE n - 1

\* chv_failure
ChvFailure(c, i, turn) ==
    LET left == Less(c.attempts[i])
    IN  Replies([c EXCEPT !.attempts[i] = left, !.verified = @ \ {i}], turn,
                IF left = 0 THEN "blocked" ELSE "denied")

UnblockFailure(c, i, turn) ==
    LET left == Less(c.unblocks[i])
    IN  Replies([c EXCEPT !.unblocks[i] = left], turn,
                IF left = 0 THEN "blocked" ELSE "denied")

Unblock(c, m, turn) ==
    LET i == m.chv IN
    IF c.unblocks[i] = 0 THEN Replies(c, turn, "blocked")
    ELSE IF m.secret # Puk THEN UnblockFailure(c, i, turn)
    ELSE Replies([c EXCEPT !.chv[i] = m.new, !.unblocks[i] = UnblockAttempts,
                           !.attempts[i] = ChvAttempts,
                           !.verified = @ \cup {i},
                           !.enabled = @ \/ i = 1], turn, "ok")

\* VERIFY and CHANGE, which a disabled CHV1 does not take.
VerifyOrChange(c, m, turn) ==
    LET i == m.chv IN
    IF i = 1 /\ ~c.enabled THEN Replies(c, turn, "unneeded")
    ELSE IF m.secret # c.chv[i] THEN ChvFailure(c, i, turn)
    ELSE Replies([c EXCEPT !.chv[i] = IF c.ins = "change" THEN m.new ELSE @,
                           !.attempts[i] = ChvAttempts,
                           !.verified = @ \cup {i}], turn, "ok")

EnableOrDisable(c, m, turn) ==
    LET enabling == c.ins = "enable" IN
    IF m.chv # 1 THEN Replies(c, turn, "refused")
    ELSE IF enabling = c.enabled THEN Replies(c, turn, "unneeded")
    ELSE IF m.secret # c.chv[1] THEN ChvFailure(c, 1, turn)
    ELSE Replies([c EXCEPT !.attempts[1] = ChvAttempts, !.enabled = enabling,
                           !.verified = IF enabling THEN @ \ {1} ELSE @ \cup {1}],
                 turn, "ok")

ProcessChv(c, m, turn) ==
    IF c.ins = "unblock" THEN Unblock(c, m, turn)
    ELSE IF c.attempts[m.chv] = 0 THEN Replies(c, turn, "blocked")
    ELSE IF c.ins \in {"verify", "change"} THEN VerifyOrChange(c, m, turn)
    ELSE EnableOrDisable(c, m, turn)

------------------------------------------------------------------------------
(* The toolkit session *)

HasToolkit == Chain # <<>>

AcceptTerminalProfile(c, turn) ==
    LET refreshing == c.fetched /\ c.proactive = "refresh"
        profiled == [c EXCEPT !.profiled = TRUE]
    IN  IF ~HasToolkit THEN Replies(c, turn, "refused")
        ELSE IF refreshing THEN Replies(profiled, turn, "ok")
        ELSE Replies([profiled EXCEPT !.ready = FALSE, !.fetched = FALSE,
                        !.proactive = "text", !.timer = TRUE], turn, "ok")

\* Mutant of ToolkitCommandReady: readiness is published without its command.
ReadyWithoutCommand(c) ==
    [c EXCEPT !.timer = FALSE,
              !.ready = @ \/ (HasToolkit /\ c.profiled /\ ~c.fetched)]

\* toolkit_command_ready
ToolkitCommandReady(c) ==
    IF ~HasToolkit \/ ~c.profiled \/ c.fetched THEN [c EXCEPT !.timer = FALSE]
    ELSE [c EXCEPT !.timer = FALSE, !.proactive = "text", !.ready = TRUE]
\* queue_proactive_command; a proactive command stands for its length.
Fetch(c, m, turn) ==
    IF ~HasToolkit \/ ~c.profiled \/ ~c.ready \/ m.of = "none" \/ m.of # c.proactive
    THEN Replies(c, turn, "refused")
    ELSE Outgoing([c EXCEPT !.ready = FALSE, !.fetched = TRUE], turn, turn, c.proactive)

Successor(commands, command) ==
    IF \E n \in 1 .. Len(commands) - 1 : commands[n] = command
    THEN commands[1 + CHOOSE n \in 1 .. Len(commands) - 1 : commands[n] = command]
    ELSE "none"
Follows(command) ==
    IF Successor(Chain, command) # "none" THEN Successor(Chain, command)
    ELSE Successor(Selection, command)

AcceptTerminalResponse(c, m, turn) ==
    LET next == Follows(c.proactive) IN
    IF ~HasToolkit \/ ~c.profiled \/ ~c.fetched \/ m.of # c.proactive
    THEN Replies(c, turn, "refused")
    ELSE Replies([c EXCEPT !.fetched = FALSE, !.proactive = next,
                           !.ready = next # "none",
                           !.timer = @ \/ c.proactive = "refresh"], turn, "ok")

\* accept_envelope, for menu item 1 where the profile has something for it.
AcceptEnvelope(c, turn) ==
    IF Len(Chain) < 4 \/ c.proactive # "none" THEN Replies(c, turn, "refused")
    ELSE IF Selection = <<>> THEN Replies(c, turn, "ok")
    ELSE Replies([c EXCEPT !.proactive = Head(Selection), !.ready = TRUE], turn, "ok")

------------------------------------------------------------------------------
(* The T=0 parser *)

FinishBody(c, m, turn) ==
    LET idle == [c EXCEPT !.receiving = FALSE] IN
    CASE c.ins \in ChvCommands -> ProcessChv(idle, m, turn)
      [] c.ins = "profile" -> AcceptTerminalProfile(idle, turn)
      [] c.ins = "terminal_response" -> AcceptTerminalResponse(idle, m, turn)
      [] c.ins = "envelope" -> AcceptEnvelope(idle, turn)
      [] c.ins = "select" -> Replies([idle EXCEPT !.fcp = turn], turn, "result")
      [] c.ins = "authenticate" ->
           IF Authorized(c) THEN Replies([idle EXCEPT !.pending = turn], turn, "result")
           ELSE Replies(idle, turn, "denied")
      [] c.ins = "update" ->
           Replies(idle, turn, IF Authorized(c) THEN "ok" ELSE "denied")

\* What GET RESPONSE answers: the response of the command before it, or the
\* directory that one selected.
GetResponse(c, turn) ==
    IF c.pending # NothingOwed
    THEN Outgoing([c EXCEPT !.pending = NothingOwed], turn, c.pending, "none")
    ELSE IF c.fcp # NothingOwed
    THEN Outgoing([c EXCEPT !.fcp = NothingOwed], turn, c.fcp, "none")
    ELSE Replies(c, turn, "refused")

\* Any other command ends what was kept for GET RESPONSE.
TakeHeader(c, ins) ==
    IF ins = "get_response" THEN [c EXCEPT !.pts = FALSE, !.ins = ins]
    ELSE [c EXCEPT !.pts = FALSE, !.ins = ins,
                   !.pending = NothingOwed, !.fcp = NothingOwed]
FinishHeader(c, m, turn) ==
    LET taken == TakeHeader(c, m.ins) IN
    IF m.ins \in WithBody
    THEN Says([taken EXCEPT !.receiving = TRUE], <<Byte(turn, turn, "ack", "none")>>)
    ELSE CASE m.ins = "get_response" -> GetResponse(taken, turn)
           [] m.ins = "fetch" -> Fetch(taken, m, turn)
           [] m.ins = "status" -> Outgoing(taken, turn, turn, "none")
           [] m.ins = "read" ->
                IF Authorized(c) THEN Outgoing(taken, turn, turn, "none")
                ELSE Replies(taken, turn, "denied")

\* rx_w, for the bytes of a chunk.  A parameter selection is taken before the
\* first command only, and is answered with the default parameters.
Receive(c, chunk) ==
    IF c.receiving
    THEN IF chunk.last THEN FinishBody(c, chunk.command, chunk.turn) ELSE Says(c, <<>>)
    ELSE IF chunk.part = "pts"
    THEN Says([c EXCEPT !.pts = FALSE], <<Byte(chunk.turn, chunk.turn, "pts", "none")>>)
    ELSE FinishHeader(c, chunk.command, chunk.turn)

Atr(turn) == <<Byte(turn, turn, "atr", "none"), Byte(turn, turn, "atr", "none")>>
==============================================================================
