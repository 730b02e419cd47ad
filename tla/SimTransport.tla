----------------------------- MODULE SimTransport -----------------------------
(***************************************************************************)
(* The SIM interface, the card and the handset at work: activation, the    *)
(* parameter selection, transactions of a header and a body, interrupts    *)
(* taken between any two of these, the clock gated, the card pulled out    *)
(* and the machine reset at any moment.                                    *)
(***************************************************************************)
EXTENDS SimInterface

SimInit ==
    /\ SimiInit /\ fiq = {} /\ phone = PhoneOff(0) /\ PastInit
    /\ scenario \in Scenarios
    /\ card = NewCard(scenario.enabled, scenario.pin)

------------------------------------------------------------------------------
(* Devices *)

\* rx_ready: the character timer.  TX-empty comes first, what was received one
\* character later; with the clock stopped nothing comes.
RxReady ==
    /\ simi.timer
    /\ IF ~simi.clock
       THEN simi' = [simi EXCEPT !.timer = FALSE] /\ UNCHANGED fiq
       ELSE IF simi.tx_pending
       THEN /\ simi' = [simi EXCEPT !.tx_pending = FALSE, !.iir = @ \cup {"tx"}]
            /\ fiq' = fiq \cup {6}
       ELSE IF simi.rx # <<>>
       THEN /\ simi' = [simi EXCEPT !.ready = TRUE, !.iir = @ \cup {"rx"}, !.timer = FALSE]
            /\ fiq' = fiq \cup {6}
       ELSE simi' = [simi EXCEPT !.timer = FALSE] /\ UNCHANGED fiq
    /\ UNCHANGED <<card, phone, past, scenario>>

ToolkitTimer ==
    /\ card.timer
    /\ card' = ToolkitCommandReady(card)
    /\ UNCHANGED <<simi, fiq, phone, past, scenario>>

\* set_card_present: removal takes the bytes on the way with it.  No hand is so
\* quick that the card is back before FIQ7 was taken.
RemoveCard ==
    /\ "removal" \in scenario.faults /\ past.breaks < scenario.breaks
    /\ simi.present
    /\ simi' = [ClearTransfer(simi) EXCEPT !.present = FALSE, !.timer = FALSE]
    /\ card' = ResetSession(card, phone.turn)
    /\ fiq' = fiq \cup {7}
    /\ past' = [past EXCEPT !.breaks = @ + 1]
    /\ UNCHANGED <<phone, scenario>>
InsertCard ==
    /\ ~simi.present /\ 7 \notin fiq
    /\ simi' = [simi EXCEPT !.present = TRUE]
    /\ fiq' = fiq \cup {7}
    /\ UNCHANGED <<card, phone, past, scenario>>

\* machine_reset: the card keeps its CHVs and their counters.
MachineReset ==
    /\ "reset" \in scenario.faults /\ past.breaks < scenario.breaks
    /\ simi' = [ClearTransfer(simi) EXCEPT !.timer = FALSE, !.clock = FALSE,
                                           !.active = FALSE]
    /\ card' = ResetCard(card, phone.turn)
    /\ fiq' = {}
    /\ phone' = PhoneOff(phone.turn)
    /\ past' = [past EXCEPT !.breaks = @ + 1]
    /\ UNCHANGED scenario

------------------------------------------------------------------------------
(* Interrupts.  The handler reads the causes once and writes them back.     *)

TakeFiq6 ==
    /\ 6 \in fiq /\ phone.cause = {}
    /\ fiq' = fiq \ {6}
    /\ phone' = [phone EXCEPT !.cause = simi.iir]
    /\ UNCHANGED <<simi, card, past, scenario>>

\* TX-empty writes the next chunk or ends the transmission; a received
\* character is read.
HandleFiq6 ==
    LET acknowledged == [simi EXCEPT !.iir = @ \ phone.cause]
        sends == "tx" \in phone.cause /\ phone.chunks # <<>>
        flushed == IF sends THEN Flush(acknowledged, card, Head(phone.chunks))
                   ELSE [simi |-> acknowledged, card |-> card, bytes |-> <<>>]
        reads == "rx" \in phone.cause /\ flushed.simi.ready /\ flushed.simi.rx # <<>>
    IN  /\ phone.cause # {}
        /\ simi' = IF reads THEN ReadRxd(flushed.simi) ELSE flushed.simi
        /\ card' = flushed.card
        /\ past' = IF sends THEN Witness(past, Head(phone.chunks), flushed.bytes) ELSE past
        /\ phone' = [phone EXCEPT
                       !.cause = {},
                       !.chunks = IF sends THEN Tail(@) ELSE @,
                       !.tx_done = @ \/ ("tx" \in phone.cause /\ ~sends),
                       !.got = IF reads THEN Append(@, Head(flushed.simi.rx)) ELSE @]
        /\ UNCHANGED <<fiq, scenario>>

\* FIQ7: whatever was under way is given up; the card is activated again if
\* there is one.
TakeFiq7 ==
    /\ 7 \in fiq /\ phone.cause = {}
    /\ fiq' = fiq \ {7}
    /\ phone' = PhoneOff(phone.turn)
    /\ UNCHANGED <<simi, card, past, scenario>>

------------------------------------------------------------------------------
(* Task 21 *)

Runs == phone.cause = {}
Sends(chunk, p) ==
    LET flushed == Flush(simi, card, chunk)
    IN  /\ simi' = flushed.simi /\ card' = flushed.card
        /\ past' = Witness(past, chunk, flushed.bytes)
        /\ phone' = [p EXCEPT !.got = <<>>, !.tx_done = FALSE]
        /\ UNCHANGED <<fiq, scenario>>

\* The firmware stops the clock while it waits, not between two chunks.
Gate ==
    /\ Runs /\ simi.clock /\ phone.chunks = <<>> /\ past.gates < scenario.gates
    /\ simi' = SetClock(simi, FALSE)
    /\ past' = [past EXCEPT !.gates = @ + 1]
    /\ UNCHANGED <<card, fiq, phone, scenario>>
Ungate ==
    /\ Runs /\ ~simi.clock
    /\ simi' = SetClock(simi, TRUE)
    /\ UNCHANGED <<card, fiq, phone, past, scenario>>

\* Activation writes the control register with bit 7 clear, then set.
Activate ==
    /\ Runs /\ phone.state = "off" /\ simi.present /\ simi.clock
    /\ LET turn == Later(phone.turn) IN
       /\ simi' = ControlWrite(ControlWrite(simi, FALSE, <<>>), TRUE, Atr(turn))
       /\ card' = ResetSession(card, turn)
       /\ phone' = [PhoneOff(turn) EXCEPT !.state = "atr"]
    /\ past' = [past EXCEPT !.earned = {}]
    /\ UNCHANGED <<fiq, scenario>>

Last(bytes) == bytes[Len(bytes)]
Answered ==
    /\ phone.tx_done /\ phone.got # <<>>
    /\ \/ Last(phone.got).what \in Statuses
       \/ Last(phone.got).what = "pts"
       \/ Last(phone.got).what = "atr" /\ Len(phone.got) = Len(Atr(phone.turn))
       \/ Last(phone.got).what = "ack" /\ phone.command.ins \in WithBody

SelectParameters ==
    /\ Runs /\ simi.clock /\ phone.state = "atr" /\ Answered
    /\ Sends(Chunk("pts", phone.command, TRUE, phone.turn),
             [phone EXCEPT !.state = "pts"])

Issue ==
    /\ Runs /\ simi.clock /\ phone.state = "ready"
    /\ \E m \in scenario.commands \cup ToolkitCommands :
         LET turn == Later(phone.turn)
             flushed == Flush(simi, card, Chunk("header", m, TRUE, turn))
         IN  /\ simi' = flushed.simi /\ card' = flushed.card
             /\ past' = [past EXCEPT !.selections =
                           IF m.ins = "envelope" THEN @ + 1 ELSE @]
             /\ phone' = [phone EXCEPT !.state = "header", !.command = m,
                            !.turn = turn, !.got = <<>>, !.tx_done = FALSE]
    /\ UNCHANGED <<fiq, scenario>>

SendBody ==
    /\ Runs /\ simi.clock /\ phone.state = "header" /\ Answered
    /\ Last(phone.got).what = "ack"
    /\ LET body == Body(phone.command, phone.turn)
       IN  Sends(Head(body), [phone EXCEPT !.state = "body", !.chunks = Tail(body)])

\* What an answer tells the handset of the toolkit.
Concluded(p, status) ==
    LET ins == p.command.ins
        accepted == status.what \in {"ok", "proactive"}
        fetched == IF ins = "fetch" /\ accepted THEN p.command.of ELSE "none"
    IN  [p EXCEPT
           !.state = "ready", !.got = <<>>,
           !.fetch = IF status.what = "proactive" THEN status.of
                     ELSE IF ins = "fetch" THEN "none" ELSE @,
           !.open = IF ins = "fetch" THEN fetched
                    ELSE IF ins = "terminal_response" THEN "none" ELSE @,
           !.menu = @ \/ (ins = "terminal_response" /\ p.command.of = "menu"),
           !.profiled = (@ \/ ins = "profile") /\ fetched # "refresh"]

Conclude ==
    /\ Runs /\ phone.state \in {"pts", "header", "body"} /\ Answered
    /\ Last(phone.got).what # "ack"
    /\ phone' = Concluded(phone, Last(phone.got))
    /\ UNCHANGED <<simi, card, fiq, past, scenario>>

Task == SelectParameters \/ SendBody \/ Conclude
Interrupts == TakeFiq6 \/ HandleFiq6 \/ TakeFiq7
Faults == RemoveCard \/ MachineReset \/ Gate
SimNext ==
    \/ RxReady \/ ToolkitTimer \/ InsertCard \/ Interrupts
    \/ Task \/ Issue \/ Activate \/ Ungate \/ Faults
SimSpec == SimInit /\ [][SimNext]_simVars

\* Timers fire, interrupts are taken, the firmware's task goes on with what it
\* began and lets the clock run again.
Responsive ==
    /\ WF_simVars(RxReady) /\ WF_simVars(Ungate)
    /\ WF_simVars(TakeFiq6) /\ WF_simVars(HandleFiq6) /\ WF_simVars(TakeFiq7)
    /\ WF_simVars(Task)
SimFairSpec == SimSpec /\ Responsive

------------------------------------------------------------------------------
(* Properties *)

SimTypeOK ==
    /\ simi \in [present : BOOLEAN, clock : BOOLEAN, active : BOOLEAN,
                 rx : Seq([turn : 0 .. Turns - 1, owed : 0 .. Turns - 1,
                           what : Statuses \cup {"ack", "data", "atr", "pts"},
                           of : Proactive]),
                 ready : BOOLEAN, iir : SUBSET Causes, tx_pending : BOOLEAN,
                 timer : BOOLEAN]
    /\ Len(simi.rx) <= RxSize /\ fiq \subseteq {6, 7}
    /\ simi.ready => simi.rx # <<>>
    /\ card.attempts \in [Chv -> 0 .. ChvAttempts]
    /\ card.unblocks \in [Chv -> 0 .. UnblockAttempts]
    /\ card.chv \in [Chv -> Pins] /\ card.verified \subseteq Chv
    /\ card.proactive \in Proactive
    /\ {card.pending, card.fcp} \subseteq {NothingOwed} \cup 0 .. Turns - 1

\* The handset hears that its chunk left the transmitter before it reads what
\* the card answered: with the answer alone it would wait for ever
\* (docs/sim_subsystem.md, Firmware transaction contract).  Whatever it reads
\* was said to the transaction it is in, and what GET RESPONSE brings was owed
\* by the command before: a removal, a reset, an activation or a command in
\* between leaves nothing of an earlier one.
TxEmptyComesFirst == phone.got # <<>> => phone.tx_done
AnswersOwnCommand ==
    phone.state # "off" =>
      \A bytes \in {simi.rx, phone.got} : \A n \in DOMAIN bytes :
        LET byte == bytes[n] IN
        /\ byte.turn = phone.turn
        /\ Later(byte.owed) = phone.turn
             <=> (byte.what = "data" /\ phone.command.ins = "get_response")
AnswersInTurn == TxEmptyComesFirst /\ AnswersOwnCommand

\* The file is read, written or authenticated with only after CHV1 was
\* presented in this activation, unless it is disabled, and never once it was
\* refused as often as the card allows, whatever was pulled out or reset
\* meanwhile; only the PUK lifts that, until it was refused too often itself.
FileIsOpen ==
    (card.enabled => 1 \in past.earned) /\ past.refused[1] < ChvAttempts
Releases(byte) ==
    phone.command.ins \in {"read", "update", "authenticate"}
    /\ byte.what \in {"data", "ok", "proactive", "result"}
SecretsGuardFile ==
    /\ [](phone.state \in {"header", "body"} =>
            \A n \in DOMAIN simi.rx : Releases(simi.rx[n]) => FileIsOpen)
    /\ [][\A i \in Chv :
            past.refused[i] = ChvAttempts /\ past'.refused[i] = 0 =>
              /\ phone.command.ins = "unblock" /\ phone.command.secret = Puk
              /\ past.unblock_refused[i] < UnblockAttempts]_past

\* One proactive command at a time: ready, with the command it announces, or
\* fetched; and the handset can fetch whatever was announced to it.
ProactiveInStep ==
    /\ ~(card.ready /\ card.fetched)
    /\ card.ready \/ card.fetched => card.proactive # "none"
    /\ phone.command.ins = "fetch" =>
         \A n \in DOMAIN simi.rx : simi.rx[n].what # "refused"

\* A transaction ends, unless the card is taken away or the machine reset:
\* every chunk's TX-empty and every character reach the handset although the
\* clock stops in between and interrupts come late.
CommandsAreAnswered ==
    phone.state \notin {"off", "ready"} ~> phone.state \in {"off", "ready"}
==============================================================================
