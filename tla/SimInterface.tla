----------------------------- MODULE SimInterface -----------------------------
(***************************************************************************)
(* nokia_simi.cpp, the SIM interface of MAD2, between the card (SimCard)   *)
(* and the handset's firmware: registers and the one character timer that  *)
(* announces an empty transmitter and each received byte.                  *)
(*                                                                         *)
(* The firmware is external: task 21 and the handlers of FIQ6 and FIQ7, as *)
(* docs/sim_subsystem.md has them from the ROMs.  It writes a chunk, waits *)
(* for its TX-empty, and only then takes the card's answer.                *)
(***************************************************************************)
EXTENDS SimCard, FiniteSets

CONSTANTS
    RxSize,     \* std::size(m_rx_fifo)
    Scenarios

\* commands: those the handset may issue; enabled and pin: CHV1 in the card's
\* NVRAM; and bounds on the faults, the clock gatings and the menu selections
ASSUME SimInterfaceAssumption ==
    /\ RxSize \in Nat /\ RxSize >= 3
    /\ \A s \in Scenarios :
         /\ s.commands \subseteq SimCommand /\ s.enabled \in BOOLEAN /\ s.pin \in Pins
         /\ s.faults \subseteq {"removal", "reset"}
         /\ {s.breaks, s.gates, s.selections} \subseteq Nat

VARIABLES
    simi,       \* the registers of nokia_simi_device, its queue and its timer
    card,       \* nokia_sim_card_device
    fiq,        \* MAD2's latched FIQ lines: 6, the interface, and 7, the socket
    phone,      \* the firmware
    past,       \* history: what was presented to the card, and the bounds' counts
    scenario

simVars == <<simi, card, fiq, phone, past, scenario>>

Causes == {"tx", "rx"}

SimiInit ==
    simi = [present |-> TRUE, clock |-> FALSE, active |-> FALSE, rx |-> <<>>,
            ready |-> FALSE, iir |-> {}, tx_pending |-> FALSE, timer |-> FALSE]

ClearTransfer(s) ==
    [s EXCEPT !.rx = <<>>, !.ready = FALSE, !.iir = {}, !.tx_pending = FALSE]

\* Mutant of ScheduleCardBytes: an answer leaves TX-empty to a later chunk.
AnswersAtOnce(s, complete, added) ==
    IF added THEN [s EXCEPT !.ready = FALSE, !.tx_pending = FALSE, !.timer = TRUE]
    ELSE IF complete /\ ~s.tx_pending
    THEN [s EXCEPT !.tx_pending = TRUE, !.timer = TRUE]
    ELSE s

\* schedule_card_bytes
ScheduleCardBytes(s, complete, added) ==
    IF added
    THEN [s EXCEPT !.ready = FALSE, !.tx_pending = complete,
                   !.timer = @ \/ complete \/ s.rx # <<>>]
    ELSE IF complete /\ ~s.tx_pending
    THEN [s EXCEPT !.tx_pending = TRUE, !.timer = TRUE]
    ELSE s

\* control_w: only a rising bit 7 with the clock running activates.
Activates(s, active) == s.clock /\ active /\ ~s.active
ControlWrite(s, active, atr) ==
    LET set == [s EXCEPT !.active = active]
        cleared == [ClearTransfer(set) EXCEPT !.rx = @ \o IF s.present THEN atr ELSE <<>>]
    IN  IF Activates(s, active) THEN ScheduleCardBytes(cleared, FALSE, s.present)
        ELSE set

\* Mutant of SetClock: the timer of what was pending is not started again.
ForgetsPending(s, enabled) ==
    [s EXCEPT !.clock = enabled, !.timer = enabled /\ s.tx_pending]

\* set_clock_enabled
SetClock(s, enabled) ==
    [s EXCEPT !.clock = enabled,
              !.timer = enabled /\ (s.tx_pending \/ (~s.ready /\ s.rx # <<>>))]
\* The TXD writes of a chunk between tx_fifo_control_w(4) and (0), and what the
\* card answers to them.
Flush(s, c, chunk) ==
    LET heard == IF s.present THEN Receive(c, chunk) ELSE Says(c, <<>>)
        queued == SubSeq(s.rx \o heard.bytes, 1,
                         IF Len(s.rx \o heard.bytes) < RxSize
                         THEN Len(s.rx \o heard.bytes) ELSE RxSize)
    IN  IF ~s.clock \/ ~s.active THEN [simi |-> s, card |-> c, bytes |-> <<>>]
        ELSE [simi |-> ScheduleCardBytes([s EXCEPT !.rx = queued], TRUE, queued # s.rx),
              card |-> heard.card, bytes |-> heard.bytes]

\* Mutant of ReadRxd: the character read stays announced.
KeepsReady(s) == [s EXCEPT !.rx = Tail(@), !.timer = Len(s.rx) > 1]

\* rxd_r
ReadRxd(s) ==
    [s EXCEPT !.rx = Tail(@), !.ready = FALSE, !.timer = Len(s.rx) > 1]
------------------------------------------------------------------------------
(* The handset *)

PhoneOff(turn) ==
    [state |-> "off", chunks |-> <<>>, tx_done |-> TRUE, cause |-> {},
     got |-> <<>>, turn |-> turn,
     command |-> CHOOSE m \in SimCommand : m.ins = "status",
     fetch |-> "none", open |-> "none", menu |-> FALSE, profiled |-> FALSE]

Plain(ins) == [(CHOOSE m \in SimCommand : m.ins = "status") EXCEPT !.ins = ins]
Naming(ins, of) == [Plain(ins) EXCEPT !.of = of]

Later(turn) == (turn + 1) % Turns

\* A body of more than sixteen bytes is written in several chunks.
Body(m, turn) ==
    IF m.ins = "update"
    THEN <<Chunk("body", m, FALSE, turn), Chunk("body", m, TRUE, turn)>>
    ELSE <<Chunk("body", m, TRUE, turn)>>

\* What the toolkit has the handset do: its profile once, and again when it is
\* told to refresh; a proactive command fetched, then reported; an item of the
\* menu chosen.
MaySelect ==
    /\ phone.menu /\ phone.fetch = "none" /\ phone.open = "none"
    /\ past.selections < scenario.selections
ToolkitCommands ==
    {Plain(ins) : ins \in (IF HasToolkit /\ ~phone.profiled THEN {"profile"} ELSE {})
                          \cup (IF MaySelect THEN {"envelope"} ELSE {})}
    \cup {Naming("fetch", of) : of \in {phone.fetch} \ {"none"}}
    \cup {Naming("terminal_response", of) :
            of \in {phone.open} \ (IF phone.profiled THEN {"none"} ELSE {"none", "refresh"})}

\* What the card was given, whatever becomes of its answer.
Counts(c) == [i \in Chv |-> c]
PastInit ==
    past = [earned |-> {}, refused |-> Counts(0), unblock_refused |-> Counts(0),
            breaks |-> 0, gates |-> 0, selections |-> 0]
Capped(n, cap) == IF n < cap THEN n ELSE cap
Accepted(byte) == byte.what \in {"ok", "proactive"}
Refused(byte) == byte.what \in {"denied", "blocked"}
Witness(p, chunk, bytes) ==
    LET m == chunk.command
        answer == IF bytes = <<>> THEN Byte(0, 0, "none", "none") ELSE bytes[Len(bytes)]
    IN  IF chunk.part # "body" \/ m.ins \notin ChvCommands THEN p
        ELSE IF Accepted(answer)
        THEN [p EXCEPT !.earned = @ \cup {m.chv}, !.refused[m.chv] = 0,
                       !.unblock_refused[m.chv] = IF m.ins = "unblock" THEN 0 ELSE @]
        ELSE IF Refused(answer) /\ m.ins = "unblock"
        THEN [p EXCEPT !.unblock_refused[m.chv] = Capped(@ + 1, UnblockAttempts)]
        ELSE IF Refused(answer)
        THEN [p EXCEPT !.earned = @ \ {m.chv},
                       !.refused[m.chv] = Capped(@ + 1, ChvAttempts)]
        ELSE p
==============================================================================
