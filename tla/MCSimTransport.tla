--------------------------- MODULE MCSimTransport ---------------------------
(***************************************************************************)
(* The SIM interface, the card and the handset, for TLC: what the handset  *)
(* may issue, and what may happen to it, in each scenario.                 *)
(***************************************************************************)
EXTENDS SimTransport

CONSTANTS p, q   \* values of a CHV

TheChain == <<"text", "inkey", "input", "menu">>
Refresh == <<"refresh">>

PlainCommands(instructions) ==
    {m \in SimCommand : /\ m.ins \in instructions /\ m.chv = 1 /\ m.secret = p
                        /\ m.new = p /\ m.of = "none"}
Presents(instructions, secrets) ==
    {m \in SimCommand : /\ m.ins \in instructions /\ m.chv = 1 /\ m.secret \in secrets
                        /\ m.new = q /\ m.of = "none"}

Quiet == [commands |-> {}, enabled |-> FALSE, pin |-> p, faults |-> {},
          breaks |-> 0, gates |-> 0, selections |-> 0]

SecretScenario ==
    [Quiet EXCEPT !.commands = PlainCommands({"read"})
                     \cup Presents({"enable"}, {p, q})
                     \cup Presents({"verify", "change", "disable"}, {p})
                     \cup Presents({"unblock"}, {p, Puk}),
                  !.faults = {"removal"}, !.breaks = 1]
TransportScenario ==
    [Quiet EXCEPT !.commands = PlainCommands({"select", "get_response", "authenticate",
                                              "status", "update"}),
                  !.faults = {"removal", "reset"}, !.breaks = 2, !.gates = 2]
ToolkitScenario ==
    [Quiet EXCEPT !.commands = PlainCommands({"status"}), !.selections = 1,
                  !.faults = {"reset"}, !.breaks = 1]

SimScenarios == {SecretScenario, TransportScenario, ToolkitScenario}
RefreshScenarios == {[ToolkitScenario EXCEPT !.selections = 2]}
==============================================================================
