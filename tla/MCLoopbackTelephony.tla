------------------------- MODULE MCLoopbackTelephony -------------------------
(***************************************************************************)
(* The loopback bridge with the adapter, for TLC: the scenarios of its     *)
(* runs.                                                                   *)
(***************************************************************************)
EXTENDS LoopbackTelephony

Quiet == [originations |-> {}, forwardings |-> {}, second_calls |-> FALSE,
          faults |-> {"disconnect"}, frames |-> 0, requests |-> 1,
          ingress |-> "none", hangs_up |-> FALSE]
Calling == [Quiet EXCEPT !.originations = {"call"}]
Called == [Quiet EXCEPT !.ingress = "incoming_call"]

LoopbackScenarios ==
    {[Quiet EXCEPT !.originations = {"sms", "ussd"},
                   !.faults = {"disconnect", "restore"}],
     [Calling EXCEPT !.faults = {"restore"}],
     [Calling EXCEPT !.frames = 2],
     [Called EXCEPT !.frames = 2, !.hangs_up = TRUE]}

ResendScenarios == {Called}
DirectionScenarios ==
    {[Calling EXCEPT !.faults = {}, !.ingress = "incoming_call",
                     !.hangs_up = TRUE]}
==============================================================================
