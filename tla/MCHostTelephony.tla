--------------------------- MODULE MCHostTelephony ---------------------------
(***************************************************************************)
(* The SIP bridge with the adapter, for TLC: the scenarios of its runs.    *)
(***************************************************************************)
EXTENDS HostTelephony

Quiet == [originations |-> {}, forwardings |-> {}, second_calls |-> FALSE,
          faults |-> {}, frames |-> 0, requests |-> 1,
          destinations |-> {"answers", "fails"}, callers |-> {"numbered"},
          calls |-> 0, speech |-> 0]
Dialling == [Quiet EXCEPT !.originations = {"call"}]
Called == [Quiet EXCEPT !.calls = 1]
Collision == [Dialling EXCEPT !.callers = {"numbered", "anonymous"}, !.calls = 1]

RestoreScenario ==
    [Dialling EXCEPT !.faults = {"restore"}, !.destinations = {"answers"}]
RestartScenario ==
    [Dialling EXCEPT !.faults = {"disconnect", "link"},
                     !.destinations = {"answers", "busy", "fails"}]
IncomingScenario == [Quiet EXCEPT !.calls = 2]
IncomingSpeech == [Called EXCEPT !.speech = 1, !.frames = 1]
SpeechScenario == [RestoreScenario EXCEPT !.speech = 1]

ServiceScenarios == {RestoreScenario, RestartScenario, IncomingScenario, IncomingSpeech}
DialogScenarios ==
    {SpeechScenario, Collision, [Dialling EXCEPT !.requests = 2]}
CrossingScenarios == {Collision}
CrashScenarios == {Called}
ForwardedScenarios == {[Called EXCEPT !.forwardings = {"unconditional"}]}
RestoredPageScenarios == {[Called EXCEPT !.faults = {"restore"}]}
==============================================================================
