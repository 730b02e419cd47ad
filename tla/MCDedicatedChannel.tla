------------------------- MODULE MCDedicatedChannel -------------------------
(***************************************************************************)
(* Scenarios of a dedicated channel: a script for each end, how the        *)
(* handset acknowledges, and what may be lost.                             *)
(***************************************************************************)
EXTENDS DedicatedChannel

Message(kind, sapi, length) ==
    [kind |-> kind, sapi |-> sapi, length |-> length, after |-> 0]
\* A message that answers the n-th of the handset.
Answering(n, message) == [message EXCEPT !.after = n]
Information(length) == Message("information", 0, length)
Sapi3Information(length) == Message("information", 1, length)
ChannelRelease == Message("channel_release", 0, 1)

Plain ==
    [registration |-> FALSE, mobile_sapi3 |-> FALSE, disconnects |-> FALSE,
     slow |-> FALSE, loses |-> {}, losses |-> 0, connections |-> 1,
     up |-> <<Information(1), Information(1)>>,
     down |-> <<Information(2), ChannelRelease>>]

Call ==
    [Plain EXCEPT !.down = <<Message("incoming_call_setup", 0, 2),
                             Message("call_disconnect", 0, 1),
                             ChannelRelease>>,
                  !.loses = {"I"}, !.losses = 1]
Traffic ==
    [Plain EXCEPT !.down = <<Message("assignment_command", 0, 1),
                             Information(1), ChannelRelease>>,
                  !.slow = TRUE]
Registration ==
    [Plain EXCEPT !.registration = TRUE, !.up = <<Information(1)>>,
                  !.down = <<Message("location_update_accept", 0, 1),
                             ChannelRelease>>,
                  !.loses = {"I"}, !.losses = 1, !.connections = 2]
Submission ==
    [Plain EXCEPT !.mobile_sapi3 = TRUE,
                  !.up = <<Information(1), Sapi3Information(2)>>,
                  !.down = <<Message("cm_service_accept", 0, 1),
                             Answering(2, Sapi3Information(1)),
                             ChannelRelease>>]
Hangup ==
    [Plain EXCEPT !.down = <<Information(1), ChannelRelease>>,
                  !.disconnects = TRUE]
Arrival ==
    [Plain EXCEPT !.up = <<Information(1), Sapi3Information(1)>>,
                  !.down = <<Sapi3Information(2), ChannelRelease>>]

MCSegment == (0 .. 3) \X (0 .. 2)

TrafficScenarios == {Traffic}
DeliveryScenarios ==
    {Call, Traffic, Registration, Submission, Arrival, Hangup}
ReplayScenarios == {Registration}
SegmentScenarios == {[Plain EXCEPT !.up = <<Information(1), Information(2)>>]}
ReconnectionScenarios ==
    {[Plain EXCEPT !.loses = {"I"}, !.losses = 2, !.connections = 2]}
LostUaScenarios == {[Plain EXCEPT !.loses = {"UA"}, !.losses = 1]}
AuthenticationScenarios ==
    {[Registration EXCEPT !.up = <<Information(1), Information(1)>>,
                          !.down = <<Message("authentication_request", 0, 1)>> \o @,
                          !.losses = 0]}
=============================================================================
