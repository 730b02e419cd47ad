SPECIFICATION LiveLoopSpec
CONSTANTS
  Scenarios <- LoopbackScenarios
  MaxRequestId = 2
  Deadline = 2
  QueueLimit = 4
  FrameDepth = 2
  MaxEpoch = 2
  MaxEvents = 1
INVARIANT EchoesInStep
PROPERTY RequestsAreAnswered
CHECK_DEADLOCK FALSE
