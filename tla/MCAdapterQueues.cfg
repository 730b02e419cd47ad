SPECIFICATION LiveSpec
CONSTANTS
  Scenarios <- QueueScenarios
  MaxRequestId = 2
  Deadline = 2
  QueueLimit = 2
  FrameDepth = 1
  MaxEpoch = 2
  MaxEvents = 1
  OnTheWire = 1
PROPERTY QueuedServicesLeave
PROPERTY ClosureIsReported
CHECK_DEADLOCK FALSE
