SPECIFICATION LiveTelephonySpec
CONSTANTS
  Scenarios <- ServiceScenarios
  MaxRequestId = 2
  Deadline = 2
  QueueLimit = 4
  FrameDepth = 1
  MaxEpoch = 2
  MaxEvents = 1
INVARIANT DialogHasCall
PROPERTY NeverRedials
PROPERTY AnswersPhysically
PROPERTY BridgeReturns
CHECK_DEADLOCK FALSE
