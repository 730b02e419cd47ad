SPECIFICATION TelephonySpec
CONSTANTS
  Scenarios <- DialogScenarios
  MaxRequestId = 2
  Deadline = 2
  QueueLimit = 4
  FrameDepth = 1
  MaxEpoch = 2
  MaxEvents = 1
PROPERTY DecidedByOwnDialog
PROPERTY HearsAnsweredDialog
CHECK_DEADLOCK FALSE
