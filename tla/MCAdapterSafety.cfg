SPECIFICATION MCSpec
CONSTANTS
  Scenarios <- SafetyScenarios
  MaxRequestId = 2
  Deadline = 2
  QueueLimit = 2
  FrameDepth = 1
  MaxEpoch = 2
  MaxEvents = 1
  OnTheWire = 1
INVARIANT AdapterTypeOK
INVARIANT ServicesHaveOwner
 
PROPERTY AnswersAreCurrent
PROPERTY MediaClosesFirst
PROPERTY ReportsOwnService
CHECK_DEADLOCK FALSE
