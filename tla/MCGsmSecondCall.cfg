SPECIFICATION Spec
CONSTANTS
  c1 = c1
  c2 = c2
  Transaction = {0, 1}
  Cells = {c1, c2}
  NoCell = NoCell
  MaxRequestId = 2
  SmsCount = 3
  SmartParts = 2
  Replayed = {2}
  Scenarios <- CallScenarios
INVARIANT AlertingHasTraffic
