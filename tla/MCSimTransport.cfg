SPECIFICATION SimFairSpec
CONSTANTS
  p = p
  q = q
  Pins = {p, q}
  Puk = Puk
  ChvAttempts = 2
  UnblockAttempts = 2
  Chain <- TheChain
  Selection <- Refresh
  Turns = 2
  RxSize = 4
  Scenarios <- SimScenarios
INVARIANT SimTypeOK
INVARIANT AnswersInTurn
INVARIANT ProactiveInStep
PROPERTY SecretsGuardFile
PROPERTY CommandsAreAnswered
