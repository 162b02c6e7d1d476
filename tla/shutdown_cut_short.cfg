CONSTANTS
  a1 = a1
  a2 = a2
  a3 = a3
  Account <- ThreeAccounts
  Enabled <- TwoEnabled
  MaxAnswers = 2
  Waits = {TRUE}
SPECIFICATION Spec
CHECK_DEADLOCK FALSE
INVARIANT LoopOutlivesShutdown
