CONSTANTS
  a1 = a1
  a2 = a2
  a3 = a3
  Account <- ThreeAccounts
  Enabled <- TwoEnabled
  MaxAnswers = 2
  Waits = {TRUE}
SPECIFICATION FairSpec
\* After su_root_break the program ends.
CHECK_DEADLOCK FALSE
INVARIANTS
  TypeOK
  RegistrationIsKnown
  LedIsTrue
  RetryIsAlone
  NeverGivenUp
PROPERTIES
  KeepsTrying
  ShutdownStops
