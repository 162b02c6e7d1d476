CONSTANTS
  NumChans = 3
  NumAccounts = 2
  ChansMax = 4
  MaxShutdowns = 2
  MaxSkipped = 2
  Message <- MCMessage
SPECIFICATION LifecycleSpec
CHECK_DEADLOCK FALSE
INVARIANTS
  AnswersAreLists
  ReleasedOnce
  DependantsGoFirst
  NothingLeft
