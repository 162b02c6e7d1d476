CONSTANTS
  NumChans = 1
  h1 = h1
  h2 = h2
  h3 = h3
  a1 = a1
  None = None
  Handle <- ThreeHandles
  Account <- OneAccount
  ring_incoming <- RingsAll
  MaxDigits = 2
  CoderFails = {"DEC"}
  MaxEvents = 3
  EarlyEnd = TRUE
  ReInvites = FALSE
SPECIFICATION FairSpec
INVARIANTS
  TypeOK
  RingingHasCall
  MediaOnlyInCall
PROPERTIES
  HungUpLineIsFreed
  EndedCallIsNoticed
