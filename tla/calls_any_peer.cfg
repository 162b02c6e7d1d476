CONSTANTS
  NumChans = 2
  h1 = h1
  h2 = h2
  h3 = h3
  a1 = a1
  None = None
  Handle <- TwoHandles
  Account <- OneAccount
  ring_incoming <- RingsAll
  MaxDigits = 1  \* the digits are counted in one_line
  CoderFails = {}
  MaxEvents = 2
  EarlyEnd = TRUE
  ReInvites = TRUE
SYMMETRY HandleSymmetry
SPECIFICATION Spec
INVARIANTS
  DialTimerOnlyWhenIdle
  CallHasHandleAndAccount
  NoStaleRemote
  HungUpCallEnds
PROPERTIES
  CallNotReplaced
