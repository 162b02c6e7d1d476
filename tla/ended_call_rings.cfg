CONSTANTS
  NumChans = 2
  h1 = h1
  h2 = h2
  h3 = h3
  a1 = a1
  None = None
  Handle <- TwoHandles
  Account <- OneAccount
  ring_incoming <- RingsAll
  MaxDigits = 2
  CoderFails = {}
  MaxEvents = 3
  EarlyEnd = TRUE
  ReInvites = FALSE
SYMMETRY HandleSymmetry
SPECIFICATION Spec
INVARIANT EndedCallIsSilent
