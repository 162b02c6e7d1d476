CONSTANTS
  home = home
  work = work
  pcma = pcma
  g729 = g729
  te = te
  p0 = p0
  p1 = p1
  None = None
  Chan <- Chans
  Name <- Names
  CodecOrder <- Codecs
  TelephoneEvent = te
  CodMasSize = 5
  Prefix <- Prefixes
  Default <- Defaults
  Section <- Sections
  MaxSections = 4
SPECIFICATION DialOutSpec
\* svd_invite_to returns, and a file may be refused.
CHECK_DEADLOCK FALSE
INVARIANTS
  DialPlanDecides
  LowestPriorityCalls
  PlanNamesAccount
  DefinedFirstComesFirst
  CodecListEnds
  NfeWindowsFit
  SectionsAddUp
