SPECIFICATION Spec
CONSTANTS
  Width = 2
  Types = {wifi, cellular}
  NoType = NoType
  Window = 2
  MaxDisconnects = 2
  RuleSets <- SomeRuleSets
  NoAddress = NoAddress
  MaxEvents = 6
INVARIANTS
  OffMeansResumed
CHECK_DEADLOCK FALSE
