SPECIFICATION Spec
CONSTANTS
  Width = 2
  Types = {wifi, cellular}
  NoType = NoType
  Window = 2
  MaxDisconnects = 2
  RuleSets <- SomeRuleSets
  NoAddress = NoAddress
  MaxEvents = 6
INVARIANTS
  StoppedWhereCovered
  StoppedIsDown
  QuickBounded
PROPERTIES
  ResumesItsOwn
CHECK_DEADLOCK FALSE
