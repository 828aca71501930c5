SPECIFICATION Spec
CONSTANTS
  Request = {r1}
  MaxAttempts = 2
  IpcAttempts = 2
CHECK_DEADLOCK FALSE
INVARIANTS
  OneCore
PROPERTIES
  ReplacedOnlyAfterGivingUp
  StrandedOnlyAtStart
  CoresEnd
  IpcSettles
  ImplementsRpc
