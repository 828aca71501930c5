CONSTANTS
  Calls = {c1, c2, c3}
  Cap = 2
  Null = Null
SPECIFICATION Spec
INVARIANTS
  KnownIsServed
  NoSendOnClosed
PROPERTIES
  LogFlows
CHECK_DEADLOCK FALSE
