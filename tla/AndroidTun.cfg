CONSTANTS
  Calls = {c1, c2, c3}
  Dials = {d1, d2}
  Permits = 1
  Null = Null
SPECIFICATION Spec
INVARIANTS
  CallbackInUseIsAlive
  ReleasedOnce
  NoRunTimeMeansDown
  LeftBehindHasCause
PROPERTIES
  CallsReturn
CHECK_DEADLOCK FALSE
