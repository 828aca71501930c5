CONSTANTS
  Flows = {f1}
  Stops = {s1}
  Events = {"toggle", "sync", "doze"}
  Null = Null
SPECIFICATION Spec
INVARIANTS
  NoModuleLost
  SomeoneWillWake
PROPERTIES
  PendingEnds
CHECK_DEADLOCK FALSE
