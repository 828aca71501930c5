CONSTANTS
  Flows = {f1, f2}
  Stops = {s1}
  Events = {"toggle", "sync", "crash", "dialog", "engine"}
  Null = Null
  MaxRaces = 0
SPECIFICATION Spec
SYMMETRY Alike
CONSTRAINT FewRaces
INVARIANTS
  StoppedMeansDown
  StartedMeansUp
  StopLockWillOpen
PROPERTIES
  StartsAreWanted
CHECK_DEADLOCK FALSE
