CONSTANTS
  EmptyList = EmptyList
  TaskList = {EmptyList, updateTraffic}
  Null = Null
  MaxToken = 6
SPECIFICATION Spec
INVARIANTS
  OneChain
  LatestTasks
  AliveIffRequested
PROPERTIES
  ImplementsPeriodicTask
  StartIsServed
CHECK_DEADLOCK FALSE
