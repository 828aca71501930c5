SPECIFICATION Spec
CONSTANTS
  Calls = {c1, c2, c3}
  Ports = {1, 2}
  Tuns = {}
  Inbounds = {}
  Tunnels = {}
  Android = TRUE
  Null = Null
SYMMETRY Alike
VIEW WithoutSpentInput
CHECK_DEADLOCK FALSE
INVARIANTS
  
  AwakeMeansRunning
  DiesOnlyEarly
