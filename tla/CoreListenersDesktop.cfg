SPECIFICATION Spec
CONSTANTS
  Calls = {c1, c2}
  Ports = {1}
  Tuns = {t1}
  Inbounds = {i1, i2}
  Tunnels = {n1}
  Android = FALSE
  Null = Null
SYMMETRY Alike
VIEW WithoutSpentInput
CHECK_DEADLOCK FALSE
INVARIANTS
  StoppedMeansClosed
  RunningMeansListening
  RunningMeansTun
