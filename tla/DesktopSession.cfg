SPECIFICATION SessionSpec
CONSTANTS
  Calls = {f1, f2}
  Ports = {1}
  Tuns = {t1}
  Inbounds = {}
  Tunnels = {}
  Android = FALSE
  Null = Null
  Port = 1
  Tun = t1
SYMMETRY Alike
CONSTRAINT Orderly
VIEW WithoutMixed
CHECK_DEADLOCK FALSE
INVARIANTS
  SessionAgrees
  ConfigFollowsSession
  RollbackRestores
  StartRestoresTun
