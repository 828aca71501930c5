SPECIFICATION SessionSpec
CONSTANTS
  Calls = {f1}
  Ports = {1}
  Tuns = {t1}
  Inbounds = {}
  Tunnels = {}
  Android = FALSE
  Null = Null
  Port = 1
  Tun = t1
CHECK_DEADLOCK FALSE
INVARIANT RestartRestoresTun
