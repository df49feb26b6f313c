SPECIFICATION Spec
CONSTANTS
  Connectors = {c1}
  Disconnectors = {d1}
  Watchdogs = {wd}
  Main = main
  None = None
  Platform = "windows"
  MaxConnects = 1
  MaxEnds = 0
PROPERTY DisconnectAlwaysWins
CHECK_DEADLOCK FALSE
