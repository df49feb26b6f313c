SPECIFICATION SuiteSpec
CONSTANTS
  Connectors = {c1}
  Disconnectors = {d1}
  Watchdogs = {wd}
  Main = main
  None = None
  Platform = "windows"
  MaxConnects = 1
  MaxEnds = 0
INVARIANTS
  RestsAsAsked
PROPERTIES
  DesktopSettles
  MobileSettles
CHECK_DEADLOCK FALSE
