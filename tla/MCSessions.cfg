SPECIFICATION SuiteSpec
CONSTANTS
  Ips = {ip1, ip2, ip3}
  MaxFailures = 2
  WindowLen = 1
  BanLen = 2
  MaxTracked = 2
  MaxTime = 5
INVARIANTS
  BansActiveExact
  TableBounded
PROPERTIES
  BansAreKept
  SilentPeersGiveWay
  CallersFinish
CHECK_DEADLOCK FALSE
