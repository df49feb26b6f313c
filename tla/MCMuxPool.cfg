SPECIFICATION SuiteSpec
CONSTANTS
  Callers = {c1, c2}
  Fill = Fill
  Parallel = 2
  ConnectAttempts = 2
  SlotRetries = 2
  MaxSessions = 3
  None = None
SYMMETRY Symmetry
INVARIANTS
  PoolExact
  NothingOutlivesStop
  MemoryBounded
PROPERTIES
  RoutesJustified
CHECK_DEADLOCK FALSE
