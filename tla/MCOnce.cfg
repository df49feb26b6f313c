SPECIFICATION SuiteSpec
CONSTANTS
  Clients = {n1, n2}
  Conns = {m1, m2, m3}
  Xids = {x1, x2}
  None = None
  Tokens = {"good", "bad"}
  Known = {"good"}
  max_time_diff = 1
  Caps = {1, 2}
  MaxClock = 3
SYMMETRY Symmetry
INVARIANTS
  DatagramsOnce
  ReplaysRefused
CHECK_DEADLOCK FALSE
