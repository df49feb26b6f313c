SPECIFICATION SuiteSpec
CONSTANTS
  None = None
  Tasks = {"t1", "t2", "t3"}
  MaxCtr = 2
  MaxFrames = 4
INVARIANTS
  HandshakeAgrees
  NoncesFresh
PROPERTIES
  ConnectionsEnd
  UdpEnds
CHECK_DEADLOCK FALSE
