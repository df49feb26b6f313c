SPECIFICATION SuiteSpec
CONSTANTS
  Callers = {"a", "b"}
  MaxStarts = 3
  None = None
  Users = {c1, c2}
SYMMETRY Symmetry
INVARIANTS
  RoutedAsListed
  BridgeExact
  SlotExact
  ProxyFollowsSession
  SettingsRestored
PROPERTIES
  DisconnectIsFinal
  StoreConsistent
CHECK_DEADLOCK FALSE
