SPECIFICATION SuiteSpec
CONSTANTS
  c1 = c1  c2 = c2  c3 = c3
  ip1 = ip1  ip2 = ip2
  Conns = {c1, c2, c3}
  IpOf <- TwoSources
  Users = {u1}
  UserLimit <- LimitOne
  NoUser = NoUser
  MaxSessions = 2
  MaxJunk = 1
  MaxDecrypt = 1
  Ips = {ip1, ip2}
  MaxFailures = 2
  WindowLen = 1
  BanLen = 1
  MaxTracked = 1
  MaxTime = 2
  NoValue = NoValue
INVARIANTS
  AccountsExact
  SocketsExact
  AnswersExact
  CodecsExact
  InvitesFit
  FrontendsMatch
CHECK_DEADLOCK FALSE
