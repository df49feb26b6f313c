SPECIFICATION Spec
CONSTANTS
  Sids <- OneSid
  Window <- SmallWindows
  CreditDiv = 1
  MaxStreams = 1
  MaxQueued = 1
  Budget = 1
  CtlCap = 1
  OutCap = 1
  WireCap = 2
  MaxChunk = 2
  ToSend <- ThreeUp
  MayFail = {"c", "s"}
  MayTimeOut = TRUE
INVARIANTS
  SafeUnderFailure
  EndsAreFinal
CHECK_DEADLOCK FALSE
