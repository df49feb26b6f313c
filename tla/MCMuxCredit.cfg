SPECIFICATION SuiteSpec
CONSTANTS
  Window = 6
  MaxQueued = 3
INVARIANTS
  Conservation
  NoFault
  StreamIsWhole
PROPERTIES
  NoSpuriousReset
  StreamIsCreditChannel
  NoHeadOfLineBlocking
  StreamsAreReleased
CHECK_DEADLOCK FALSE
