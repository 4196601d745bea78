SPECIFICATION Spec
CONSTANTS
  Side = {"a", "b"}
  Other <- MCOther
  Rounds = 4
  PayloadSizes = {0, 1, 4, 5}
  Base = 5
  LenBytes = 1
  Capacity = 3
INVARIANTS
  FramesIntact
  BlockedOnlyByTwoLarge
PROPERTIES
  ExchangeEnds
CHECK_DEADLOCK FALSE
