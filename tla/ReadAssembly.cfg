CONSTANTS
  VintBase = 2
  Sum32 <- MCSum32
  DataSmallSize = 6
  ReadBufferSize = 8
  Payloads <- MCPayloads
  LimitSizes = {0, 2, 5}
  MaxHashFailed = 1
  MaxSizeFailed = 1
  MaxFrames = 3
SPECIFICATION Spec
INVARIANTS ReceivedInOrder NothingHeldBack ClosedOnlyForBadData
PROPERTIES EventuallyReceived
CHECK_DEADLOCK FALSE
