CONSTANTS
  R = R
  F1 = F1
  F2 = F2
  C1 = C1
  C2 = C2
  NoNode = NoNode
  Unknown = Unknown
  Node <- MCNode
  Upstream <- MCUpstream
  Pairs <- MCPairs
  Views <- MCViews
  TTL = 4
  MaxChanges = 1
SPECIFICATION Spec
INVARIANTS FailureIsReal
PROPERTIES RequestEnds Delivered
CHECK_DEADLOCK FALSE
