\* Generations are bounded, so a long enough history has no call left to make.
SPECIFICATION FairSpec
CONSTANTS
    BusId = {1, 2, 3}
    MaxGen = 2
    RemoveInner = TRUE
INVARIANTS TypeOK Acyclic DownstreamConsistent
PROPERTIES RecursionReturns
CHECK_DEADLOCK FALSE
