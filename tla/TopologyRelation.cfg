\* One instance per bus id: a removed peer stays away, so histories end.
SPECIFICATION Spec
CONSTANTS
    BusId = {1, 2, 3, 4}
    MaxGen = 1
    RemoveInner = FALSE
INVARIANTS RelationMatchesForest HopAdvances LeafRemovalKeepsForest
PROPERTY LeafRemovalKeepsProactive
CHECK_DEADLOCK FALSE
