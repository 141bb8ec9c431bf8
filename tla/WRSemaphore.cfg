SPECIFICATION FairSpec
CONSTANT Clients = {c1, c2, c3, c4}
INVARIANTS
    ExclusionUntilOverlap
    NoLostWakeup
PROPERTIES
    EverySleeperServed
