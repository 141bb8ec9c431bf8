SPECIFICATION FairSpec
CONSTANTS
    Guards = {g1, g2, g3, g4}
    Faults = {"crash", "io"}
INVARIANTS
    MutualExclusion
    NoLostWakeup
PROPERTIES
    OrphanIsForever
    AbstractSpec
    EverySleeperServed
