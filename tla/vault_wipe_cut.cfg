SPECIFICATION Spec
CONSTANTS
    Seeds <- MCSeeds
    Identities <- MCIdentities
    MaxFails = 1
    MaxCuts = 2
    MayFail = FALSE
    AtomicErase = FALSE
INVARIANTS KeysMatchSeed
CHECK_DEADLOCK FALSE
