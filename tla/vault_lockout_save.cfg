SPECIFICATION Spec
CONSTANTS
    Seeds <- MCSeeds
    Identities <- MCIdentities
    MaxFails = 2
    MaxCuts = 1
    MayFail = TRUE
    AtomicErase = TRUE
INVARIANTS AttemptsCounted
CHECK_DEADLOCK FALSE
