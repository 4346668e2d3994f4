SPECIFICATION FairSpec
CONSTANTS
    Seeds <- MCSeeds
    Identities <- MCIdentities
    MaxFails = 3
    MaxCuts = 4
    MayFail = FALSE
    AtomicErase = TRUE
INVARIANTS TypeOK PartsCohere KeysMatchSeed AttemptsCounted DoomedStaysLocked IdentityStable
PROPERTIES ImplementsPinVault WipeOnlyWhenEarned LockoutLeadsToWipe
CHECK_DEADLOCK FALSE
