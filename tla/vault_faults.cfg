SPECIFICATION Spec
CONSTANTS
    Seeds <- MCSeeds
    Identities <- MCIdentities
    MaxFails = 3
    MaxCuts = 3
    MayFail = TRUE
    AtomicErase = TRUE
INVARIANTS TypeOK KeysMatchSeed IdentityStable OpenWalletSealed
PROPERTIES ImplementsPinVault
CHECK_DEADLOCK FALSE
