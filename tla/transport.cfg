SPECIFICATION FairSpec
CONSTANTS
    Chunk = 2
    RingSize = 3
    FrameLens <- MCFrameLens
    QuietLens <- MCQuietLens
    TxSlots = 3
    MaxFrames = 3
    MaxDrops = 1
INVARIANTS TypeOK TransportInv PoliteHostFits
PROPERTIES AnswersInOrder ImplementsLossyChannel PoliteHostAnswered
CHECK_DEADLOCK FALSE
