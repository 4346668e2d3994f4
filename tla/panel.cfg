SPECIFICATION FairSpec
CONSTANTS
    FlashTicks = 2
    WaitPolls = 3
    DigitPolls = 3
    PausePolls = 2
    HoldPolls = 2
    TapsMax = 3
    PinLen = 2
INVARIANTS TypeOK PanelInv FreshConfirm AwaitingShown
PROPERTIES EachPressOneTap PromptEnds FlashEnds
