SPECIFICATION FairSpec
CONSTANTS
    Ids <- BothSides
    Home <- HomeOf
    Modes <- SyncOnly
    MayExit = TRUE
    MaxStarts = 1
    MaxCalls = 2
    MaxDepth = 4
INVARIANTS
    OnlyCoincidenceFails
    ReturnsAnswerInnermost
PROPERTIES
    SyncCallsReturn
    ShadowsRetire
