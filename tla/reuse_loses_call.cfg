SPECIFICATION FairSpec
CONSTANTS
    Ids <- OneGuest
    Home <- HomeOf
    Modes <- SyncOnly
    MayExit = TRUE
    MaxStarts = 2
    MaxCalls = 2
    MaxDepth = 1
PROPERTIES
    SyncCallsReturn
CHECK_DEADLOCK FALSE
