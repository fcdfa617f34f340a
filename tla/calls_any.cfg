SPECIFICATION FairSpec
CONSTANTS
    Ids <- OneGuest
    Home <- HomeOf
    Modes <- AnyMode
    MayExit = TRUE
    MaxStarts = 2
    MaxCalls = 2
    MaxDepth = 3
INVARIANTS
    ReturnsFindTheirCall
    CallsInOnePlace
    SyncFlushesThread
PROPERTIES
    ImplementsAbstractCalls
    UndisturbedCallsReturn
CHECK_DEADLOCK FALSE
