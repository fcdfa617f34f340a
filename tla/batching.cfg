SPECIFICATION FairSpec
CONSTANTS
    Threads = {t1, t2}
    MaxCalls = 4
    BatchSize = 3
    TimeOut = 3
    MayFinish = TRUE
INVARIANTS
    NothingLostOrReordered
    SyncIsBarrier
PROPERTIES
    EveryCommandExecuted
CHECK_DEADLOCK FALSE
