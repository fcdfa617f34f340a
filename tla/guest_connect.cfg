\* Processes that die, migrate or are never connected leave the system
\* waiting: it may stop.
CHECK_DEADLOCK FALSE
SPECIFICATION Spec
CONSTANTS
    a1 = a1
    a2 = a2
    Apps = {a1, a2}
    Placements <- OneVm
    MaxVms = 2
    Earlier = {0, 2}
    BlockSize = 2
    GuestShm = 5
    PoolSize = 1
    MaxTries = 2
    MaxMigrations = 1
    MaxDeaths = 1
    None = None
INVARIANTS
    OneGuestPerWorker
    BlocksApart
    MigrationFindsBlock
PROPERTIES
    StartUpEnds
    PairsEndTogether
