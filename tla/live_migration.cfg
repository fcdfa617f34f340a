SPECIFICATION LiveSpec
SYMMETRY Symmetry
CONSTANTS
    Threads = {t1, t2}
    Handles = {h1, h2, h3}
    Capacity = 1
    MaxDuring = 2
    QuietTraverse = TRUE
    Null = Null
    IdSpan = 5
    PrefixBits = 120
    MaxObjects = 3
    MaxLog = 2
    MaxMigrations = 0
    Globals = FALSE
    Children = TRUE
    OrphanedChildren = FALSE
    ExplicitState = FALSE
    QuietDestroy = TRUE
INVARIANTS
    ReplaySucceeds
    TargetMatchesSource
    NothingDeadMigrates
CHECK_DEADLOCK FALSE
