SPECIFICATION Spec
SYMMETRY Symmetry
CONSTANTS
    Threads = {t1, t2}
    Handles = {h1, h2, h3, h4}
    Null = Null
    IdSpan = 5
    PrefixBits = 120
    MaxObjects = 3
    MaxLog = 2
    MaxMigrations = 1
    Globals = TRUE
    Children = TRUE
    OrphanedChildren = FALSE
    ExplicitState = FALSE
    QuietDestroy = TRUE
INVARIANTS
    PoolAssertionsHold
    IdsDenoteTheirObject
    LiveObjectsReplayable
    NothingResurrected
CHECK_DEADLOCK FALSE
