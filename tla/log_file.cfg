SPECIFICATION Spec
SYMMETRY Symmetry
CONSTANTS
    Threads = {t1, t2}
    Commands = {7, 8}
    Struct <- MCStruct
    Region <- MCRegion
    MaxAccesses = 4
INVARIANTS
    LoadsWhatWasRecorded
CHECK_DEADLOCK FALSE
