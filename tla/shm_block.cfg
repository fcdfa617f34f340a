SPECIFICATION Spec
SYMMETRY Symmetry
CONSTANTS
    Threads = {t1, t2}
    BlockSize = 14
    Header = 1
    DataSizes <- Small
    Word = 64
    GuestOffsets <- FreshOffsets
INVARIANTS
    RegionsInHalf
    ValidForALap
