CONSTANTS
    t1 = t1
    t2 = t2
    o1 = o1
    b1 = b1
    b2 = b2
    w1 = w1
    h1 = h1
    h2 = h2
    Threads = {t1, t2}
    Objects = {o1}
    AppAddr = {b1, b2}
    ApiAddr = {w1}
    HeapAddr = {h1, h2}
    Uses <- UsesOwn
    Gives <- GivesAll
    MaxSize = 2
    GrowCoupled = FALSE
    None = None
SPECIFICATION Spec
INVARIANTS
    TablesAgree
    NoAssertionFails
    SameBufferComesBack
    BlocksLargeEnough
    ShadowsMatchLifetimes
SYMMETRY HeapSymmetry
