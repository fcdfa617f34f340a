\* Threads that have sent what they had to send stop.
CHECK_DEADLOCK FALSE
SPECIFICATION Spec
CONSTANTS
    g1 = g1
    g2 = g2
    w1 = w1
    Threads = {g1, g2, w1}
    SideOf <- MCSideOf
    Exiting = {g1}
    MayEnd = {"guest"}
    BaseSize = 2
    StructSizes = {3}
    RegionSizes = {2}
    BufferSizes = {1}
    MaxCommands = 1
    Capacity = 2
    None = None
INVARIANTS
    CommandsArriveWhole
    BuffersReadBack
PROPERTIES
    SendsEnd
