SPECIFICATION FairSpec
CONSTANTS
    Nodes <- TwoNodes
    Gpus <- ThreeGpus
    NodeOf <- Placement
    Memory <- Sizes
    Apps = {a1, a2}
    Requests <- Vectors
    Programs = {"katana", "galvanic"}
    Overlap = "none"
    NoApp = NoApp
INVARIANTS
    MemoryAccounted
    ProvisionsFit
    ServedAsRequested
PROPERTIES
    RequestsAnswered
    MemoryComesBack
CHECK_DEADLOCK FALSE
