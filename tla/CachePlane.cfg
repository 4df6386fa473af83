CONSTANTS
    NumRacks = 3
    NumMatchings <- TwoRotorsOfTwo
    NumCaches = 2
    Tors = {0, 1, 2}
    Processes = {"p", "q"}
    Process <- TwoProcesses
    LinkLists <- TwoLists
    Ports = {60000}
    CacheRingSize = 1
    ByHand <- ThreeByHand
    Garbage <- OneDirty
CHECK_DEADLOCK FALSE
SPECIFICATION Spec
INVARIANTS
    TypeOK
    AddedOnCircuit
    LastListInstalled
    PacketsReachRack
    NoNullMapping
