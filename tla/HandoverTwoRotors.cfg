CONSTANTS
    NbDstRacks = 3
    BudgetPerSlot = 1
    NumTors = 1
    NumRotors = 2
    Vids = {2, 3}
    VidToQid <- OneTorTwoRotorsQid
    SelfRack <- OneTorSelf
    Mode = "max"
    VmTargets = {0, 1}
    RingSize = 1
    BurstSize = 1
    Shaped = FALSE
    Uninitialised = {0}
    SlotIsLong = TRUE
SPECIFICATION FairSpec
INVARIANTS
    SlotBudget
    HandoverInv
PROPERTIES
    SecondHopInCleanLoop
    NonlocalQueuesServed
