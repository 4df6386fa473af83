CONSTANTS
    NbDstRacks = 3
    BudgetPerSlot = 5
    NumTors = 1
    NumRotors = 1
    Vids = {2, 3}
    VidToQid <- OneTorQid
    SelfRack <- OneTorSelf
    Mode = "max"
    VmTargets = {0, 2}
    RingSize = 2
    BurstSize = 2
    Shaped = FALSE
    Uninitialised = {0}
    SlotIsLong = TRUE
SPECIFICATION Spec
INVARIANTS
    SlotBudget
PROPERTIES
    SecondHopInCleanLoop
