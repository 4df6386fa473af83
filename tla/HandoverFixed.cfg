CONSTANTS
    NbDstRacks = 3
    BudgetPerSlot = 20
    NumTors = 2
    NumRotors = 2
    Vids = {2, 3}
    VidToQid <- TwoTorsTwoRotorsQid
    SelfRack <- TwoTorsSelf
    Mode = "fixed"
    VmTargets = {0, 1, 2}
    RingSize = 0
    BurstSize = 1
    Shaped = TRUE
    Uninitialised = {0, 1}
    SlotIsLong = TRUE
SPECIFICATION Spec
INVARIANTS
    BudgetsExclusive
    SlotBudget
    CleanLoopMatches
    HandoverInv
PROPERTIES
    MailboxSpec
