CONSTANTS
    NbDstRacks = 3
    BudgetPerSlot = 2
    NumTors = 1
    NumRotors = 1
    Vids = {2, 3}
    VidToQid <- OneTorQid
    SelfRack <- OneTorSelf
    Mode = "direct"
    VmTargets = {0, 1, 2}
    RingSize = 1
    BurstSize = 1
    Shaped = FALSE
    Uninitialised = {1}
    SlotIsLong = TRUE
SPECIFICATION FairSpec
INVARIANTS
    TypeOK
    SlotBudget
    CleanLoopMatches
PROPERTIES
    DirectInCleanLoop
    MailboxSpec
    LocalQueuesServed
