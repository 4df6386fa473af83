CONSTANTS
    NumRacks = 2
    Self = 0
    NumCaches = 1
    NumRotors = 1
    PoolSize = 3
    RingSize = 2
    BurstSize = 2
    Shaping = 1
    Period = 5
    MaxDrain = 1
    MaxLost = 1
SPECIFICATION FairSpec
INVARIANTS
    TypeOK
    MbufsConserved
    CountersAddUp
    ChargedByUse
PROPERTIES
    CacheRingsServed
