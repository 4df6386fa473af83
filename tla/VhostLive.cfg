CHECK_DEADLOCK FALSE
CONSTANTS
    NumTors = 2
    Blocks = {b1}
    None = none
SPECIFICATION FairSpec
PROPERTIES
    RemovalEnds
    TxStops
    GraceSpec
