CHECK_DEADLOCK FALSE
CONSTANTS
    NumTors = 2
    Blocks = {b1, b2}
    None = none
SPECIFICATION Spec
INVARIANTS
    RxOnLiveDevice
