CONSTANTS
    Values = {v1, v2}
    Max = 4
SPECIFICATION Spec
INVARIANTS
    TypeOK
    FullMeansMet
PROPERTIES
    LogSpec
