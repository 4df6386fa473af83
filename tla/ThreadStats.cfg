CONSTANTS
    Max = 2
    NumTempSamples = 1
    MaxFlushes = 3
SPECIFICATION Spec
INVARIANTS
    TypeOK
    ReportExact
    SizedRingRecovers
