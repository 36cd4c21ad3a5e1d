SPECIFICATION Spec
CONSTANTS
    Events = {e1, e2, e3, e4}
    NoEvent = NoEvent
    MaxSeg = 5
    SegRecords = 2
    MaxRecords = 3
    MaxSegments = 2
    HighPct = 85
    LowPct = 70
    Policy = "sample"
    SampleEvery = 2
    SyncWal = TRUE
    MaxOpens = 2
    MaxFaults = 1
    FaultKinds = {"write", "sync", "save", "power"}
SYMMETRY Symmetry
CHECK_DEADLOCK FALSE
INVARIANTS
    TypeOK
    NoLoss
    RecoveryComplete
    FrontierTight
    WithinLimits
    AccountingExact
    SyncedWhenAccepted
PROPERTIES
    FrontierStep
