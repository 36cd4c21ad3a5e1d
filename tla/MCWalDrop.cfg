SPECIFICATION Spec
CONSTANTS
    Events = {e1, e2, e3, e4}
    NoEvent = NoEvent
    MaxSeg = 5
    SegRecords = 2
    MaxRecords = 3
    MaxSegments = 2
    HighPct = 85
    LowPct = 70
    Policy = "drop_oldest"
    SampleEvery = 2
    SyncWal = FALSE
    MaxOpens = 1
    MaxFaults = 1
    FaultKinds = {"write", "sync", "power"}
SYMMETRY Symmetry
CHECK_DEADLOCK FALSE
INVARIANTS
    WithinLimits
PROPERTIES
    RemovedWhenSettled
