SPECIFICATION Spec
CONSTANTS
    Events = {e1, e2}
    NoEvent = NoEvent
    MaxSeg = 3
    SegRecords = 1
    MaxRecords = 3
    MaxSegments = 0
    HighPct = 85
    LowPct = 70
    Policy = "reject"
    SampleEvery = 2
    SyncWal = FALSE
    MaxOpens = 3
    MaxFaults = 0
    FaultKinds = {}
SYMMETRY Symmetry
CHECK_DEADLOCK FALSE
INVARIANTS
    StrandedRecovered
