SPECIFICATION Spec
CONSTANTS
    a = a
    b = b
    w = w
    s = s
    Adders <- TwoAdders
    Workers <- OneWorker
    Senders <- OneSender
    Paths <- Habits
    Policies <- Everyday
    MaxLogs = 3
    MaxBytes = 7
    RawBytes = 2
    PackBytes = 3
    PackLogs = 2
    Envelope = 1
    Packed = 1
    Slack = 1
    IngressCap = 1
    SendCap = 1
CHECK_DEADLOCK FALSE
INVARIANTS TypeOK PoolsExact WithinBudget ResultsComplete
PROPERTY ClosingReleases
