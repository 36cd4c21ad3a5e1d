SPECIFICATION Spec
CONSTANTS
    a = a
    b = b
    w = w
    s = s
    Adders <- OneAdder
    Workers <- OneWorker
    Senders <- OneSender
    Paths <- Keyed
    Policies <- Ordered
    MaxLogs = 2
    MaxBytes = 9
    RawBytes = 2
    PackBytes = 3
    PackLogs = 3
    Envelope = 1
    Packed = 1
    Slack = 1
    IngressCap = 1
    SendCap = 1
CHECK_DEADLOCK FALSE
PROPERTY LingerSeals
