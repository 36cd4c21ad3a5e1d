SPECIFICATION FairSpec
CONSTANTS
    Keys = {k1, k2}
    MaxId = 5
    PackCount = 2
CHECK_DEADLOCK FALSE
INVARIANTS
    TypeOK
    RangeIsOwn
    AckedDelivered
    DeliveredKept
PROPERTIES
    ImplementsFrontier
    EventuallyAcked
