SPECIFICATION FairSpec
CONSTANTS
    p1 = p1
    p2 = p2
    p3 = p3
    p4 = p4
    other = other
    Put = {p1, p2, p3}
    Other = other
    Max = 2
    Inflight = 1
    QueueCap = 1
    AllowAtomic = {TRUE}
    MayFail = TRUE
    MaxOther = 1
PROPERTIES
    EveryPutReturns
CHECK_DEADLOCK FALSE
