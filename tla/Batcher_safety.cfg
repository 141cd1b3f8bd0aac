SPECIFICATION Spec
CONSTANTS
    p1 = p1
    p2 = p2
    p3 = p3
    p4 = p4
    other = other
    Put = {p1, p2, p3, p4}
    Other = other
    Max = 2
    Inflight = 2
    QueueCap = 2
    AllowAtomic = {TRUE, FALSE}
    MayFail = TRUE
    MaxOther = 0
SYMMETRY AnyPuts
INVARIANTS
    BatchesAreAtomic
    ErrorsAreHonest
    NoLateOverwrite
PROPERTIES
    ImplementsPut
CHECK_DEADLOCK FALSE
