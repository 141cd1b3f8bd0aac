SPECIFICATION Spec
CONSTANTS
    c1 = c1
    c2 = c2
    c3 = c3
    k1 = k1
    text = text
    huge = huge
    none = none
    src = src
    m1 = m1
    Client = {c1, c2}
    Key = {k1}
    Payload = {text, huge}
    TooBig = huge
    NoVal = none
    Half = 4
    Bodies <- OneBody
    Deltas <- One
    Ttl <- NoTtl
    Source = src
    Mirror <- OneMirror
    Local = m1
    History = 2
    MaxAttempts = 2
    MayFail = FALSE
    Ops = {"put", "create", "update", "delete", "incr"}
    MaxRequests = 2
SYMMETRY AnyClients
INVARIANTS
    RefusalHasNoEffect
    AppliedOnce
CHECK_DEADLOCK FALSE
