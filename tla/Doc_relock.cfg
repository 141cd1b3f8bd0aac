SPECIFICATION Spec
CONSTANTS
    c1 = c1
    c2 = c2
    c3 = c3
    k1 = k1
    text = text
    huge = huge
    none = none
    src = src
    m1 = m1
    Client = {c1}
    Key = {k1}
    Payload = {text, huge}
    TooBig = huge
    NoVal = none
    Half = 4
    Bodies <- OneBody
    Deltas <- One
    Ttl <- WithTtl
    Source = src
    Mirror <- NoMirrors
    Local = src
    History = 2
    MaxAttempts = 2
    MayFail = FALSE
    Ops = {"create", "delete"}
    MaxRequests = 3
INVARIANTS
    CreateRefusedOnlyIfHeld
CHECK_DEADLOCK FALSE
