SPECIFICATION FairAccessSpec
CONSTANTS
    t1 = t1
    t2 = t2
    t3 = t3
    k1 = k1
    k2 = k2
    k3 = k3
    i1 = i1
    i2 = i2
    j1 = j1
    j2 = j2
    j3 = j3
    a1 = a1
    a2 = a2
    nobody = nobody
    Tenant = {t1}
    Key = {k1, k2}
    Invite = {i1}
    Job = {j1, j2}
    Ops = {"invite", "claim", "regen", "delete"}
    MayFail = TRUE
    MaxErrors = 2
    Nobody = nobody
    Adapter = {a1}
INVARIANTS
    OnePollOfGrace
    PollKeepsActiveKeys
PROPERTIES
    RevocationArrives
CHECK_DEADLOCK FALSE
