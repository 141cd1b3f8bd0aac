SPECIFICATION RequestsSpec
CONSTANTS
    t1 = t1
    t2 = t2
    k1 = k1
    k2 = k2
    i1 = i1
    i2 = i2
    j1 = j1
    j2 = j2
    j3 = j3
    r1 = r1
    nobody = nobody
    Tenant = {t1, t2}
    Key = {k1, k2}
    Invite = {i1, i2}
    Job = {j1, j2, j3}
    Request = {r1}
    Ops = {"invite", "withdraw", "claim", "regen", "delete", "suspend", "unsuspend"}
    MayFail = TRUE
    Nobody = nobody
SYMMETRY AnyIds
INVARIANTS
    InviteNotBurned
    ClaimIsUsable
    OldKeysRevoked
    ApprovedHasInvite
    OneAnswerPerRequest
PROPERTIES
    ClaimRecordIsFinal
CHECK_DEADLOCK FALSE
