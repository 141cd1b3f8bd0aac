SPECIFICATION FairPagesSpec
CONSTANTS
    t1 = t1
    t2 = t2
    p1 = p1
    c1 = c1
    c2 = c2
    x = x
    k1 = k1
    g1 = g1
    g2 = g2
    h1 = h1
    h2 = h2
    b1 = b1
    b2 = b2
    w1 = w1
    w2 = w2
    w3 = w3
    i1 = i1
    a1 = a1
    demo = demo
    l1 = l1
    none = none
    None = none
    Demo = demo
    Parts = {"session", "preview", "buckets", "loadtest", "verify"}
    Token = {g1, g2}
    Orphan = {l1}
    Tab = {t1, t2}
    Pair = {p1}
    Path = {"/", "/claim/"}
    Client = {c1, c2}
    Item = {x}
    Request <- ApiCalls
    MaxRev = 2
    MayFail = TRUE
    Choice = {h1, h2}
    MaxPreviews = 3
    Bucket = {b1, b2}
    MaxLoads = 2
    Worker = {w1, w2}
    MaxOps = 4
    Invite = {i1}
    Tenant = {a1}
    MaxCalls = 2
    Attempts = 5
    Depths = {8}
PROPERTIES
    EveryWaitEnds
CHECK_DEADLOCK FALSE
