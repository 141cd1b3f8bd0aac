SPECIFICATION Spec
CONSTANTS
    r1 = r1
    r2 = r2
    na = na
    eu = eu
    untagged = untagged
    j1 = j1
    j2 = j2
    j3 = j3
    Regions <- TwoRegions
    Tag = {na}
    NoTag = untagged
    Age = {0, 1}
    Shared = {FALSE, TRUE}
    Job = {j1, j2}
    MayFail = TRUE
SYMMETRY AnyJobs
INVARIANTS
    CreatedIsComplete
    ListedMirrorsExist
    RetriesKeepRetention
PROPERTIES
    SourceSettingsStick
CHECK_DEADLOCK FALSE
