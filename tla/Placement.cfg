SPECIFICATION FairPlacementSpec
CONSTANTS
    c1 = c1
    c2 = c2
    none = none
    None = none
    Region <- Regions
    Geo <- Geos
    GeoOf <- GeoOfRegion
    Anchor <- Anchors
    Matrix <- Matrices
    Later <- TwoMatrices
    Replicas = {1, 3, 5}
    Caller = {c1, c2}
    MaxSamples = 2
INVARIANTS
    QuorumIsReached
    BestGeoWins
    StaleRatherThanFail
PROPERTIES
    EveryPickReturns
