CONSTANTS
    s1 = s1
    c3 = c3
    c1 = c1
    c2 = c2
    p1 = p1
    p2 = p2
    w1 = w1
    w2 = w2
    NoRow = NoRow
    Schemas = {s1}
    CIDs = {c1, c2, c3}
    Peers = {p1, p2}
    Malformed <- MCMalformed
    Ages = {0, 1}
    MaxTime = 2
    Faults = FALSE
    Workers = {w1, w2}
    Size <- MCSize
    Quota <- MCQuota
    Invalid <- MCInvalid
    MaxBatch = 2
SPECIFICATION PublishSpec
SYMMETRY Symmetry
INVARIANTS
    PublishTypeOK
    
    Findable
    RetentionRespected
    SyncUnlessDrifted
PROPERTY AttributionFixed
