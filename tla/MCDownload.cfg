SPECIFICATION Spec
CONSTANTS
    v1 = v1
    v2 = v2
    v3 = v3
    m1 = m1
    m2 = m2
    f1 = f1
    c1 = c1
    c2 = c2
    Processes = {c1}
    Files = {f1}
    Versions = {v1, v2, v3}
    Md5 <- Twins
    BlockCount <- Counts
    Records <- Mixed
    ShortWrites = TRUE
INVARIANTS
    TypeOK
    SavedIsWhole
    RefusedForACause
PROPERTY
    BlocksKeptUntilSaved
