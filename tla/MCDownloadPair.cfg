SPECIFICATION Spec
CONSTANTS
    v1 = v1
    v2 = v2
    v3 = v3
    m1 = m1
    m2 = m2
    f1 = f1
    c1 = c1
    c2 = c2
    Processes = {c1, c2}
    Files = {f1}
    Versions = {v1}
    Md5 <- Twins
    BlockCount <- Counts
    Records <- Pure
    ShortWrites = FALSE
INVARIANT
    LeftIsWhole
