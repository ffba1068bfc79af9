SPECIFICATION Spec
CONSTANTS
    p1 = p1
    p2 = p2
    x1 = x1
    c1 = c1
    d1 = d1
    v1 = v1
    v2 = v2
    Clients = {c1}
    Databases = {d1}
    Db <- Alone
    Paths = {p1}
    Enc <- Encrypted
    Versions = {v1, v2}
    BlockCount <- OneTwo
    Scopes <- Everything
    BatchSize = 2
    MaxMails = 4
    MaxOthers = 2
INVARIANT
    UploadIsListed
