SPECIFICATION FairServerSpec
CONSTANTS
    k1 = k1
    k2 = k2
    k3 = k3
    f1 = f1
    Threads = {c1, w}
    Clients = {c1}
    Worker = w
    Keys = {k1, k2, k3}
    Files = {f1}
    Blocks <- ThreeBlocks
    Unsized = {}
    Sessions = {s1, s2}
    Loads = {l1, l2}
    Capacity = 1
    MaxRequests = 2
PROPERTIES
    RequestsEnd
    PendingKeysDrain
    DestructorJoins
