SPECIFICATION ServerSpec
CONSTANTS
    k1 = k1
    k2 = k2
    k3 = k3
    f1 = f1
    Threads = {c1, c2, w}
    Clients = {c1, c2}
    Worker = w
    Keys = {k1, k2, k3}
    Files = {f1}
    Blocks <- ThreeBlocks
    Unsized = {f1}
    Sessions = {s1, s2}
    Loads = {l1, l2, l3}
    Capacity = 2
    MaxRequests = 1
SYMMETRY Symmetry
VIEW LiveState
INVARIANTS
    ServerTypeOK
    PendingIsQueuedOrRunning
    OneTaskPerSession
    SessionsAreStreams
    AtMostOneBlockAhead
PROPERTY
    UsesBlockLoader
