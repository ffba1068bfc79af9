SPECIFICATION FairRecencySpec
CONSTANTS
    Threads = {t1, t2, t3}
    Keys = {k1, k2, k3}
    Loads = {l1, l2}
    Capacity = 2
CHECK_DEADLOCK TRUE
INVARIANTS
    TypeOK
    SingleFlight
    OrderMirrorsCache
    AnswersMatch
    CacheHoldsMostRecent
PROPERTIES
    ImplementsBlockFetch
    ImplementsFairBlockFetch
