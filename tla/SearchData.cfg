SPECIFICATION Spec
CONSTANTS
    w1 = w1
    w2 = w2
    t1 = t1
    t2 = t2
    q1 = q1
    serpapi = serpapi
    serper = serper
    Worker = {w1, w2}
    Tx = {t1, t2}
    Query = {q1}
    Vendor = {serpapi, serper}
    Site <- BothSites
    Ttl = 2
    MemTtl = 0
    Grace = 1
    MemCap = 0
    Expired = 1
    Oldest = 1
    Retry = 1
    Pause = 1
    Cooldown = 1
    Hollow = {serpapi}
SYMMETRY Symmetry
INVARIANTS
    UnlabelledIsFresh
    RefreshReachesWorkers
    StaleCovers
PROPERTIES
    PaidOnce
