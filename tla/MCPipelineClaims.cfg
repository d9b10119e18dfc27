SPECIFICATION Spec
CONSTANTS
    k1 = k1
    k2 = k2
    s1 = s1
    s2 = s2
    libA = libA
    libB = libB
    pA = pA
    pB = pB
    c1 = c1
    c2 = c2
    NoKey = NoKey
    Key = {k1}
    ScanResult = {s1, s2}
    Library = {libA, libB}
    Path = {pA, pB}
    KeyOf <- MCKeyOf
    LibOf <- MCLibOf
    PathOf <- MCPathOf
    CacheKey = {c1}
    FetchKey <- SameKey
    LookupKey <- SameKey
    HookPath = pB
    Gen = {0}
    MaxMissAttempts = 1
    AttemptBound = 1
    MissBound = 1
    Worker = {w1, w2}
    Enqueuer = {e1}
    Env = {"webhook", "delete", "operator", "library", "force", "crash"}
SYMMETRY Workers
INVARIANTS
    TypeOK
    ClaimOwned
    StatusShape
    DeferredBehindScan
    LinksResolve
PROPERTIES
    KeepsJobs
