SPECIFICATION Spec
CONSTANTS
    k1 = k1
    k2 = k2
    s1 = s1
    s2 = s2
    libA = libA
    libB = libB
    pA = pA
    pB = pB
    c1 = c1
    c2 = c2
    NoKey = NoKey
    Key = {k1}
    ScanResult = {s1}
    Library = {libA}
    Path = {pA, pB}
    KeyOf <- MCKeyOf
    LibOf <- MCLibOf
    PathOf <- MCPathOf
    CacheKey = {c1}
    FetchKey <- SameKey
    LookupKey <- SameKey
    HookPath = pB
    Gen = {1}
    MaxMissAttempts = 2
    AttemptBound = 1
    MissBound = 2
    Worker = {w1}
    Enqueuer = {e1}
    Env = {"webhook", "operator", "crash", "fault"}
INVARIANTS
    MissBudget
PROPERTIES
    WrittenBeforeDone
