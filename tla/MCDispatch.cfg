SPECIFICATION FairSpec
CONSTANTS
    mxm = mxm
    petit = petit
    NoLane = NoLane
    Lane = {mxm, petit}
    LaneOrder <- MCOrder
    Modes = {"ordered", "parallel"}
    Wirings = {{mxm}, {mxm, petit}}
    MaxDispatch = 2
    BackoffBase = 1
    OpenDuration = 2
    TripBound = 2
INVARIANTS
    TypeOK
    RampHeld
    MissIsUnanimous
    BestServed
    AttemptsHonest
PROPERTIES
    DispatchEnds
    NoGoroutineLeak
CHECK_DEADLOCK FALSE
