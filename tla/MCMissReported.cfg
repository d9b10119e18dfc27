SPECIFICATION Spec
CONSTANTS
    mxm = mxm
    petit = petit
    NoLane = NoLane
    Lane = {mxm, petit}
    LaneOrder <- MCOrder
    Modes = {"ordered", "parallel"}
    Wirings = {{mxm}}
    MaxDispatch = 2
    BackoffBase = 1
    OpenDuration = 2
    TripBound = 2
INVARIANT MissReported
CHECK_DEADLOCK FALSE
