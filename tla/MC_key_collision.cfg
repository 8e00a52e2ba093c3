\* key_collision2
CONSTANTS
    Apps = {a1}
    Params <- ParamsNegativeHash
    Listeners = {1}
    Keys = {1}
    FlagSets <- SnapshotFlags
    MaxObjects = 2
    MaxCalls = 2
    MaxBatches = 0
    AllocFails = FALSE
    CallsMayFail = FALSE
    Free = Free
    NoReq = NoReq
    NoParams = NoParams
    NoSource = NoSource
SPECIFICATION Spec
PROPERTY SnapshotSetRefined
\* dx_close_snapshot returns holding the guard: after a close the threads
\* that need the guard stop for good.
CHECK_DEADLOCK FALSE
