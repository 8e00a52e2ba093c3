\* close_leaks_guard2
CONSTANTS
    Apps = {a1, a2}
    Params <- ParamsOne
    Listeners = {1}
    Keys = {1}
    FlagSets <- SnapshotFlags
    MaxObjects = 1
    MaxCalls = 3
    MaxBatches = 0
    AllocFails = FALSE
    CallsMayFail = FALSE
    Free = Free
    NoReq = NoReq
    NoParams = NoParams
    NoSource = NoSource
SPECIFICATION Spec
PROPERTY CallsReturn
\* dx_close_snapshot returns holding the guard: after a close the threads
\* that need the guard stop for good.
CHECK_DEADLOCK FALSE
