\* listeners_race2
CONSTANTS
    Apps = {a1, a2}
    Params <- ParamsOne
    Listeners = {1, 2}
    Keys = {1}
    FlagSets <- SnapshotFlags
    MaxObjects = 1
    MaxCalls = 4
    MaxBatches = 0
    AllocFails = FALSE
    CallsMayFail = FALSE
    Free = Free
    NoReq = NoReq
    NoParams = NoParams
    NoSource = NoSource
SPECIFICATION Spec
PROPERTY ListenerSetRefined
\* dx_close_snapshot returns holding the guard: after a close the threads
\* that need the guard stop for good.
CHECK_DEADLOCK FALSE
