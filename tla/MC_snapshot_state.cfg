\* One snapshot fed every flag combination, records of two keys, copies
\* that may fail: does event_listener follow the spec 4.4 status table?
CONSTANTS
    Apps = {a1}
    Params <- ParamsOne
    Listeners = {1}
    Keys = {1, 2}
    FlagSets <- AllFlags
    MaxObjects = 1
    MaxCalls = 1
    MaxBatches = 3
    AllocFails = TRUE
    CallsMayFail = FALSE
    Free = Free
    NoReq = NoReq
    NoParams = NoParams
    NoSource = NoSource
SPECIFICATION Spec
PROPERTY SnapshotStateRefined
\* dx_close_snapshot returns holding the guard: after a close the threads
\* that need the guard stop for good.
CHECK_DEADLOCK FALSE
