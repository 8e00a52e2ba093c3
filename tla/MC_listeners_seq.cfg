\* One application thread adding and removing three listeners of one snapshot
\* while two batches (BEGIN, then END) make it call them.
CONSTANTS
    Apps = {a1}
    Params <- ParamsOne
    Listeners = {1, 2, 3}
    Keys = {1}
    FlagSets <- SnapshotFlags
    MaxObjects = 1
    MaxCalls = 6
    MaxBatches = 2
    AllocFails = FALSE
    CallsMayFail = TRUE
    Free = Free
    NoReq = NoReq
    NoParams = NoParams
    NoSource = NoSource
SPECIFICATION Spec
INVARIANT TypeOK NoSnapshotLeak ListenersCalledInOrder 
PROPERTY ListenerSetRefined
\* dx_close_snapshot returns holding the guard: after a close the threads
\* that need the guard stop for good.
CHECK_DEADLOCK FALSE
