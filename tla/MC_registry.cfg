\* Two application threads creating, closing and listening on two snapshots
\* while the I/O thread delivers batches.
CONSTANTS
    Apps = {a1, a2}
    Params <- ParamsDistinct
    Listeners = {1}
    Keys = {1}
    FlagSets <- AllFlags
    MaxObjects = 3
    MaxCalls = 4
    MaxBatches = 2
    AllocFails = TRUE
    CallsMayFail = FALSE
    Free = Free
    NoReq = NoReq
    NoParams = NoParams
    NoSource = NoSource
SPECIFICATION Spec
VIEW ViewNoHistory
INVARIANT RegistrySorted NoDataBeforeBegin NoSnapshotLeak
PROPERTY SnapshotSetRefined
\* dx_close_snapshot returns holding the guard: after a close the threads
\* that need the guard stop for good.
CHECK_DEADLOCK FALSE
