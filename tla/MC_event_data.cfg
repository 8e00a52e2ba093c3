\* Every event id (and dx_eid_invalid), every flag combination, order
\* source arrays of up to two suffixes, each add able to fail; masks of
\* every event type and a few that are not.
CONSTANTS
    Sources = {s1, s2}
    MaxSources = 2
    Masks <- MasksSample
    AddFails = TRUE
    InvalidEid = InvalidEid
    NoReq = NoReq
SPECIFICATION Spec
INVARIANT TypeOK BitmaskSelectsNavigator
