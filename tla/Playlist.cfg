CONSTANTS
    w1 = w1
    w2 = w2
    r1 = r1
    r2 = r2
    NoRequest = NoRequest
    Deleted = Deleted
    Windows <- TwoWindows
    Requests <- TwoRequests
    Targets <- MCTargets
    MaxItems = 3
SPECIFICATION FairSpec
INVARIANTS
    TypeOK
    PositionsContiguous
    CommitNeverRefused
PROPERTIES
    LockedWindowStable
    EditsAreListEdits
    EveryEditEnds
