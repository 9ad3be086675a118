CONSTANTS
    s1 = s1
    s2 = s2
    c1 = c1
    StartRequests <- TwoStarts
    CancelRequests <- NoCancel
    Durations <- ShortDurations
    MaxSyncDurationSeconds = 2
    SyncLead = 1
    Environments <- FaultlessRace
SPECIFICATION Spec
CHECK_DEADLOCK FALSE
INVARIANTS
    AtMostOneLive
