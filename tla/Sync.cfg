CONSTANTS
    s1 = s1
    s2 = s2
    c1 = c1
    StartRequests <- TwoStarts
    CancelRequests <- OneCancel
    Durations <- ShortDurations
    MaxSyncDurationSeconds = 2
    SyncLead = 1
    Environments <- AnyFault
SPECIFICATION FairSpec
CHECK_DEADLOCK FALSE
INVARIANTS
    TypeOK
    LiveTogetherOnlyIfRaced
    EndAnnouncedAtMostOnce
    NeverEndsEarly
    TimerFollowsLive
PROPERTIES
    RequestsAnswered
    NewestWins
    EveryStartIsClosed
