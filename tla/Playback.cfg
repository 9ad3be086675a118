CONSTANTS
    Languages <- Both
    Seconds <- SomeSeconds
    MillisPerSecond = 2
    MaxItems = 3
    CycleMillis = 7
    Anchor <- OneAnchor
    Instants <- AroundAnchor
    Steps <- SomeSteps
SPECIFICATION Spec
INVARIANTS
    TypeOK
    TimelineIsPlaylist
    ShownIsScheduled
    PlaysOn
PROPERTIES
    EveryRenderEnds
