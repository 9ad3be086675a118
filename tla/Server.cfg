CONSTANTS
    i1 = i1
    i2 = i2
    r1 = r1
    r2 = r2
    Instances <- TwoPlaces
    Nobody = Nobody
    Migrations = 2
    Library <- TwoMedia
    Layout <- TwoScreens
    Requests <- TwoRequests
    Long = {"long"}
    Nul = {"nul"}
    MinDurationSeconds = 1
    MaxDurationSeconds = 3
    Environments <- Everything
SPECIFICATION Spec
CHECK_DEADLOCK FALSE
INVARIANTS
    TypeOK
    MigrationsAppliedOnce
    BootFailuresAreNamed
    SeedsAreWhole
    RefusalsAreHarmless
    ChangesAreTold
    SnapshotsCohere
PROPERTIES
    BootsEnd
