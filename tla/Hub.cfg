CONSTANTS
    c1 = c1
    c2 = c2
    e1 = e1
    e2 = e2
    e3 = e3
    Conns <- TwoConns
    Events <- ThreeEvents
    SendBuffer = 1
    BroadcastBuffer = 1
    Environments <- BusyOrShared
SPECIFICATION FairSpec
CHECK_DEADLOCK FALSE
INVARIANTS
    TypeOK
    DeliveredWithoutGaps
    ClientsMissNothing
    DroppedAreTold
PROPERTIES
    BroadcastNeverStalls
    PublishReturns
    ShutdownDrains
    LostConnectionsAreForgotten
