CONSTANTS
    c1 = c1
    c2 = c2
    e1 = e1
    e2 = e2
    e3 = e3
    Conns <- TwoConns
    Events <- ThreeEvents
    SendBuffer = 2
    BroadcastBuffer = 1
    Environments <- FloodedOnly
SPECIFICATION Spec
CHECK_DEADLOCK FALSE
INVARIANTS
    HelloSent
