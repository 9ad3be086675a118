CONSTANTS
    w1 = w1
    w2 = w2
    b1 = b1
    e1 = e1
    e2 = e2
    curl = curl
    Windows <- TwoWindows
    Browsers <- OneBrowser
    Edits <- TwoEdits
    Requests = {1, 2}
    Elsewhere = curl
    NoWindow = NoWindow
    BroadcastBuffer = 1
    SendBuffer = 2
    Environments <- AnyOfThree
SPECIFICATION Spec
CHECK_DEADLOCK FALSE
INVARIANTS
    TypeOK
    ConvergedUnlessRaced
PROPERTIES
    PollingConverges
