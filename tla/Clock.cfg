SPECIFICATION Spec
CONSTANTS
    PerMilli = 2
    MaxSamples = 2
    MaxRtt = 3
    Exchanges = {x, y}
    Skews <- BehindOrAhead
    Syncs <- StartsOrEnds
    LookInterval = 2
    MaxTime = 7
    MaxSettings = 1
INVARIANTS EstimateWithinBound OverrideOnTime
CHECK_DEADLOCK FALSE
SYMMETRY Symmetry
