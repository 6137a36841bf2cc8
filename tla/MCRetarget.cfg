SPECIFICATION Spec
CONSTANTS
    Nodes = {"ahead", "exact"}
    Skew <- MCSkew
    GenesisTime = 0
    StartTime = 10
    GenesisTarget = 12
    Interval = 2
    BlockTime = 3
    MinPercent = 75
    MaxPercent = 150
    MedianWindow = 3
    FutureLimit = 5
    MinSearch = 1
    MaxTime = 18
    MaxHeight = 4
INVARIANTS
    SiblingsTie
    RefusedForSkew
CHECK_DEADLOCK FALSE
