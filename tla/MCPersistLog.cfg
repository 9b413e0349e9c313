SPECIFICATION Spec
CONSTANTS
    k1 = k1
    k2 = k2
    Keys <- MCKeys
    Changes <- MCBoth
    Amounts = {1}
    ShowGrain = 1
    MaxPending = 2
    SliceInterval = 2
    SliceKeeptime = 2
    DayLength = 2
    Faults = {}
    MaxOps = 4
    MaxTime = 1
    MaxCrashes = 1
    MaxStops = 1
    MaxChildren = 0
PROPERTIES
    RepeatRefused
    OperationsReachLog
    StopEnds
CHECK_DEADLOCK FALSE
