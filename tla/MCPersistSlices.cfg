SPECIFICATION Spec
CONSTANTS
    k1 = k1
    k2 = k2
    Keys <- MCOneKey
    Changes <- MCDeposit
    Amounts = {1}
    ShowGrain = 2
    MaxPending = 1
    SliceInterval = 3
    SliceKeeptime = 1
    DayLength = 1
    Faults = {}
    MaxOps = 2
    MaxTime = 3
    MaxCrashes = 1
    MaxStops = 0
    MaxChildren = 2
INVARIANTS
    RestartRedoesLog
    SliceIntact
PROPERTIES
    DurableKept
CHECK_DEADLOCK FALSE
