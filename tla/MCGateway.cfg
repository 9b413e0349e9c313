SPECIFICATION FairSpec
CONSTANTS
    Thread = {t1, t2}
    NoJob = NoJob
    NoData = NoData
    Refusal = Refusal
    None = None
    Error = Error
    PendingPerWorker = 1
    Plans <- SomePlans
    Slots = {s1}
    Users = {1}
    IdSpace = 3
    Faults = {}
    MaxSes = 2
    MaxData = 1
    MaxDrops = 1

PROPERTIES
    KeepsPromise
    NeverOlder
    EveryRequestAnswered
    JobsComeBack
CHECK_DEADLOCK FALSE
