SPECIFICATION ServerSpec
CONSTANTS
    Markets = {"BTC", "ETH"}
    Prices = {1, 2}
    Amounts = {1}
    Minute = 2
    Hour = 4
    Day = 8
    LookBack = 8
    SecMax = 8
    MinMax = 6
    HourMax = 8
    DealsMax = 1
    FirstOffset = 1
    Faults = {}
    MaxDeals = 2
    Spans <- MCSpans
    Week = 24
    Month = 240
    Monday = 8
    MonthStarts <- MCMonthStarts
    CacheTimeout = 1
    Invalid = Invalid
    Never = Never
    MaxCrashes = 1
INVARIANTS
    DealsExplained
    
PROPERTIES
    DealsReachRedis
