SPECIFICATION Spec
CONSTANTS
    s1 = s1
    s2 = s2
    BTC = BTC
    ETH = ETH
    Slots <- Sessions2
    Instances <- OnlyState
    Unknown = {ETH}
    DealsLimit = 2
    Faults = {}
    MaxDeals = 0
    MaxRequests = 1
INVARIANTS
    StateSentOnlyWhatAsked
