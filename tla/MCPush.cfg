SPECIFICATION Spec
CONSTANTS
    s1 = s1
    s2 = s2
    BTC = BTC
    ETH = ETH
    Slots <- Sessions2
    Instances <- MCInstances
    Unknown = {ETH}
    DealsLimit = 2
    Faults = {"timeout"}
    MaxDeals = 3
    MaxRequests = 2
INVARIANTS
    SentOnlyWhatAsked
    CaughtUp
    DealsListed
PROPERTIES
    PollingEnds
