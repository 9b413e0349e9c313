SPECIFICATION FairSpec
CONSTANTS
    Client = {c1, c2}
    Keys <- SomeKeys
    AskPrices = {5, 7}
    BidPrices = {2}
    Starts <- SomeStarts
    Amounts = {1}
    NoDepth = NoDepth
    MaxPackets = 2
    MaxLost = 1

INVARIANTS
    ViewIsLast
    MergeIsExact
PROPERTIES
    CaughtUp
CHECK_DEADLOCK FALSE
