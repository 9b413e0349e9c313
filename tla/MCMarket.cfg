SPECIFICATION Spec
CONSTANTS
    u1 = u1
    u2 = u2
    Users <- MCUsers
    Prices = {1, 2, 3}
    Amounts = {1, 2}
    Fees <- MCFees
    FeeOne = 4
    PriceOne = 1
    MoneyGrain = 2
    MinAmount = 1
    InitBalance <- MCBalance
    Changes <- MCChanges
    MaxOrders = 3
    MaxUpdates = 1
    ShowGrain <- MCShown
    ListMax = 3
INVARIANTS
    TypeOK
    IndexConsistent
    OrderAccounts
    Uncrossed
    TakerFunded
    FreezeBacked
    BalanceHistoryExplains
    RecordsComplete
    AnswersFitTogether
PROPERTIES
    PriorityRespected
    NoValueCreated
CHECK_DEADLOCK FALSE
