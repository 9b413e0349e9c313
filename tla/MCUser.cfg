SPECIFICATION Spec
CONSTANTS
    s1 = s1
    s2 = s2
    Slots <- Sessions2
    Users = {1, 2}
    Assets = {"USD"}
    Markets = {"BTCUSD"}
    Traded <- TradedFor
    Faults = {"timeout"}
    MaxConns = 2
    MaxJobs = 2
    Active = {1}
    MaxChanges = 2
INVARIANTS
    OwnEventsOnly
    NoEventMissed
    BalanceUnderWay
CONSTRAINT FewAtOnce
SYMMETRY SlotSymmetry
CHECK_DEADLOCK FALSE
