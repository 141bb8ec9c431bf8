SPECIFICATION FairSpec
CONSTANTS
    Threads = {t1, t2}
    Configs <- MCConfigs
    BadNames = {"B,C"}
    Names = {n1, n2}
    MaxRequests = 3
    MaxFaults = 1
INVARIANTS
    InitialisedOnce
    BalanceForEveryLot
    NamesDistinct
PROPERTIES
    ExchangeOpens
CHECK_DEADLOCK FALSE
