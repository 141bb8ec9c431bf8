SPECIFICATION FairSpec
CONSTANTS
    Threads = {t1, t2}
    Tables <- MCTables
    Schema <- MCSchema
    Contents <- TwoRows
    Values = {"x", "y"}
    Requests <- MCRequestsAt
    MaxRequests = 3
CHECK_DEADLOCK FALSE
INVARIANTS
    TypeOK
    SelectIsProduct
PROPERTIES
    RefusedRightly
    UnderstoodAsWritten
    DeleteIsExact
    EveryRequestAnswered
