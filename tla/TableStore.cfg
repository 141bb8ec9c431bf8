SPECIFICATION FairSpec
CONSTANTS
    RowsLimit = 2
    MaxPageCnt = 3
    MaxKey = 7
    MaxFailures = 2
    DeleteOn = TRUE
    CrashPoints <- CrashAnywhere
CHECK_DEADLOCK FALSE
INVARIANTS
    TypeOK
    PositionMatches
    KeysIncrease
    NothingLostInFlight
    ReadsWholeTable
PROPERTIES
    AbstractTable
    WriterLetsGo
