SPECIFICATION FairSpec
CONSTANTS
    Clients <- TwoClients
    MaxRequests <- TwoThenOne
CHECK_DEADLOCK FALSE
INVARIANTS
    CountIsThreads
    StopsIdle
    OwnAnswers
PROPERTY Answered
