SPECIFICATION Spec
CONSTANTS
    Clients <- TwoClients
    MaxRequests <- TwoThenOne
CHECK_DEADLOCK FALSE
INVARIANT BlamesRightly
