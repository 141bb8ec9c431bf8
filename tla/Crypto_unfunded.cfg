SPECIFICATION Spec
CONSTANTS
    Threads = {t1}
    Names = {n1, n2}
    DefaultQuantity = 2
    Offers <- PlainOffers
    Requests = {"user", "order"}
    MaxUsers = 2
    MaxOrders = 3
CHECK_DEADLOCK FALSE
INVARIANT RefusedOrderNotOpen
