SPECIFICATION Spec
CONSTANTS
    Threads = {t1, t2}
    Names = {n1}
    DefaultQuantity = 2
    Offers <- PlainOffers
    Requests = {"user", "order"}
    MaxUsers = 1
    MaxOrders = 2
CHECK_DEADLOCK FALSE
INVARIANT OneBalanceRow
