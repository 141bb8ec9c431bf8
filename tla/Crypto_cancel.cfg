SPECIFICATION Spec
CONSTANTS
    Threads = {t1}
    Names = {n1, n2}
    DefaultQuantity = 2
    Offers <- PlainOffers
    Requests = {"user", "order", "cancel"}
    MaxUsers = 2
    MaxOrders = 3
INVARIANT OwnOrderFound
