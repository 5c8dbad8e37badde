CONSTANTS
    o1 = o1
    o2 = o2
    s1 = s1
    i1 = i1
    v1 = v1
    v2 = v2
    p1 = p1
    Orders = {o1, o2}
    Sweepers = {s1}
    Inventories = {i1}
    VStock = {v1, v2}
    Promos = {p1}
    NoInventory = NoInventory
    NoPromo = NoPromo
    NoOrder = NoOrder
    OrderItems <- MCOrderItems
    OrderPromo <- MCOrderPromo
    StockOwner <- MCStockOwner
    StockKind <- MCStockKind
    BatchLimit = 1
    MaxCrashes = 1
SPECIFICATION FairSpec
INVARIANT TypeOK
INVARIANT PaidOrderKeepsAllocation
INVARIANT ReservationConservation
PROPERTY ExpiredOrderLeavesPending
PROPERTY CancelledOrderReleased
PROPERTY StopDrains
PROPERTY ImplementsLifecycle
\* After Stop the loop returns and the service is gone: a terminal state.
CHECK_DEADLOCK FALSE
