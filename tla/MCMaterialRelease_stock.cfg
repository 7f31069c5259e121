\* One request at a time, every operation; two orders that want a
\* bag that can be moved between two warehouses.
CONSTANTS
    b1 = b1
    b2 = b2
    o1 = o1
    o2 = o2
    o3 = o3
    p1 = p1
    p2 = p2
    w1 = w1
    w2 = w2
    r1 = r1
    g1 = g1
    g2 = g2
    None = None
    Bags = {b1}
    Orders = {o1, o2}
    Warehouses = {w1, w2}
    ActiveWarehouses = {w1, w2}
    Amounts = {1, 2}
    Requests = {r1}
    MayFail = {}
    Parts = {p1}
    CmoOrders = {o1}
    RetryLimit = 1
    Releasers = {g1}
    Serial = TRUE
    Dozens <- MCDozens
    PartOf <- MCPartOf
    OrderParts <- MCOrderParts
    Stocked <- MCStocked
SPECIFICATION Spec
INVARIANT StockNeverNegative
CHECK_DEADLOCK FALSE
