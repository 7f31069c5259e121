\* Two concurrent requests on one bag that two orders want.
CONSTANTS
    b1 = b1
    o1 = o1
    o2 = o2
    o3 = o3
    w1 = w1
    w2 = w2
    r1 = r1
    r2 = r2
    None = None
    Bags = {b1}
    Orders = {o1, o2}
    Warehouses = {w1, w2}
    ActiveWarehouses = {w1}
    Amounts = {1, 2}
    Requests = {r1, r2}
    MayFail = {}
    Dozens <- MCDozens
SPECIFICATION BagSpec
INVARIANT NoOverReservation
CHECK_DEADLOCK FALSE
