\* Two concurrent requests on one bag that three orders want.
CONSTANTS
    b1 = b1
    o1 = o1
    o2 = o2
    o3 = o3
    w1 = w1
    w2 = w2
    r1 = r1
    r2 = r2
    None = None
    Bags = {b1}
    Orders = {o1, o2, o3}
    Warehouses = {w1, w2}
    ActiveWarehouses = {w1}
    Amounts = {1, 2}
    Requests = {r1, r2}
    MayFail = {r1, r2}
    Dozens <- MCDozens
SPECIFICATION BagSpec
SYMMETRY MCSymmetry
INVARIANTS
    BagTypeOK
    OneCustodian
    OverReservationBounded
PROPERTY ClosedForGood
\* A (bag, order) key is used once: the instance may run out of requests.
CHECK_DEADLOCK FALSE
