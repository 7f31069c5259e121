\* Two concurrent production requests and one inventory request; one order
\* that takes one part out of two bags.
CONSTANTS
    b1 = b1
    b2 = b2
    o1 = o1
    o2 = o2
    o3 = o3
    p1 = p1
    p2 = p2
    w1 = w1
    w2 = w2
    r1 = r1
    g1 = g1
    g2 = g2
    None = None
    Bags = {b1, b2}
    Orders = {o1}
    Warehouses = {w1}
    ActiveWarehouses = {w1}
    Amounts = {1}
    Requests = {r1}
    MayFail = {g1, g2}
    Parts = {p1}
    CmoOrders = {o1}
    RetryLimit = 2
    Releasers = {g1, g2}
    Serial = FALSE
    Dozens <- MCDozens
    PartOf <- MCPartOf
    OrderParts <- MCOrderParts
    Stocked <- MCStocked
SPECIFICATION Spec
SYMMETRY MCSymmetry
INVARIANTS
    TypeOK
    PartsFollowReleases
    ReleaseUsesReservation
    GroupNumbersGapFree
    StartedFullyReleased
    CmoAccounted
CHECK_DEADLOCK FALSE
