\* Two stages of an order with two parts, and two concurrent returns.
CONSTANTS
    o1 = o1
    p1 = p1
    p2 = p2
    r1 = r1
    r2 = r2
    None = None
    Orders = {o1}
    Parts = {p1, p2}
    NumStages = 2
    MaxDozens = 2
    Returners = {r1, r2}
    MaxRetries = 3
    OrderParts <- MCOrderParts
SPECIFICATION Spec
SYMMETRY MCSymmetry
INVARIANTS
    TypeOK
    JournalExplainsBalance
    BalanceFollowsStages
    ConflictsMeanProgress
CHECK_DEADLOCK FALSE
