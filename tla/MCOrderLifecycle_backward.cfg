\* Two concurrent requests on one order.
CONSTANTS
    o1 = o1
    s1 = s1
    s2 = s2
    s3 = s3
    r1 = r1
    r2 = r2
    None = None
    Orders = {o1}
    Stages = {s1}
    MaxSequence = 1
    MaxDozens = 1
    Fine = 10
    Amounts = {0, 10}
    MaxRecords = 1
    Requests = {r1, r2}
    MayFail = {}
    Serial = FALSE
    Resequencing = FALSE
SPECIFICATION Spec
PROPERTY NoBackwardTransition
CHECK_DEADLOCK FALSE
