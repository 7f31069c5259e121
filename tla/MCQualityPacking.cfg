\* Two concurrent requests on one order with two boxes.
CONSTANTS
    o1 = o1
    v1 = v1
    v2 = v2
    r1 = r1
    r2 = r2
    None = None
    Orders = {o1}
    Variants = {v1, v2}
    Outputs = {0, 1000}
    Amounts = {1000}
    Assemblies <- MCAssemblies
    MaxRecorded = 2000
    MaxBags = 1
    Requests = {r1, r2}
    Serial = FALSE
    MaxRetries = 3
SPECIFICATION Spec
INVARIANTS
    TypeOK
    BoxesAccounted
    AssembledAccounted
    AvailableBounded
    PostingFollowsVerification
    CalmPostsOnce
PROPERTIES
    PackingForward
    EveryRequestAnswered
CHECK_DEADLOCK FALSE
