\* One request at a time; one order, three stages that come, go and move.
CONSTANTS
    o1 = o1
    s1 = s1
    s2 = s2
    s3 = s3
    r1 = r1
    r2 = r2
    None = None
    Orders = {o1}
    Stages = {s1, s2, s3}
    MaxSequence = 4
    MaxDozens = 3
    Fine = 10
    Amounts = {0, 4, 10, 13, 15, 20, 30}
    MaxRecords = 2
    Requests = {r1}
    MayFail = {r1}
    Serial = TRUE
    Resequencing = FALSE
SPECIFICATION Spec
SYMMETRY MCSymmetry
INVARIANTS
    TypeOK
    PartsJustifyStatus
    NeverStuck
    ReportsAgree
PROPERTY ImplementsWorkflow
CHECK_DEADLOCK FALSE
