\* One request at a time: a dozen is recorded, packed and recorded again.
CONSTANTS
    o1 = o1
    v1 = v1
    v2 = v2
    r1 = r1
    r2 = r2
    None = None
    Orders = {o1}
    Variants = {v1, v2}
    Outputs = {1000}
    Amounts = {1000}
    Assemblies <- MCWholeBox
    MaxRecorded = 2000
    MaxBags = 1
    Requests = {r1, r2}
    Serial = TRUE
    MaxRetries = 3
SPECIFICATION Spec
INVARIANT RecordedWithinOutput
CHECK_DEADLOCK FALSE
