\* Two concurrent requests in each of the scopes.
CONSTANTS
    r1 = r1
    r2 = r2
    None = None
    Requests = {r1, r2}
    Ids = {1, 2}
    Codes = {1, 2}
    PageLimits = {1, 2}
    Characters = {"A", "-"}
    PlaceCodes <- MCPlaceCodes
    HierarchyLimit = 1
    MaxLocations = 2
    Orders = {1}
    Amounts <- MCAmounts
    Reasons = {"LOSS", "AUDIT_VARIANCE"}
    ReportLimits = {1, 2}
    MaxJournal = 2
    MaxCounts = 2
    MaxDocuments = 1
    MaxActions = 1
    Items <- MCItems
    LineLists <- MCLineLists
    CountedAt = {1}
    CountedDozens = {0}
    Scopes = {"customers", "suppliers", "warehouses", "production_lines", "departments", "working_shifts", "models", "parts", "colors", "sizes", "stock", "counts", "supplements", "locations"}
SYMMETRY MCSymmetry
SPECIFICATION Spec
INVARIANTS
    TypeOK
    JournalExplainsStock
    ReadsComplete
    CheckedRowsActive
PROPERTIES
    DocumentsFollowWorkflow
CHECK_DEADLOCK FALSE
