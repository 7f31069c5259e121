\* Two concurrent requests of a user in one session.
CONSTANTS
    r1 = r1
    r2 = r2
    None = None
    Requests = {r1, r2}
    Roles <- MCRoles
    RoleRows <- MCRoleRows
    LaterRows <- MCLaterRows
    Scopes = {"sessions", "routes"}
    Asked <- MCAsked
    AccessTTL = 1
    RefreshTTL = 2
    CacheTTL = 1
    CallTime = 1
    MaxTime = 4
    MaxSessions = 1
    MaxMinted = 3
    MaxChanges = 1
SYMMETRY MCSymmetry
SPECIFICATION Spec
INVARIANTS
    TypeOK
    SessionsSound
    PermissionsFresh
    RequestsReachTheirHandlers
CHECK_DEADLOCK FALSE
