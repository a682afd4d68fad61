SPECIFICATION Spec
CONSTANTS
    b1 = b1
    b2 = b2
    u1 = u1
    u2 = u2
    c1 = c1
    c2 = c2
    r1 = r1
    r2 = r2
    NoUser = NoUser
    Browsers <- TwoBrowsers
    Users <- TwoUsers
    MaxLogins = 2
    MaxSessions = 2
    MaxAttempts = 3
    Callbacks <- TwoCallbacks
    Requests <- TwoRequests
    MaxHandled = 3
    MaxEvents = 1
SYMMETRY Symmetry
INVARIANTS
    TypeOK
    LoginsMakeOneSession
    ChangesAreDue
    RefusalsHaveACause
CHECK_DEADLOCK FALSE
