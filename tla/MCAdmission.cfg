SPECIFICATION Spec
CONSTANTS
    a1 = a1
    a2 = a2
    b1 = b1
    q1 = q1
    q2 = q2
    NoRequest = NoRequest
    NoRun = NoRun
    Runs <- ThreeRuns
    PullRequestOf <- PullRequestTable
    Requests <- TwoRequests
    Attempts <- TwoAttempts
    QueueLimit = 2
    MaxQueuedRuns = 1
SYMMETRY Symmetry
INVARIANTS
    TypeOK
    CapacityIsBounded
    DecisionsStand
    RequestsAreNotDeadlocked
CHECK_DEADLOCK FALSE
