SPECIFICATION Spec
CONSTANTS
    a1 = a1
    a2 = a2
    b1 = b1
    q1 = q1
    q2 = q2
    NoRequest = NoRequest
    NoRun = NoRun
    Runs <- TwoPullRequests
    PullRequestOf <- PullRequestTable
    Requests <- OneRequest
    Attempts <- OneAttempt
    QueueLimit = 3
    MaxQueuedRuns = 3
PROPERTY QueuedRunsFollowTheTable
CHECK_DEADLOCK FALSE
