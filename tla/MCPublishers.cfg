SPECIFICATION FairSpec
CONSTANTS
    job = job
    s1 = s1
    s2 = s2
    c1 = c1
    p1 = p1
    p2 = p2
    Nobody = Nobody
    Jobs <- OneJob
    Statuses <- TwoStatuses
    Comments <- OneComment
    AttemptOf <- AttemptTable
    Publishers <- TwoPublishers
    Bounds <- Faults
INVARIANTS
    TypeOK
    MarkedMeansDelivered
    CommentsAreUnique
    GiteaShowsTheLatest
PROPERTIES RowsAreDelivered
CHECK_DEADLOCK FALSE
