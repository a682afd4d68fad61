SPECIFICATION FairSpec
CONSTANTS
    hA = hA
    hB = hB
    f = f
    g = g
    NoFile = NoFile
    MaxWorkers = 2
    MaxCalls = 2
    Heads <- TwoHeads
    RunHead = hA
    Files <- TwoFiles
    Edits <- EditTable
    Answers <- SomeAnswers
    Transports <- BothTransports
    MaxOverlaps = 1
    MaxEvents = 3
INVARIANTS
    TypeOK
    PassedReviewsAreSound
    WaitersAreServed
PROPERTIES ReviewsEnd
CHECK_DEADLOCK FALSE
