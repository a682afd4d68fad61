SPECIFICATION FairSpec
CONSTANTS
    e1 = e1
    e2 = e2
    NoExecution = NoExecution
    Executions <- TwoExecutions
    MaxAttempt = 2
    StepsOf <- PerAttempt
    Bounds <- Faults
    MaxFaults = 2
INVARIANTS
    TypeOK
    ExecutionsAreSound
    TestsRunOnTheirSource
    TokensAreRevoked
    CleanupIsFinal
PROPERTIES NamespaceIsRemoved
CHECK_DEADLOCK FALSE
