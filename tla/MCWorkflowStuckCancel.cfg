SPECIFICATION FairSpec
CONSTANTS
    h1 = h1
    h2 = h2
    NoHandler = NoHandler
    Handlers <- OneHandler
    Attempts <- OneAttempt
    Scenarios <- CancelledTests
PROPERTIES
    CancelTakesEffect
CHECK_DEADLOCK FALSE
