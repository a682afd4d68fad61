SPECIFICATION FairSpec
CONSTANTS
    h1 = h1
    h2 = h2
    NoHandler = NoHandler
    Handlers <- TwoHandlers
    Attempts <- OneAttempt
    Scenarios <- CancelScenario
PROPERTIES
    AttemptsConclude
    CancelTakesEffect
CHECK_DEADLOCK FALSE
