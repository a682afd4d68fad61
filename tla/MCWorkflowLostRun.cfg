SPECIFICATION Spec
CONSTANTS
    h1 = h1
    h2 = h2
    NoHandler = NoHandler
    Handlers <- OneHandler
    Attempts <- OneAttempt
    Scenarios <- CrashScenario
VIEW View
INVARIANTS
    NoLostRun
CHECK_DEADLOCK FALSE
