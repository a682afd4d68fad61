SPECIFICATION Spec
CONSTANTS
    h1 = h1
    h2 = h2
    NoHandler = NoHandler
    Handlers <- TwoHandlers
    Attempts <- TwoAttempts
    Scenarios <- AllScenarios
VIEW View
SYMMETRY HandlerSymmetry
INVARIANTS
    TypeOK
    VerdictsAreFounded
    OnlyFaultsLoseRuns
    RejectedRunsStop
    CleanedMeansGone
    CleanupSparesNewerAttempts
    PreviewsAreOfTestedCode
    PhasesStayOpen
PROPERTIES
    StepsFollowThePlan
    LifecycleSpec
CHECK_DEADLOCK FALSE
