SPECIFICATION Spec
CONSTANT ResultsOf <- MCResultsOf
INVARIANT NextPhaseIsLegal
CHECK_DEADLOCK FALSE
