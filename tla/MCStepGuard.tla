---------------------------- MODULE MCStepGuard ----------------------------
EXTENDS StepGuard

CONSTANTS test, cleanup, w1, w2

TwoKeys == {test, cleanup}
CleanupKey == {cleanup}
TwoCalls == {w1, w2}
=============================================================================
