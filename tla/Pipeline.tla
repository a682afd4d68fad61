------------------------------ MODULE Pipeline ------------------------------
(***************************************************************************)
(* One attempt of a Run driven by an undisturbed Worker: the plan's steps  *)
(* are taken one at a time, each with every result its executor can give.  *)
(* There is no concurrency here (Workflow.tla adds it); what is explored   *)
(* is every combination of results, skips, phases and verdicts.            *)
(***************************************************************************)
EXTENDS StepPlan

CONSTANT ResultsOf      \* the results each step may have

ASSUME ResultsAssumption == ResultsOf \in [Steps -> SUBSET StepResults]

VARIABLES
    status,     \* runs.status
    cleanup,    \* runs.cleanup_status
    rec         \* the run_steps rows of the attempt

vars == <<status, cleanup, rec>>

Init ==
    /\ status = "QUEUED"
    /\ cleanup = "NOT_SCHEDULED"
    /\ rec = [s \in Steps |-> Absent]

\* moveToStepPhase: the phase must be the current status or a legal next one.
EnterPhase(s) ==
    \/ PhaseForStep[s] \in {NoPhase, status}
    \/ ValidTransition(status, PhaseForStep[s], cleanup = "CLEANED")

SkipStep(s) ==
    /\ NextStepAction(rec) = [action |-> "skip", step |-> s]
    /\ rec' = [rec EXCEPT ![s] = Skipped]
    /\ UNCHANGED <<status, cleanup>>

RunStep(s, result) ==
    /\ NextStepAction(rec) = [action |-> "run", step |-> s]
    /\ s # "cleanup"
    /\ EnterPhase(s)
    /\ rec' = [rec EXCEPT ![s] = result]
    /\ status' = IF s = "report" THEN DeriveFinalRunStatus(rec') ELSE PhaseForStep[s]
    /\ UNCHANGED cleanup

RunCleanup(result) ==
    /\ NextStepAction(rec) = [action |-> "run", step |-> "cleanup"]
    /\ rec' = [rec EXCEPT !["cleanup"] = result]
    /\ cleanup' = IF result = Passed THEN "CLEANED" ELSE "FAILED"
    /\ UNCHANGED status

Next ==
    \/ \E s \in Steps : SkipStep(s)
    \/ \E s \in Steps : \E result \in ResultsOf[s] : RunStep(s, result)
    \/ \E result \in ResultsOf["cleanup"] : RunCleanup(result)

Spec == Init /\ [][Next]_vars

-----------------------------------------------------------------------------
\* Whatever was skipped before it, the step the plan asks for next runs in a
\* phase the Run can legally enter, so no combination of results makes
\* transitionRun reject the Worker (consumer.ts moveToStepPhase).
NextPhaseIsLegal ==
    LET next == NextStepAction(rec) IN
    next.action = "run" /\ next.step # "cleanup" => EnterPhase(next.step)

\* PASSED is never the verdict of a Run of which any step before cleanup failed,
\* was skipped or stayed incomplete (architecture.md: such a Run must not pass
\* silently). An application failure still collects evidence and produces a review:
\* a Run is FAILED only when its review and report were produced.
VerdictsAreHonest ==
    /\ status = "PASSED" => \A s \in Steps \ {"cleanup"} : rec[s] = Passed
    /\ status = "FAILED" => \A s \in {"assemble", "review", "report"} : rec[s] = Passed

\* A preview is only ever deployed for a head whose profile was recognised and
\* whose tests and build passed.
PreviewOnlyOfTestedCode ==
    rec["preview"].status \in {"PASSED", "INCOMPLETE"}
        => \A s \in {"detect", "test", "build"} : rec[s] = Passed
=============================================================================
