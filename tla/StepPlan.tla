------------------------------ MODULE StepPlan ------------------------------
(***************************************************************************)
(* The fixed plan of a Run: eleven steps in order, the gates that skip the *)
(* later ones after a failure, the status phase each step runs in, and the *)
(* verdict derived from the recorded results                               *)
(* (apps/worker/src/workflow/{types,plan,state-machine,consumer}.ts).      *)
(*                                                                         *)
(* A book of records maps each step to its run_steps row, abstracted to    *)
(* the status and to whether a failure is the application's own ("app") or *)
(* anything else ("other": infrastructure, model, evidence, cancelled).    *)
(* A step without a row is ABSENT. "assemble" and "review" abbreviate the  *)
(* source's assemble-review-input and agent-review.                        *)
(***************************************************************************)
EXTENDS Integers, Sequences, RunStatus

WorkflowSteps ==
    <<"detect", "fetch", "analyze", "test", "build", "preview", "health",
      "assemble", "review", "report", "cleanup">>

Steps == {WorkflowSteps[i] : i \in DOMAIN WorkflowSteps}

StepIndex == [s \in Steps |-> CHOOSE i \in DOMAIN WorkflowSteps :
                                  WorkflowSteps[i] = s]

\* The steps that come before a step.
StepsBefore(step) == {s \in Steps : StepIndex[s] < StepIndex[step]}

TerminalStepStatuses == {"PASSED", "FAILED", "SKIPPED", "INCOMPLETE", "CANCELLED"}
StepStatuses == {"ABSENT", "PENDING", "RUNNING"} \union TerminalStepStatuses
FailureKinds == {"none", "app", "other"}

Record == [status : StepStatuses, kind : FailureKinds]

Passed     == [status |-> "PASSED",     kind |-> "none"]
AppFailure == [status |-> "FAILED",     kind |-> "app"]
HardFailed == [status |-> "FAILED",     kind |-> "other"]
Incomplete == [status |-> "INCOMPLETE", kind |-> "other"]
Skipped    == [status |-> "SKIPPED",    kind |-> "none"]
Absent     == [status |-> "ABSENT",     kind |-> "none"]

\* What an executor may report: a pass, a failure of any kind, or INCOMPLETE,
\* which the result type never combines with an application failure.
StepResults == {Passed, AppFailure, HardFailed, Incomplete}

\* What the executors of the repository do report for each step: "app" failures
\* come from the source and its tests, the rest is INCOMPLETE.
ExecutorResults ==
    [s \in Steps |->
        CASE s \in {"assemble", "report"}            -> {Passed}
          [] s \in {"preview", "review", "cleanup"}  -> {Passed, Incomplete}
          [] OTHER                                   -> {Passed, AppFailure, Incomplete}]

-----------------------------------------------------------------------------
\* Variants: failing tests do not keep the preview back; they skip the review too.
GateKeepingPreview ==
    [s \in Steps |->
        CASE s = "detect"  -> {"fetch", "analyze", "test", "build", "preview",
                               "health"}
          [] s = "test"    -> {"build", "health"}
          [] s = "build"   -> {"preview", "health"}
          [] OTHER         -> {}]

GateSkippingReview ==
    [s \in Steps |->
        CASE s = "detect"  -> {"fetch", "analyze", "test", "build", "preview",
                               "health"}
          [] s = "test"    -> {"build", "preview", "health", "review"}
          [] s = "build"   -> {"preview", "health"}
          [] OTHER         -> {}]

\* The gate table: an application failure of the key skips the steps listed.
ApplicationGate ==
    [s \in Steps |->
        CASE s = "detect"  -> {"fetch", "analyze", "test", "build", "preview",
                               "health"}
          [] s = "test"    -> {"build", "preview", "health"}
          [] s = "build"   -> {"preview", "health"}
          [] s = "preview" -> {"health"}
          [] OTHER         -> {}]

HardFailureBeforeAssemble(rec) ==
    \E s \in Steps :
        /\ StepIndex[s] < StepIndex["assemble"]
        /\ rec[s].status = "INCOMPLETE" \/ rec[s] = HardFailed

ShouldSkip(rec, step) ==
    \/ \E gate \in Steps : rec[gate] = AppFailure /\ step \in ApplicationGate[gate]
    \/ /\ step \notin {"assemble", "review", "report", "cleanup"}
       /\ HardFailureBeforeAssemble(rec)
    \/ step = "review" /\ rec["assemble"].status = "FAILED"

\* Variant: a running step counts as done.
SettledOnceStarted(step, status) ==
    /\ status \in TerminalStepStatuses \union {"RUNNING"}
    /\ ~(step = "cleanup" /\ status \in {"FAILED", "INCOMPLETE"})

\* A cleanup that failed may be run again; every other terminal result stands.
SettledForRetry(step, status) ==
    /\ status \in TerminalStepStatuses
    /\ ~(step = "cleanup" /\ status \in {"FAILED", "INCOMPLETE"})

\* The next thing to do: retry a failed cleanup, else run or skip the first
\* step that is not settled, else nothing.
NoAction == [action |-> "none", step |-> "cleanup"]

NextStepAction(rec) ==
    LET open == {s \in Steps : ~SettledForRetry(s, rec[s].status)}
        first == CHOOSE s \in open : \A t \in open : StepIndex[s] <= StepIndex[t]
    IN  IF rec["cleanup"].status \in {"FAILED", "INCOMPLETE"}
        THEN [action |-> "run", step |-> "cleanup"]
        ELSE IF open = {} THEN NoAction
        ELSE [action |-> IF ShouldSkip(rec, first) THEN "skip" ELSE "run", step |-> first]

-----------------------------------------------------------------------------
\* The status a Run has while a step executes; cleanup has no phase of its own.
NoPhase == "none"

PhaseForStep ==
    [s \in Steps |->
        CASE s \in {"detect", "fetch"}                                -> "PLANNING"
          [] s \in {"analyze", "test", "build", "preview", "health"}  -> "EXECUTING"
          [] s = "assemble"                                           -> "ANALYZING"
          [] s \in {"review", "report"}                               -> "REPORTING"
          [] OTHER                                                    -> NoPhase]

\* Variants: an incomplete step, or an application failure, is overlooked.
DeriveIgnoringIncomplete(rec) ==
    IF rec["report"].status # "PASSED" \/ \E s \in Steps : rec[s] = HardFailed
    THEN "INCOMPLETE"
    ELSE IF \E s \in Steps : rec[s] = AppFailure THEN "FAILED" ELSE "PASSED"

DeriveIgnoringFailure(rec) ==
    IF \/ rec["report"].status # "PASSED"
       \/ \E s \in Steps : rec[s].status = "INCOMPLETE" \/ rec[s] = HardFailed
    THEN "INCOMPLETE" ELSE "PASSED"

\* The verdict of a Run whose report step has ended.
DeriveFinalRunStatus(rec) ==
    IF \/ rec["report"].status # "PASSED"
       \/ \E s \in Steps : rec[s].status = "INCOMPLETE" \/ rec[s] = HardFailed
    THEN "INCOMPLETE"
    ELSE IF \E s \in Steps : rec[s] = AppFailure THEN "FAILED" ELSE "PASSED"
=============================================================================
