---------------------------- MODULE RunLifecycle ----------------------------
(***************************************************************************)
(* What the platform promises of a Run, seen from outside: which statuses  *)
(* it shows in which order, and which steps are done when it shows them.   *)
(* There are no handlers, jobs or leases here; Workflow.tla implements     *)
(* this specification.                                                     *)
(*                                                                         *)
(* A phase begins for a step that is due, a verdict is given when all      *)
(* steps but the cleanup are done, a cancelled attempt stays cancelled and *)
(* is confirmed only after its cleanup, and a new attempt starts from      *)
(* nothing. A queued Run may be turned away for another one, and stays so. *)
(***************************************************************************)
EXTENDS StepPlan

VARIABLES
    status,   \* of the Run
    attempt,  \* its current attempt
    cleanup,  \* the status of the attempt's cleanup
    done      \* the steps of the attempt whose results stand

vars == <<status, attempt, cleanup, done>>

\* A Run that the API has admitted, or one some of whose first steps are done.
Init ==
    /\ \E first \in Steps :
         /\ done = StepsBefore(first)
         /\ status = IF done = {} THEN "QUEUED"
                     ELSE PhaseForStep[WorkflowSteps[StepIndex[first] - 1]]
    /\ attempt = 1
    /\ cleanup = "NOT_SCHEDULED"

\* A step comes to stand after the ones before it; the cleanup of a cancelled
\* attempt at any time. Of a Run that was turned away the first step still may, and the
\* ones that are skipped when it fails: nothing is assembled for a review.
Settle(s) ==
    /\ s \notin done
    /\ status = "REJECTED_BY_CAPACITY" => s \in StepsBefore("assemble")
    /\ \/ StepsBefore(s) \subseteq done
       \/ s = "cleanup" /\ status \in {"CANCEL_REQUESTED", "CANCELLED"}
    /\ done' = done \union {s}
    /\ UNCHANGED <<status, attempt, cleanup>>

\* The Run enters the phase of a step that is due.
Enter(s) ==
    /\ PhaseForStep[s] # NoPhase
    /\ ValidTransition(status, PhaseForStep[s], FALSE)
    /\ StepsBefore(s) \subseteq done
    /\ status' = PhaseForStep[s]
    /\ UNCHANGED <<attempt, cleanup, done>>

Conclude(verdict) ==
    /\ ValidTransition(status, verdict, FALSE)
    /\ StepsBefore("cleanup") \subseteq done
    /\ status' = verdict
    /\ UNCHANGED <<attempt, cleanup, done>>

RequestCancel ==
    /\ status \in CancellableStatuses
    /\ status' = "CANCEL_REQUESTED" /\ cleanup' = "PENDING"
    /\ UNCHANGED <<attempt, done>>

\* Another Run is at work when a queued one is to begin, or is cancelled.
TurnAway ==
    /\ status = "QUEUED"
    /\ status' = "REJECTED_BY_CAPACITY"
    /\ cleanup' \in {cleanup, "PENDING"}
    /\ UNCHANGED <<attempt, done>>

\* Every cleanup that is begun shows, and how it ended; CLEANED only what is.
RecordCleanup(outcome) ==
    /\ status # "REJECTED_BY_CAPACITY"
    /\ cleanup' = outcome
    /\ outcome = "CLEANED" => "cleanup" \in done
    /\ UNCHANGED <<status, attempt, done>>

ConfirmCancel ==
    /\ ValidTransition(status, "CANCELLED", cleanup = "CLEANED")
    /\ status' = "CANCELLED"
    /\ UNCHANGED <<attempt, cleanup, done>>

NextAttempt ==
    /\ \E confirmed \in BOOLEAN : CanRetry(status, cleanup, confirmed)
    /\ attempt' = attempt + 1
    /\ status' = "QUEUED" /\ cleanup' = "NOT_SCHEDULED" /\ done' = {}

Next ==
    \/ \E s \in Steps : Settle(s) \/ Enter(s)
    \/ \E verdict \in Verdicts : Conclude(verdict)
    \/ \E outcome \in {"PENDING", "CLEANED", "FAILED"} : RecordCleanup(outcome)
    \/ RequestCancel \/ ConfirmCancel \/ TurnAway \/ NextAttempt

Spec == Init /\ [][Next]_vars
=============================================================================
