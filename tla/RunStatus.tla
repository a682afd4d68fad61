----------------------------- MODULE RunStatus -----------------------------
(***************************************************************************)
(* The vocabulary of a Run: its statuses, its cleanup statuses, the table  *)
(* of legal status transitions, and the predicates the API and the Worker  *)
(* base their decisions on (packages/contracts/src/run-status.ts).         *)
(***************************************************************************)

RunStatuses ==
    {"RECEIVED", "QUEUED", "PLANNING", "EXECUTING", "ANALYZING", "REPORTING",
     "PASSED", "FAILED", "INCOMPLETE", "CANCEL_REQUESTED", "CANCELLED",
     "REJECTED_BY_CAPACITY"}

CleanupStatuses == {"NOT_SCHEDULED", "PENDING", "CLEANED", "FAILED"}

\* The statuses in which a Run holds the platform's execution slot.
ExecutionLockStatuses ==
    {"PLANNING", "EXECUTING", "ANALYZING", "REPORTING", "CANCEL_REQUESTED"}

TerminalRunStatuses ==
    {"PASSED", "FAILED", "INCOMPLETE", "CANCELLED", "REJECTED_BY_CAPACITY"}

\* The statuses a finished report may give a Run.
Verdicts == {"PASSED", "FAILED", "INCOMPLETE"}

\* Variant: no way past the skipped steps of EXECUTING.
TransitionsOneByOne ==
    [s \in RunStatuses |->
        CASE s = "QUEUED"           -> {"PLANNING", "CANCEL_REQUESTED"}
          [] s = "PLANNING"         -> {"EXECUTING", "INCOMPLETE", "CANCEL_REQUESTED"}
          [] s = "EXECUTING"        -> {"ANALYZING", "INCOMPLETE", "CANCEL_REQUESTED"}
          [] s = "ANALYZING"        -> {"REPORTING", "INCOMPLETE", "CANCEL_REQUESTED"}
          [] s = "REPORTING"        -> Verdicts
          [] s = "CANCEL_REQUESTED" -> {"CANCELLED"}
          [] OTHER                  -> {}]

Transitions ==
    [s \in RunStatuses |->
        CASE s = "RECEIVED"         -> {"QUEUED", "REJECTED_BY_CAPACITY"}
          [] s = "QUEUED"           -> {"PLANNING", "CANCEL_REQUESTED"}
          [] s = "PLANNING"         -> {"EXECUTING", "ANALYZING", "INCOMPLETE",
                                        "CANCEL_REQUESTED"}
          [] s = "EXECUTING"        -> {"ANALYZING", "INCOMPLETE",
                                        "CANCEL_REQUESTED"}
          [] s = "ANALYZING"        -> {"REPORTING", "INCOMPLETE",
                                        "CANCEL_REQUESTED"}
          [] s = "REPORTING"        -> Verdicts
          [] s = "CANCEL_REQUESTED" -> {"CANCELLED"}
          [] OTHER                  -> {}]

\* A cancellation request alone never makes a Run CANCELLED: the cleanup of
\* its resources must be recorded as confirmed.
ValidTransition(from, to, cleanupConfirmed) ==
    /\ to \in Transitions[from]
    /\ to = "CANCELLED" => cleanupConfirmed

IsTerminalRun(s) == s \in TerminalRunStatuses

\* The statuses POST /runs/:id/cancel accepts. REPORTING is one of them although
\* the table above has no transition from REPORTING to CANCEL_REQUESTED: the
\* API writes the status without consulting the table.
CancellableStatuses ==
    {"QUEUED", "PLANNING", "EXECUTING", "ANALYZING", "REPORTING"}

\* A Run may be retried after a failed or incomplete verdict once its cleanup
\* is confirmed, or has failed and a maintainer takes responsibility for it.
CanRetry(status, cleanup, manuallyConfirmed) ==
    /\ status \in {"FAILED", "INCOMPLETE"}
    /\ \/ cleanup = "CLEANED"
       \/ cleanup = "FAILED" /\ manuallyConfirmed
=============================================================================
