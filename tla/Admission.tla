----------------------------- MODULE Admission -----------------------------
(***************************************************************************)
(* Which Runs may wait and which may execute: the capacity decision of the *)
(* webhook (WebhookService.accept) and of POST /runs/:id/retry, the two    *)
(* triggers of the runs table (0005_run_capacity_triggers.sql), which      *)
(* overrule whatever status a statement writes, and the other two writers  *)
(* whose statements fire them: POST /runs/:id/cancel and the transition    *)
(* with which the Worker starts a Run.                                     *)
(*                                                                         *)
(* A request is one HTTP request or one transition of the Worker. Its      *)
(* transaction runs statement by statement at READ COMMITTED: each count   *)
(* sees what is committed when it is made, the triggers' counts too.       *)
(* Advisory locks, also those the triggers take, and the row lock of the   *)
(* pull request's upsert are held until the transaction ends. Every pull   *)
(* request is of another repository, so that no repository row serialises  *)
(* the webhooks. A delivery that is stale, of no allowed repository, or    *)
(* whose id has been seen returns before it reaches the runs table and is  *)
(* left out. The partial unique index on the active Runs of a pull request *)
(* (schema.ts:261) refuses nothing any more: the trigger that counts the   *)
(* active Runs of every pull request fires before it.                      *)
(*                                                                         *)
(* PLANNING stands for the four statuses of a Run at work, FAILED also for *)
(* INCOMPLETE: nothing here tells them apart.                              *)
(***************************************************************************)
EXTENDS FiniteSets, Integers, RunStatus

CONSTANTS
    Runs,              \* the possible Runs: a pull request and a head commit
    PullRequestOf,     \* the pull request of each
    Requests,          \* concurrent transactions
    NoRequest, NoRun,  \* not a request, not a Run
    Attempts,          \* attempt numbers, 1..n: bounds the retries
    QueueLimit,        \* the literal 3 of the webhook and of the queue's trigger
    MaxQueuedRuns      \* the retry's limit, MAX_QUEUED_RUNS

ASSUME AdmissionAssumption ==
    /\ IsFiniteSet(Runs)
    /\ NoRequest \notin Requests /\ NoRun \notin Runs
    /\ Attempts \subseteq Nat /\ 1 \in Attempts
    /\ QueueLimit \in Nat
    /\ MaxQueuedRuns \in 0..QueueLimit     \* integerEnv(3, 0, 3)

VARIABLES
    runs,       \* the runs table
    locks,      \* the holder of each platform-wide advisory lock
    request     \* where each request is, its Run, what it has read and written

vars == <<runs, locks, request>>

Statuses == {"ABSENT"} \union (RunStatuses \ {"RECEIVED"})
Run == [status : Statuses, cleanup : CleanupStatuses, attempt : Attempts]

Locks == {"run-capacity", "queued-runs", "active-runs"}

Places == {"idle", "asked", "locking", "counting", "recounting", "storing", "committing"}
Request ==
    [at : Places, kind : {"webhook", "retry", "cancel", "start"},
     run : Runs \union {NoRun}, seen : Run, active : Nat, queued : Nat, row : Run]

NewRun == [status |-> "ABSENT", cleanup |-> "NOT_SCHEDULED", attempt |-> 1]

IdleRequest ==
    [at |-> "idle", kind |-> "webhook", run |-> NoRun, seen |-> NewRun,
     active |-> 0, queued |-> 0, row |-> NewRun]

HoldsSlot(status) == status \in ExecutionLockStatuses
Active == {r \in Runs : HoldsSlot(runs[r].status)}
Queued == {r \in Runs : runs[r].status = "QUEUED"}

Init ==
    /\ runs = [r \in Runs |-> NewRun]
    /\ locks = [l \in Locks |-> NoRequest]
    /\ request = [q \in Requests |-> IdleRequest]

At(q, place) == request[q].at = place
Goto(q, place) == request' = [request EXCEPT ![q].at = place]

InTransaction(q) == request[q].at \notin {"idle", "asked"}

\* All but a webhook hold their Run's advisory lock.
RunLocked(r) ==
    \E q \in Requests : InTransaction(q) /\ request[q].kind # "webhook" /\ request[q].run = r

\* A webhook holds the row of its pull request.
PullRequestLocked(r) ==
    \E q \in Requests : /\ InTransaction(q)
                        /\ request[q].kind = "webhook"
                        /\ PullRequestOf[request[q].run] = PullRequestOf[r]

\* The row an open transaction has written keeps other statements waiting.
RowLocked(r) == \E q \in Requests : At(q, "committing") /\ request[q].run = r

-----------------------------------------------------------------------------
\* accept: a head that has no Run yet goes on to wait for the capacity lock.
Deliver(q, r) ==
    /\ At(q, "idle")
    /\ ~PullRequestLocked(r)
    /\ runs[r].status = "ABSENT"
    /\ request' = [request EXCEPT ![q].at = "locking", ![q].kind = "webhook", ![q].run = r]
    /\ UNCHANGED <<runs, locks>>

\* retry: a first look at the Run outside the transaction, then its lock.
AskRetry(q, r) ==
    /\ At(q, "idle")
    /\ \E confirmed \in BOOLEAN : CanRetry(runs[r].status, runs[r].cleanup, confirmed)
    /\ request' = [request EXCEPT ![q].at = "asked", ![q].kind = "retry", ![q].run = r,
                                  ![q].seen = runs[r]]
    /\ UNCHANGED <<runs, locks>>

LockRun(q) ==
    /\ At(q, "asked")
    /\ ~RunLocked(request[q].run)
    /\ Goto(q, "locking")
    /\ UNCHANGED <<runs, locks>>

\* cancel and transitionRun: nothing they read before they have the Run's lock matters.
Enter(q, r, kind) ==
    /\ At(q, "idle")
    /\ ~RunLocked(r)
    /\ request' = [request EXCEPT ![q].at = "storing", ![q].kind = kind, ![q].run = r]
    /\ UNCHANGED <<runs, locks>>

AskCancel(q, r) == runs[r].status \in CancellableStatuses /\ Enter(q, r, "cancel")

\* The Worker has the first job of the Run's attempt.
AskStart(q, r) == runs[r].status = "QUEUED" /\ Enter(q, r, "start")

\* Variant: requests do not exclude one another.
CapacityFreeAlways(q) == TRUE

\* The capacity lock; a retry then finds its Run changed, or looks further.
CapacityFree(q) == locks["run-capacity"] = NoRequest

LockCapacity(q) ==
    /\ At(q, "locking")
    /\ CapacityFree(q)
    /\ \/ /\ request[q].kind = "retry" => runs[request[q].run] = request[q].seen
          /\ locks' = [locks EXCEPT !["run-capacity"] = q]
          /\ Goto(q, "counting")
       \/ /\ request[q].kind = "retry"
          /\ runs[request[q].run] # request[q].seen
          /\ request' = [request EXCEPT ![q] = IdleRequest]
          /\ UNCHANGED locks
    /\ UNCHANGED runs

CountActive(q) ==
    /\ At(q, "counting")
    /\ request' = [request EXCEPT ![q].at = "recounting", ![q].active = Cardinality(Active)]
    /\ UNCHANGED <<runs, locks>>

CountQueued(q) ==
    /\ At(q, "recounting")
    /\ request' = [request EXCEPT ![q].at = "storing", ![q].queued = Cardinality(Queued)]
    /\ UNCHANGED <<runs, locks>>

\* The decision, on the counts as they were read.
Full(q) == request[q].active >= 1 \/ request[q].queued >= QueueLimit
HasRetryCapacity(q) == request[q].active < 1 /\ request[q].queued < MaxQueuedRuns

\* Variant: a Run there is no room for stays as it was received.
DecidedReceived(q) == IF Full(q) THEN "RECEIVED" ELSE "QUEUED"

Decided(q) == IF Full(q) THEN "REJECTED_BY_CAPACITY" ELSE "QUEUED"

-----------------------------------------------------------------------------
(***************************************************************************)
(* The triggers. A statement that lets a Run enter the queue, or the work, *)
(* takes that trigger's lock and is overruled when the place is taken. The *)
(* statement succeeds all the same, with another status than it wrote.     *)
(***************************************************************************)
EntersQueue(old, new) == new = "QUEUED" /\ old # "QUEUED"
EntersWork(old, new) == HoldsSlot(new) /\ ~HoldsSlot(old)

\* Variant: the triggers count without a lock.
NoTriggerLock(old, new) == {}

TriggerLock(old, new) ==
    {l \in {"queued-runs"} : EntersQueue(old, new)}
        \union {l \in {"active-runs"} : EntersWork(old, new)}

Overruled(old, new) ==
    \/ EntersQueue(old, new) /\ Cardinality(Queued) >= QueueLimit
    \/ EntersWork(old, new) /\ Cardinality(Active) >= 1

Store(q, row) ==
    LET old == runs[request[q].run].status
        stored == IF Overruled(old, row.status) THEN "REJECTED_BY_CAPACITY" ELSE row.status
        mine == TriggerLock(old, row.status)
    IN /\ \A l \in mine : locks[l] = NoRequest
       /\ locks' = [l \in Locks |-> IF l \in mine THEN q ELSE locks[l]]
       /\ request' = [request EXCEPT ![q].at = "committing", ![q].row = [row EXCEPT !.status = stored]]
       /\ UNCHANGED runs

\* Variant: session locks, which survive their transaction.
ReleasedByNobody(q) == locks

Released(q) == [l \in Locks |-> IF locks[l] = q THEN NoRequest ELSE locks[l]]

Done(q) == request' = [request EXCEPT ![q] = IdleRequest] /\ locks' = Released(q)

Create(q) ==
    /\ At(q, "storing")
    /\ request[q].kind = "webhook"
    /\ Store(q, [NewRun EXCEPT !.status = Decided(q)])

\* The update is conditional on status and attempt, not on the cleanup status.
Retry(q) ==
    LET r == request[q].run IN
    /\ At(q, "storing")
    /\ request[q].kind = "retry"
    /\ IF /\ HasRetryCapacity(q)
          /\ runs[r].status = request[q].seen.status
          /\ runs[r].attempt = request[q].seen.attempt
          /\ runs[r].attempt + 1 \in Attempts
       THEN Store(q, [status |-> "QUEUED", cleanup |-> "NOT_SCHEDULED",
                      attempt |-> runs[r].attempt + 1])
       ELSE Done(q) /\ UNCHANGED runs

Cancel(q) ==
    /\ At(q, "storing")
    /\ request[q].kind = "cancel"
    /\ Store(q, [runs[request[q].run] EXCEPT !.status = "CANCEL_REQUESTED", !.cleanup = "PENDING"])

Start(q) ==
    /\ At(q, "storing")
    /\ request[q].kind = "start"
    /\ Store(q, [runs[request[q].run] EXCEPT !.status = "PLANNING"])

Commit(q) ==
    /\ At(q, "committing")
    /\ runs' = [runs EXCEPT ![request[q].run] = request[q].row]
    /\ Done(q)

-----------------------------------------------------------------------------
\* The last transitions of an attempt (Workflow.tla has what happens before);
\* no trigger minds them.
End(r) ==
    /\ ~RunLocked(r)
    /\ \/ runs[r].status = "PLANNING" /\ \E to \in {"PASSED", "FAILED"} :
              runs' = [runs EXCEPT ![r].status = to]
       \/ /\ runs[r].status = "CANCEL_REQUESTED"
          /\ ValidTransition("CANCEL_REQUESTED", "CANCELLED", runs[r].cleanup = "CLEANED")
          /\ runs' = [runs EXCEPT ![r].status = "CANCELLED"]
    /\ UNCHANGED <<locks, request>>

\* setCleanupStatus, which takes no advisory lock; a failed cleanup may be run again.
CleanUp(r) ==
    /\ ~RowLocked(r)
    /\ runs[r].status \in {"PASSED", "FAILED", "CANCEL_REQUESTED"}
    /\ runs[r].cleanup # "CLEANED"
    /\ \E outcome \in {"CLEANED", "FAILED"} : runs' = [runs EXCEPT ![r].cleanup = outcome]
    /\ UNCHANGED <<locks, request>>

-----------------------------------------------------------------------------
Proceeds(q) ==
    \/ LockRun(q) \/ LockCapacity(q) \/ CountActive(q) \/ CountQueued(q)
    \/ Create(q) \/ Retry(q) \/ Cancel(q) \/ Start(q) \/ Commit(q)

Next ==
    \/ \E q \in Requests : \/ Proceeds(q)
                           \/ \E r \in Runs : \/ Deliver(q, r) \/ AskRetry(q, r)
                                              \/ AskCancel(q, r) \/ AskStart(q, r)
    \/ \E r \in Runs : End(r) \/ CleanUp(r)

Spec == Init /\ [][Next]_vars

-----------------------------------------------------------------------------
TypeOK ==
    /\ runs \in [Runs -> Run]
    /\ locks \in [Locks -> Requests \union {NoRequest}]
    /\ request \in [Requests -> Request]
    /\ \A q \in Requests : request[q].at # "idle" => request[q].run \in Runs

\* However webhooks, retries, cancellations and starts race, never more Runs wait than the
\* limit allows and never more than one is at work: what a trigger counted under its lock
\* cannot have grown when its transaction commits.
CapacityIsBounded ==
    /\ Cardinality(Queued) <= QueueLimit
    /\ Cardinality(Active) <= 1

\* The service decides on its own counts whether a new or repeated Run waits, writes the first
\* job for the Runs it decided so, and answers a retry with QUEUED; the queue's trigger
\* decides again afterwards. It never overrules the service: no Run waits without a job, and
\* no job is written for a Run that was turned away.
DecisionsStand ==
    \A q \in Requests : At(q, "committing") =>
        /\ request[q].kind = "webhook" => request[q].row.status = Decided(q)
        /\ request[q].kind = "retry" => request[q].row.status = "QUEUED"

\* No order in which requests and triggers take their locks blocks everybody: as long as
\* transactions are under way one of them can go on.
RequestsAreNotDeadlocked ==
    (\E q \in Requests : ~At(q, "idle")) => \E q \in Requests : ENABLED Proceeds(q)

\* A queued Run leaves the queue as the transition table allows, to work or to be cancelled
\* (run-status.ts:51).
QueuedRunsFollowTheTable ==
    [][\A r \in Runs : runs[r].status = "QUEUED" /\ runs'[r].status # "QUEUED"
          => ValidTransition("QUEUED", runs'[r].status, FALSE)]_vars
=============================================================================
