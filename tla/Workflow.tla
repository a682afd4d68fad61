------------------------------ MODULE Workflow ------------------------------
(***************************************************************************)
(* One Run of the platform: the Worker's handlers that carry its workflow  *)
(* jobs (WorkflowConsumer), the job queue that delivers them at least once *)
(* (pg-boss), the outbox, the step guard, and the API and retention        *)
(* operations that act on the same Run from outside.                       *)
(*                                                                         *)
(* A handler is one execution of WorkflowConsumer.handle. It stands at the *)
(* await it will resume from ("at") and holds what it has read: every      *)
(* database statement is an action of its own, so that what a handler read *)
(* may be stale when it acts on it. Several handlers run at once while the *)
(* Worker is rolled out, and when the queue gives a job up for expired and *)
(* delivers it again although its handler is still alive.                  *)
(*                                                                         *)
(* Two reads with nothing but local work between them are one action, and  *)
(* so are a read and the send of a job computed from it.                   *)
(***************************************************************************)
EXTENDS Bags, FiniteSets, StepPlan

CONSTANTS
    Handlers,     \* concurrent executions of WorkflowConsumer.handle
    NoHandler,    \* the token of a row nobody holds
    Attempts,     \* attempt numbers, 1..n
    Scenarios     \* the step the Run is about to take initially, the results the
                  \* executor may report, how often each event may happen, and
                  \* whether other Runs may be at work meanwhile ("crowded")

\* The events TLC bounds: Worker deaths, job expiries under a live handler,
\* leases lost by a live handler, outbox rows published twice, the user's cancel
\* and retry requests, and retention sweeps. "beside" is how many handlers may
\* be at work beside another; there are finitely many.
Events == {"crash", "expiry", "lease", "duplicate", "cancel", "retry", "sweep", "beside"}

ASSUME WorkflowAssumption ==
    /\ NoHandler \notin Handlers /\ IsFiniteSet(Handlers)
    /\ 1 \in Attempts /\ Attempts \subseteq Nat \ {0}
    /\ \A s \in Scenarios :
         /\ s.first \in Steps \ {"cleanup"}
         /\ s.results \in [Steps -> SUBSET StepResults]
         /\ s.bounds \in [Events -> Nat]
         /\ s.crowded \in BOOLEAN
         /\ AppFailure \notin s.results["cleanup"]

\* Neither of the executors that the Worker is started with lets the assembling of the
\* review's input fail: it has nothing to do.
ASSUME AssemblingPasses == \A s \in Scenarios : s.results["assemble"] \subseteq {Passed}

\* Nor does either executor report a review or a report as the application's failure: a review
\* passes or is INCOMPLETE, and a report is only made.
ASSUME OnlySourceStepsFail ==
    \A s \in Scenarios : \A t \in {"review", "report"} : AppFailure \notin s.results[t]

VARIABLES
    run,        \* runs: status, current attempt, cleanup status
    rows,       \* run_steps, as the step guard sees them
    kinds,      \* run_steps: the failure kind of each row
    call,       \* the handlers inside runOnce
    executed,   \* history of the step guard
    handler,    \* the local state of every handler
    jobs,       \* the queue: a bag of jobs waiting for a handler
    outbox,     \* workflow_outbox: status and publish attempts of each row
    namespace,  \* does the Run's namespace exist, no deletion of it accepted?
    details,    \* steps whose plan, preview or report has been saved
    scenario,   \* the one of Scenarios that takes place
    spent       \* how often each event has happened

guardVars == <<rows, call, executed>>
worldVars == <<namespace, details>>
boundVars == <<scenario, spent>>
vars == <<run, rows, kinds, call, executed, handler, jobs, outbox, namespace,
          details, boundVars>>

StepKeys == Attempts \X Steps

Guard == INSTANCE StepGuard
           WITH Keys <- StepKeys, RetryableKeys <- Attempts \X {"cleanup"},
                Calls <- Handlers, NoCall <- NoHandler

Book(a) == [s \in Steps |-> [status |-> rows[<<a, s>>].status, kind |-> kinds[<<a, s>>]]]

\* The attempt as a walk through the plan, for what Pipeline says of its states: here
\* the handlers take its steps together, over records that they read some time ago.
Walk == INSTANCE Pipeline
          WITH status <- run.status, cleanup <- run.cleanup, rec <- Book(run.attempt),
               ResultsOf <- ExecutorResults

-----------------------------------------------------------------------------
\* A job names its step; "left" counts the redeliveries pg-boss still allows
\* (retryLimit 1).
MaxDeliveryRetries == 1

JobFor(a, s) == [attempt |-> a, step |-> s, left |-> MaxDeliveryRetries]
Jobs == [attempt : Attempts, step : Steps, left : 0..MaxDeliveryRetries]

Send(a, s) == jobs' = jobs (+) SetToBag({JobFor(a, s)})

\* Variant: the queue delivers again without counting.
RedeliveredAlways(h) ==
    IF handler[h].owned THEN SetToBag({[handler[h].job EXCEPT !.left = @ - 1]}) ELSE EmptyBag

Redelivered(h) ==
    IF handler[h].owned /\ handler[h].job.left > 0
    THEN SetToBag({[handler[h].job EXCEPT !.left = @ - 1]})
    ELSE EmptyBag

\* Where a handler can stand.
Places ==
    {"idle", "redirect", "list", "skip", "phase", "setPending", "admit", "guard",
     "record", "finalize", "verdict", "cleanup", "confirm", "refresh", "next",
     "cancelList", "done", "failed"}

Paths == {"advance", "cancel"}

HandlerState ==
    [at : Places, job : Jobs, owned : BOOLEAN, path : Paths,
     snap : RunStatuses,   \* the Run's status, as far as this handler knows
     target : Steps,       \* the step to skip
     result : StepResults, \* what runOnce returned
     ran : BOOLEAN,        \* runOnce returned 'executed', not 'already-terminal'
     verdict : Verdicts]   \* the verdict to report

IdleHandler ==
    [at |-> "idle", job |-> [attempt |-> 1, step |-> "detect", left |-> 0],
     owned |-> FALSE, path |-> "advance", snap |-> "QUEUED", target |-> "detect",
     result |-> Passed, ran |-> FALSE, verdict |-> "PASSED"]

At(h, place) == handler[h].at = place
Job(h) == handler[h].job
Key(h) == <<Job(h).attempt, Job(h).step>>
Goto(h, place) == handler' = [handler EXCEPT ![h].at = place]

\* Variant: the attempt of the job is not compared.
CurrentAlways(h) == TRUE

\* Every write to the Run is conditional on the attempt of the job.
Current(h) == Job(h).attempt = run.attempt

\* Variant: the transition is not looked up.
MayMoveUnchecked(h, to) == Current(h)

\* transitionRun, under the Run's lock: the attempt and the transition must hold.
MayMove(h, to) ==
    Current(h) /\ ValidTransition(run.status, to, run.cleanup = "CLEANED")

\* runs_enforce_active_capacity: a Run that is written as one at work is stored as
\* rejected if another one is at work by then. The statement succeeds all the same, and
\* its caller goes on as if the Run had the status that it wrote.
StoredAs(to) ==
    {to} \union {rejected \in {"REJECTED_BY_CAPACITY"} :
                   /\ scenario.crowded
                   /\ to \in ExecutionLockStatuses
                   /\ run.status \notin ExecutionLockStatuses}

Move(h, to) ==
    /\ MayMove(h, to)
    /\ \E stored \in StoredAs(to) : run' = [run EXCEPT !.status = stored]

\* The scenario stays what it was chosen to be.
Spend(event) ==
    /\ spent[event] < scenario.bounds[event]
    /\ spent' = [spent EXCEPT ![event] = @ + 1]
    /\ UNCHANGED scenario

-----------------------------------------------------------------------------
\* A new Run of the API, or one whose first steps have passed undisturbed.
NoRow == [status |-> "ABSENT", attempts |-> 0]

Init ==
    LET done == StepsBefore(scenario.first) IN
    /\ scenario \in Scenarios
    /\ run = [status  |-> IF done = {} THEN "QUEUED"
                          ELSE PhaseForStep[WorkflowSteps[StepIndex[scenario.first] - 1]],
              attempt |-> 1,
              cleanup |-> "NOT_SCHEDULED"]
    /\ rows = [k \in StepKeys |->
                 [status |-> IF k[1] = 1 /\ k[2] \in done THEN "PASSED" ELSE "ABSENT",
                  token |-> NoHandler, live |-> FALSE]]
    /\ kinds = [k \in StepKeys |-> "none"]
    /\ call = [h \in Handlers |->
                 [at |-> "idle", key |-> <<1, "detect">>, lost |-> FALSE, result |-> "PASSED",
                  found |-> NoHandler]]
    /\ executed = [k \in StepKeys |-> IF k[1] = 1 /\ k[2] \in done THEN 1 ELSE 0]
    /\ handler = [h \in Handlers |-> IdleHandler]
    /\ jobs = IF done = {} THEN EmptyBag ELSE SetToBag({JobFor(1, scenario.first)})
    /\ outbox = [k \in Attempts \X {"detect", "cleanup"} |->
                   IF k # <<1, "detect">> THEN NoRow
                   ELSE IF done = {} THEN [status |-> "PENDING", attempts |-> 0]
                        ELSE [status |-> "PUBLISHED", attempts |-> 1]]
    /\ namespace = (done \intersect {"fetch", "analyze", "test", "build", "preview"} # {})
    /\ details = {1} \X (done \intersect {"detect", "preview", "review"})
    /\ spent = [e \in Events |-> 0]

-----------------------------------------------------------------------------
\* handle: fetch a job, read the Run, and choose the way. Jobs of an older
\* attempt are discarded.
Opening(job) ==
    IF job.attempt # run.attempt THEN "done"
    ELSE IF run.status # "CANCEL_REQUESTED" THEN "list"
    ELSE IF job.step = "cleanup" THEN "cancelList" ELSE "redirect"

Receive(h) ==
    /\ At(h, "idle")
    /\ Cardinality({g \in Handlers : ~At(g, "idle")}) <= scenario.bounds["beside"]
    /\ \E job \in BagToSet(jobs) :
         /\ jobs' = jobs (-) SetToBag({job})
         /\ handler' = [handler EXCEPT ![h] =
                          [IdleHandler EXCEPT !.at = Opening(job), !.job = job,
                                              !.owned = TRUE, !.snap = run.status]]
    /\ UNCHANGED <<run, kinds, guardVars, outbox, worldVars, boundVars>>

Redirect(h) ==
    /\ At(h, "redirect")
    /\ Send(Job(h).attempt, "cleanup")
    /\ Goto(h, "done")
    /\ UNCHANGED <<run, kinds, guardVars, outbox, worldVars, boundVars>>

\* advance: one round of its loop starts by reading the records of the attempt.
AfterListing(h, rec, next) ==
    CASE next.action = "none" -> "done"
      [] next.action = "skip" -> "skip"
      [] next.action = "run"  ->
           IF next.step = Job(h).step THEN "phase"
           ELSE IF rec[Job(h).step].status \in TerminalStepStatuses THEN "next" ELSE "failed"

List(h) ==
    LET rec  == Book(Job(h).attempt)
        next == NextStepAction(rec)
    IN  /\ At(h, "list")
        /\ handler' = [handler EXCEPT ![h].at = AfterListing(h, rec, next),
                                      ![h].target = IF next.action = "skip"
                                                    THEN next.step ELSE "detect"]
        /\ UNCHANGED <<run, kinds, guardVars, jobs, outbox, worldVars, boundVars>>

\* Steps whose outcome is shown on the pull request; storing the status is
\* refused when the attempt is no longer the current one.
StatusSteps == {"analyze", "test", "build", "health"}

\* Variant: after a skip the handler is through.
SkipAndStop(h) ==
    LET k == <<Job(h).attempt, handler[h].target>> IN
    /\ At(h, "skip")
    /\ \/ Guard!Settled(k) /\ UNCHANGED guardVars
       \/ Guard!MarkSkipped(k)
       \/ rows[k].status = "RUNNING" /\ UNCHANGED guardVars
    /\ Goto(h, IF rows[k].status = "RUNNING" THEN "failed" ELSE "done")
    /\ UNCHANGED <<run, kinds, jobs, outbox, worldVars, boundVars>>

\* Skip the target. markSkipped leaves settled rows alone and refuses a running one.
Skip(h) ==
    LET k == <<Job(h).attempt, handler[h].target>> IN
    /\ At(h, "skip")
    /\ \/ Guard!Settled(k) /\ UNCHANGED guardVars
       \/ Guard!MarkSkipped(k)
       \/ rows[k].status = "RUNNING" /\ UNCHANGED guardVars
    /\ Goto(h, IF rows[k].status = "RUNNING" \/ (k[2] \in StatusSteps /\ ~Current(h))
               THEN "failed" ELSE "list")
    /\ UNCHANGED <<run, kinds, jobs, outbox, worldVars, boundVars>>

\* moveToStepPhase: no transition when the status read before is already the
\* step's phase, whatever the status is now.
Phase(h) ==
    LET target == PhaseForStep[Job(h).step] IN
    /\ At(h, "phase")
    /\ \/ /\ target \in {NoPhase, handler[h].snap}
          /\ Goto(h, IF Job(h).step = "cleanup" THEN "setPending" ELSE "admit")
          /\ UNCHANGED run
       \/ /\ target \notin {NoPhase, handler[h].snap}
          /\ Move(h, target)
          /\ handler' = [handler EXCEPT ![h].at = "admit", ![h].snap = target]
       \/ /\ target \notin {NoPhase, handler[h].snap}
          /\ ~MayMove(h, target)
          /\ Goto(h, "failed")
          /\ UNCHANGED run
    /\ UNCHANGED <<kinds, guardVars, jobs, outbox, worldVars, boundVars>>

\* setCleanupStatus('PENDING') before a cleanup, on both paths.
SetPending(h) ==
    /\ At(h, "setPending")
    /\ IF Current(h)
       THEN run' = [run EXCEPT !.cleanup = "PENDING"] /\ Goto(h, "admit")
       ELSE UNCHANGED run /\ Goto(h, "failed")
    /\ UNCHANGED <<kinds, guardVars, jobs, outbox, worldVars, boundVars>>

-----------------------------------------------------------------------------
\* runOnce, as the step guard has it: a busy step fails the job, a settled one
\* is passed by, an admitted one is executed.
Admit(h) ==
    /\ At(h, "admit")
    /\ \/ /\ Guard!AlreadyTerminal(h, Key(h))
          /\ Goto(h, "record")
          /\ UNCHANGED kinds
       \/ Guard!Busy(h, Key(h)) /\ Goto(h, "failed") /\ UNCHANGED kinds
       \/ /\ Guard!Admit(h, Key(h))
          /\ Goto(h, "guard")
          /\ kinds' = [kinds EXCEPT ![Key(h)] = "none"]
    /\ UNCHANGED <<run, jobs, outbox, worldVars, boundVars>>

\* The steps that create the namespace when it does not exist. An operation that
\* ends INCOMPLETE may have come that far or not.
NamespaceSteps == {"fetch", "analyze", "test", "build", "preview"}

NamespaceAfter(step, result) ==
    LET after == CASE step \in NamespaceSteps -> TRUE
                   [] step = "cleanup"        -> FALSE
                   [] OTHER                   -> namespace
    IN  IF result.status = "INCOMPLETE" THEN {namespace, after} ELSE {after}

Execute(h) ==
    /\ At(h, "guard")
    /\ \E r \in scenario.results[Job(h).step] :
         /\ Guard!OperationReturns(h, r.status)
         /\ namespace' \in NamespaceAfter(Job(h).step, r)
         /\ handler' = [handler EXCEPT ![h].result = r]
    /\ UNCHANGED <<run, kinds, jobs, outbox, details, boundVars>>

Persist(h) ==
    /\ At(h, "guard")
    /\ \/ /\ Guard!Persist(h)
          /\ kinds' = [kinds EXCEPT ![Key(h)] = handler[h].result.kind]
          /\ handler' = [handler EXCEPT ![h].at = "record", ![h].ran = TRUE]
       \/ Guard!LeaseLost(h) /\ UNCHANGED <<kinds, handler>>
       \/ Guard!Release(h) /\ Goto(h, "failed") /\ UNCHANGED kinds
    /\ UNCHANGED <<run, jobs, outbox, worldVars, boundVars>>

Heartbeat(h) ==
    /\ At(h, "guard")
    /\ Guard!Heartbeat(h)
    /\ UNCHANGED <<run, kinds, handler, jobs, outbox, worldVars, boundVars>>

\* persistStepDetails: what an execution may have to save. A preview without a
\* host and a review without a report have nothing.
MaySave(step, result) ==
    CASE step \in {"detect", "review"} /\ result = Passed -> {TRUE}
      [] step = "preview" /\ result = Passed             -> BOOLEAN
      [] step = "review" /\ result # Passed              -> BOOLEAN
      [] OTHER                                           -> {FALSE}

\* Variant: the report of the review is not saved.
DetailsWithoutReview(h) ==
    IF handler[h].ran /\ Job(h).step # "review"
    THEN {IF saves THEN {Key(h)} ELSE {} : saves \in MaySave(Job(h).step, handler[h].result)}
    ELSE {{}}

DetailsOf(h) ==
    IF handler[h].ran
    THEN {IF saves THEN {Key(h)} ELSE {} : saves \in MaySave(Job(h).step, handler[h].result)}
    ELSE {{}}

AfterRecording(h) ==
    CASE Job(h).step = "report"  -> "finalize"
      [] Job(h).step = "cleanup" -> "cleanup"
      [] OTHER                   -> "refresh"

\* Both writes, the details and the commit status, refuse an older attempt.
RecordStep(h) ==
    /\ At(h, "record")
    /\ \E saved \in DetailsOf(h) :
         IF ~Current(h) /\ (saved # {} \/ Job(h).step \in StatusSteps)
         THEN Goto(h, "failed") /\ UNCHANGED details
         ELSE /\ details' = details \union saved
              /\ Goto(h, IF handler[h].path = "cancel" THEN "cleanup" ELSE AfterRecording(h))
    /\ UNCHANGED <<run, kinds, guardVars, jobs, outbox, namespace, boundVars>>

-----------------------------------------------------------------------------
\* finalizeReport reads the records and the Run, then moves the Run.
Finalize(h) ==
    /\ At(h, "finalize")
    /\ IF IsTerminalRun(run.status)
       THEN Goto(h, "refresh")
       ELSE handler' = [handler EXCEPT
                          ![h].at = "verdict",
                          ![h].verdict = DeriveFinalRunStatus(Book(Job(h).attempt))]
    /\ UNCHANGED <<run, kinds, guardVars, jobs, outbox, worldVars, boundVars>>

Verdict(h) ==
    LET to == handler[h].verdict IN
    /\ At(h, "verdict")
    /\ \/ Move(h, to) /\ Goto(h, "refresh")
       \/ ~MayMove(h, to) /\ UNCHANGED run /\ Goto(h, "failed")
    /\ UNCHANGED <<kinds, guardVars, jobs, outbox, worldVars, boundVars>>

\* Variant: the outcome of the cleanup is not looked at.
CleanupSucceededAlways(h) == TRUE

\* finalizeCleanup stores the outcome, then completes a requested cancellation.
CleanupSucceeded(h) == handler[h].ran => handler[h].result = Passed

\* Variants: a failed cleanup is not recorded; a cancellation is not confirmed.
FinalizeSuccessOnly(h) ==
    /\ At(h, "cleanup")
    /\ run' = IF CleanupSucceeded(h) THEN [run EXCEPT !.cleanup = "CLEANED"] ELSE run
    /\ Goto(h, IF CleanupSucceeded(h) THEN "confirm" ELSE "done")
    /\ UNCHANGED <<kinds, guardVars, jobs, outbox, worldVars, boundVars>>

FinalizeWithoutConfirming(h) ==
    /\ At(h, "cleanup")
    /\ run' = [run EXCEPT !.cleanup = IF CleanupSucceeded(h) THEN "CLEANED" ELSE "FAILED"]
    /\ Goto(h, "done")
    /\ UNCHANGED <<kinds, guardVars, jobs, outbox, worldVars, boundVars>>

FinalizeCleanup(h) ==
    /\ At(h, "cleanup")
    /\ \/ /\ Current(h)
          /\ run' = [run EXCEPT !.cleanup = IF CleanupSucceeded(h) THEN "CLEANED" ELSE "FAILED"]
          /\ Goto(h, IF CleanupSucceeded(h) THEN "confirm" ELSE "done")
       \/ ~Current(h) /\ UNCHANGED run /\ Goto(h, "failed")
    /\ UNCHANGED <<kinds, guardVars, jobs, outbox, worldVars, boundVars>>

Confirm(h) ==
    LET onward == IF handler[h].path = "cancel" THEN "done" ELSE "refresh" IN
    /\ At(h, "confirm")
    /\ \/ run.status # "CANCEL_REQUESTED" /\ UNCHANGED run /\ Goto(h, onward)
       \/ run.status = "CANCEL_REQUESTED" /\ Move(h, "CANCELLED") /\ Goto(h, onward)
       \/ /\ run.status = "CANCEL_REQUESTED"
          /\ ~MayMove(h, "CANCELLED")
          /\ UNCHANGED run
          /\ Goto(h, "failed")
    /\ UNCHANGED <<kinds, guardVars, jobs, outbox, worldVars, boundVars>>

\* The end of a round: a cancellation that arrived meanwhile gets its cleanup
\* job, otherwise the records say which step's job is next, if any.
Dispatch(h) ==
    LET cancelled == At(h, "refresh") /\ run.status = "CANCEL_REQUESTED"
        next == NextStepAction(Book(Job(h).attempt))
    IN  /\ At(h, "refresh") \/ At(h, "next")
        /\ \/ cancelled /\ Send(Job(h).attempt, "cleanup")
           \/ ~cancelled /\ next # NoAction /\ Send(Job(h).attempt, next.step)
           \/ ~cancelled /\ next = NoAction /\ UNCHANGED jobs
        /\ Goto(h, "done")
        /\ UNCHANGED <<run, kinds, guardVars, outbox, worldVars, boundVars>>

\* advanceCancellation gives the job up while any other step is RUNNING.
CancelList(h) ==
    /\ At(h, "cancelList")
    /\ IF \E s \in Steps \ {"cleanup"} : Book(Job(h).attempt)[s].status = "RUNNING"
       THEN Goto(h, "done")
       ELSE handler' = [handler EXCEPT ![h].at = "setPending", ![h].path = "cancel"]
    /\ UNCHANGED <<run, kinds, guardVars, jobs, outbox, worldVars, boundVars>>

\* The handler returns and the queue completes its job, or it throws and the
\* queue delivers the job again while it has a retry left.
Complete(h) ==
    /\ At(h, "done")
    /\ handler' = [handler EXCEPT ![h] = IdleHandler]
    /\ UNCHANGED <<run, kinds, guardVars, jobs, outbox, worldVars, boundVars>>

Fail(h) ==
    /\ At(h, "failed")
    /\ handler' = [handler EXCEPT ![h] = IdleHandler]
    /\ jobs' = jobs (+) Redelivered(h)
    /\ UNCHANGED <<run, kinds, guardVars, outbox, worldVars, boundVars>>

-----------------------------------------------------------------------------
\* OutboxPublisher: a pending row is sent and marked. A publisher that dies in
\* between leaves the row to be sent again.
Publish(k) ==
    /\ outbox[k].status = "PENDING"
    /\ Send(k[1], k[2])
    /\ outbox' = [outbox EXCEPT ![k] = [status |-> "PUBLISHED", attempts |-> @.attempts + 1]]
    /\ UNCHANGED <<run, kinds, guardVars, handler, worldVars, boundVars>>

PublishUnmarked(k) ==
    /\ outbox[k].status = "PENDING"
    /\ Spend("duplicate")
    /\ Send(k[1], k[2])
    /\ outbox' = [outbox EXCEPT ![k].attempts = @ + 1]
    /\ UNCHANGED <<run, kinds, guardVars, handler, worldVars>>

\* POST /runs/:id/cancel; repeated on a Run that is being cancelled, it only
\* re-arms the outbox row.
Cancel ==
    LET k == <<run.attempt, "cleanup">> IN
    /\ Spend("cancel")
    /\ \/ /\ run.status \in CancellableStatuses
          /\ \E stored \in StoredAs("CANCEL_REQUESTED") :
               run' = [run EXCEPT !.status = stored, !.cleanup = "PENDING"]
       \/ run.status = "CANCEL_REQUESTED" /\ UNCHANGED run
    /\ outbox' = [outbox EXCEPT ![k].status = "PENDING"]
    /\ UNCHANGED <<kinds, guardVars, handler, jobs, worldVars>>

\* POST /runs/:id/retry, the capacity check left aside: it runs under the lock of all
\* writers of QUEUED, so that the database's own check (the Run is stored as QUEUED)
\* agrees with it, as Admission.tla shows.
Retry ==
    /\ run.attempt + 1 \in Attempts
    /\ Spend("retry")
    /\ \E confirmed \in BOOLEAN : CanRetry(run.status, run.cleanup, confirmed)
    /\ run' = [status |-> "QUEUED", attempt |-> run.attempt + 1, cleanup |-> "NOT_SCHEDULED"]
    /\ outbox' = [outbox EXCEPT ![<<run.attempt + 1, "detect">>].status = "PENDING"]
    /\ UNCHANGED <<kinds, guardVars, handler, jobs, worldVars>>

\* RetentionWorker.queueExpiredCleanup, which leaves rejected Runs alone and gives up
\* after three publications.
MaxCleanupRetries == 3
SweptStatuses == TerminalRunStatuses \ {"REJECTED_BY_CAPACITY"}

Sweep ==
    LET k == <<run.attempt, "cleanup">> IN
    /\ Spend("sweep")
    /\ run.status \in SweptStatuses
    /\ run.cleanup \in {"NOT_SCHEDULED", "FAILED"}
    /\ outbox[k].attempts < MaxCleanupRetries
    /\ outbox[k].status # "PENDING"
    /\ outbox' = [outbox EXCEPT ![k].status = "PENDING"]
    /\ UNCHANGED <<run, kinds, guardVars, handler, jobs, worldVars>>

-----------------------------------------------------------------------------
\* The Worker dies in the middle of a handler; the queue notices later.
Crash(h) ==
    /\ ~At(h, "idle")
    /\ Spend("crash")
    /\ IF At(h, "guard") THEN Guard!Crash(h) ELSE UNCHANGED guardVars
    /\ handler' = [handler EXCEPT ![h] = IdleHandler]
    /\ jobs' = jobs (+) Redelivered(h)
    /\ UNCHANGED <<run, kinds, outbox, worldVars>>

\* The queue gives a job up although its handler still runs.
Expire(h) ==
    /\ ~At(h, "idle")
    /\ handler[h].owned
    /\ Spend("expiry")
    /\ handler' = [handler EXCEPT ![h].owned = FALSE]
    /\ jobs' = jobs (+) Redelivered(h)
    /\ UNCHANGED <<run, kinds, guardVars, outbox, worldVars>>

\* A lease nobody renews runs out; one that is renewed does only if the heartbeat
\* stalls.
LeaseExpires(k) ==
    /\ Guard!LeaseExpires(k)
    /\ IF Guard!Renewing(k) THEN Spend("lease") ELSE UNCHANGED boundVars
    /\ UNCHANGED <<run, kinds, handler, jobs, outbox, worldVars>>

-----------------------------------------------------------------------------
Works(h) ==
    \/ Receive(h) \/ Redirect(h) \/ List(h) \/ Skip(h) \/ Phase(h) \/ SetPending(h)
    \/ Admit(h) \/ Execute(h) \/ Persist(h) \/ RecordStep(h)
    \/ Finalize(h) \/ Verdict(h) \/ FinalizeCleanup(h) \/ Confirm(h)
    \/ Dispatch(h) \/ CancelList(h) \/ Complete(h) \/ Fail(h)

Next ==
    \/ \E h \in Handlers : Works(h) \/ Heartbeat(h) \/ Crash(h) \/ Expire(h)
    \/ \E k \in DOMAIN outbox : Publish(k) \/ PublishUnmarked(k)
    \/ \E k \in StepKeys : LeaseExpires(k)
    \/ Cancel \/ Retry \/ Sweep

Spec == Init /\ [][Next]_vars

\* Handlers that are alive go on, the publisher polls, and orphaned leases run
\* out. Nothing is assumed of users, faults or the retention sweep.
Fairness ==
    /\ \A h \in Handlers : WF_vars(Works(h))
    /\ \A k \in Attempts \X {"detect", "cleanup"} : WF_vars(Publish(k))
    /\ \A k \in StepKeys : WF_vars(~Guard!Renewing(k) /\ LeaseExpires(k))

FairSpec == Spec /\ Fairness

-----------------------------------------------------------------------------
TypeOK ==
    /\ run \in [status : RunStatuses, attempt : Attempts, cleanup : CleanupStatuses]
    /\ kinds \in [StepKeys -> FailureKinds]
    /\ Guard!TypeOK
    /\ handler \in [Handlers -> HandlerState]
    /\ IsABag(jobs) /\ BagToSet(jobs) \subseteq Jobs
    /\ outbox \in [Attempts \X {"detect", "cleanup"} ->
                     [status : {"ABSENT", "PENDING", "PUBLISHED"}, attempts : Nat]]
    /\ namespace \in BOOLEAN
    /\ details \subseteq StepKeys
    /\ scenario \in Scenarios /\ spent \in [Events -> Nat]

\* The attempt is being cancelled, or has been.
Cancelling(a) == a = run.attempt /\ run.status \in {"CANCEL_REQUESTED", "CANCELLED"}

Started(k) == rows'[k].status = "RUNNING" /\ rows'[k].token # rows[k].token
Spared(k) == rows'[k].status = "SKIPPED" /\ rows[k].status # "SKIPPED"

\* A handler acts on records it read some time ago. Still, whatever handlers,
\* redeliveries and crashes did in between, a step is only ever started or skipped
\* when the plan of its attempt says so of the records as they are now: it is the
\* first that is not settled, and it is skipped exactly when the gates close it.
\* Cleanup alone may overtake, after a cancel request; and of an attempt that the
\* user has retried nothing but the cleanup is begun any more.
StepsFollowThePlan ==
    [][\A k \in StepKeys : Started(k) \/ Spared(k) =>
         /\ k[1] = run.attempt \/ k[2] = "cleanup"
         /\ Spared(k) <=> ShouldSkip(Book(k[1]), k[2])
         /\ \/ \A s \in Steps : StepIndex[s] < StepIndex[k[2]] => Guard!Settled(<<k[1], s>>)
            \/ k[2] = "cleanup" /\ Cancelling(k[1])
         /\ NextStepAction(Book(k[1])).step = k[2] \/ Cancelling(k[1])]_vars

\* A verdict is given when every step before the cleanup is settled; FAILED only if
\* one of them failed for the application's sake and none for any other. (PASSED is
\* Pipeline's matter. INCOMPLETE is open: also a cleanup that failed before a delayed
\* handler came to finalize the report can be its reason.)
VerdictFollowsSteps ==
    run.status \in Verdicts =>
        LET before == Steps \ {"cleanup"}
            rec    == Book(run.attempt)
        IN  /\ \A s \in before : rec[s].status \in TerminalStepStatuses
            /\ run.status = "FAILED" =>
                  /\ \E s \in before : rec[s] = AppFailure
                  /\ \A s \in before : rec[s] \in {Passed, AppFailure, Skipped}

\* A verdict comes with the agent's report of its attempt: the report is saved, or
\* the handler that received it is about to save it, or has died before it did.
VerdictHasItsReport ==
    spent["crash"] = 0 /\ run.status \in Verdicts /\ rows[<<run.attempt, "review">>].status = "PASSED"
        => \/ <<run.attempt, "review">> \in details
           \/ \E h \in Handlers : At(h, "record") /\ Key(h) = <<run.attempt, "review">>

\* No verdict without its grounds: the results of the steps, that nothing before the
\* cleanup was left out where the Run passes and that a failed one was reviewed, and
\* the agent's report.
VerdictsAreFounded == VerdictFollowsSteps /\ VerdictHasItsReport /\ Walk!VerdictsAreHonest

\* Whoever executed, skipped or overtook what: a preview is only ever of a head whose
\* profile was recognised and whose tests and build passed, in the current attempt.
PreviewsAreOfTestedCode == Walk!PreviewOnlyOfTestedCode

\* While a user could still cancel the Run, the step that the records ask for next
\* runs in a phase which the Run may enter from where the handlers have left it: no
\* stale move takes a Run to where transitionRun would refuse every later one.
PhasesStayOpen == run.status \in CancellableStatuses => Walk!NextPhaseIsLegal

\* A cleanup recorded as confirmed means that the namespace is gone, and stays
\* gone until the Run is retried: no step of the Run is still going to create it.
\* (An execution that has lost its lease may, and so may one that a second handler
\* admits while the first carries out a cancellation.)
CleanedMeansGone ==
    /\ run.cleanup = "CLEANED"
    /\ spent["lease"] = 0
    /\ spent["cancel"] = 0 \/ scenario.bounds["beside"] = 0
    => ~namespace /\ rows[<<run.attempt, "cleanup">>].status = "PASSED"

\* A handler that executes a cleanup does so for the Run's current attempt: it
\* never removes the namespace of a newer one. (A confirmed retry may begin while a
\* second handler executes the cleanup that the user has not waited for.)
CleanupSparesNewerAttempts ==
    spent["retry"] = 0 \/ scenario.bounds["beside"] = 0 =>
        \A h \in Handlers :
            call[h].at = "operating" /\ Job(h).step = "cleanup"
                => Job(h).attempt = run.attempt

\* Nothing left to do: every job is consumed, every outbox row published.
Quiescent ==
    /\ \A h \in Handlers : At(h, "idle")
    /\ jobs = EmptyBag
    /\ \A k \in DOMAIN outbox : outbox[k].status # "PENDING"

Concluded == IsTerminalRun(run.status) /\ run.cleanup \in {"CLEANED", "FAILED"}

\* A Run is never lost: when nothing is left to do it has ended and the outcome of its
\* cleanup is recorded, or the cleanup of its cancellation has failed and says so (nobody
\* tries that one again), or the database has turned it away.
CleanupGivenUp == run.status = "CANCEL_REQUESTED" /\ run.cleanup = "FAILED"
TurnedAway == run.status = "REJECTED_BY_CAPACITY"

NoLostRun == Quiescent => Concluded \/ CleanupGivenUp \/ TurnedAway

\* Only a Worker that dies, a job that expires under its handler or a lease that is
\* lost loses a Run: overlapping and repeated deliveries, cancellations, retries and
\* sweeps do not.
Undisturbed == \A event \in {"crash", "expiry", "lease"} : spent[event] = 0

OnlyFaultsLoseRuns == Undisturbed => NoLostRun

\* Neither the handler that began a Run nor the user who cancelled it learns that the
\* database turned it away, and nothing cleans up after it. Still nothing is left behind:
\* the handlers at work execute no step but the first, whatever jobs follow (they may skip
\* what a failed detection closes), and only a retry that was confirmed in spite of a
\* failed cleanup can find a namespace there.
RejectedRunsStop ==
    TurnedAway => /\ \A s \in Steps \ {"detect"} :
                       rows[<<run.attempt, s>>].status \in {"ABSENT", "SKIPPED"}
                  /\ run.cleanup \in {"NOT_SCHEDULED", "PENDING"}
                  /\ run.attempt = 1 => ~namespace

\* Every attempt is brought to an end, or the user turns to a newer one.
AttemptsConclude ==
    \A a \in Attempts : run.attempt = a ~> Concluded \/ TurnedAway \/ run.attempt > a

\* A cancel request that was accepted takes effect, at whatever moment of the workflow it
\* arrived: the Run becomes CANCELLED, or, while it was queued behind another one, it has
\* been turned away instead (the user was told CANCEL_REQUESTED all the same).
CancelTakesEffect == spent["cancel"] > 0 ~> run.status = "CANCELLED" \/ TurnedAway

\* What the API shows of the Run is a lifecycle as promised: whatever handlers do to
\* steps at the same time, each status is entered when its steps are done.
Lifecycle == INSTANCE RunLifecycle
               WITH status <- run.status, attempt <- run.attempt, cleanup <- run.cleanup,
                    done <- {s \in Steps : Guard!Settled(<<run.attempt, s>>)}

LifecycleSpec == Lifecycle!Spec
=============================================================================
