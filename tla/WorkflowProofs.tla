--------------------------- MODULE WorkflowProofs ---------------------------
(***************************************************************************)
(* Theorems about the workflow of a Run, for every number of handlers and  *)
(* attempts, every book of results and every bound on the events.          *)
(***************************************************************************)
EXTENDS Workflow, StepPlanProofs, FiniteSetTheorems

\* What is proved of the step guard holds of the guard inside the workflow.
G == INSTANCE StepGuardProofs
       WITH Keys <- StepKeys, RetryableKeys <- Attempts \X {"cleanup"},
            Calls <- Handlers, NoCall <- NoHandler

\* The workflow gives the guard constants as it assumes them.
LEMMA GuardConstants ==
    NoHandler \notin Handlers /\ Attempts \X {"cleanup"} \subseteq StepKeys
  BY WorkflowAssumption, ElevenSteps DEF StepKeys

LEMMA GuardTypes == Guard!TypeOK <=> G!TypeOK
  BY DEF G!TypeOK, Guard!TypeOK, G!Row, Guard!Row, G!Call, Guard!Call, G!RowStatuses,
         Guard!RowStatuses, G!Places, Guard!Places, G!Results, Guard!Results

LEMMA SettledIs == \A k : Guard!Settled(k) <=> G!Settled(k)
  BY DEF G!Settled, Guard!Settled, G!Stands, Guard!Stands, G!Results, Guard!Results

\* A row is settled when its result stands.
LEMMA SettledMeans ==
    ASSUME NEW a \in Attempts, NEW s \in Steps
    PROVE  Guard!Settled(<<a, s>>) <=>
              /\ rows[<<a, s>>].status \in {"PASSED", "FAILED", "INCOMPLETE", "SKIPPED"}
              /\ ~(s = "cleanup" /\ rows[<<a, s>>].status \in {"FAILED", "INCOMPLETE"})
  BY DEF Guard!Settled, Guard!Stands, Guard!Results

\* A handler's step is one of the rows.
LEMMA KeyTyped == ASSUME TypeOK, NEW h \in Handlers PROVE Key(h) \in StepKeys
  BY DEF TypeOK, HandlerState, Jobs, Key, Job, StepKeys

-----------------------------------------------------------------------------
\* The steps of the workflow, named once for the proofs below.
HandlerActions(h) == Works(h) \/ Heartbeat(h) \/ Crash(h) \/ Expire(h)

LEMMA NextCases ==
    ASSUME [Next]_vars
    PROVE  \/ \E h \in Handlers : HandlerActions(h)
           \/ \E k \in DOMAIN outbox : Publish(k) \/ PublishUnmarked(k)
           \/ \E k \in StepKeys : LeaseExpires(k)
           \/ Cancel \/ Retry \/ Sweep
           \/ UNCHANGED vars
  BY DEF Next, HandlerActions

\* Every step of the workflow is a step of the guard, seen from outside.
LEMMA GuardStep == ASSUME TypeOK, [Next]_vars PROVE [G!Moves]_G!vars
<1>. DEFINE GuardMoves == G!Moves \/ UNCHANGED guardVars
<1>0. \A k : Guard!Locked(k) <=> G!Locked(k)
  BY DEF Guard!Locked, G!Locked
<1>. SUFFICES GuardMoves
  BY DEF guardVars, G!vars
<1>1. ASSUME NEW h \in Handlers, Works(h) PROVE GuardMoves
  <2>1. CASE Skip(h)
    <3>1. <<Job(h).attempt, handler[h].target>> \in StepKeys
      BY DEF TypeOK, HandlerState, Jobs, Job, StepKeys
    <3>2. \A k : Guard!MarkSkipped(k) => G!MarkSkipped(k)
      BY <1>0, SettledIs DEF Guard!MarkSkipped, G!MarkSkipped
    <3>. QED
      BY <2>1, <3>1, <3>2 DEF Skip, G!Moves, G!Next
  <2>2. CASE Admit(h)
    <3>1. Guard!Admit(h, Key(h)) => G!Admit(h, Key(h))
      BY SettledIs DEF Guard!Admit, G!Admit, Guard!Free, G!Free, Guard!Leased, G!Leased
    <3>2. Guard!AlreadyTerminal(h, Key(h)) \/ Guard!Busy(h, Key(h)) => UNCHANGED guardVars
      BY DEF Guard!AlreadyTerminal, Guard!Busy, Guard!vars, guardVars
    <3>. QED
      BY <2>2, <3>1, <3>2, KeyTyped DEF Admit, G!Moves
  <2>3. CASE Execute(h)
    <3>1. PICK r \in StepResults : Guard!OperationReturns(h, r.status)
      BY <2>3, WorkflowAssumption DEF Execute, TypeOK, HandlerState, Jobs, Job
    <3>2. r.status \in G!Results
      BY DEF StepResults, Passed, AppFailure, HardFailed, Incomplete, G!Results
    <3>3. G!OperationReturns(h, r.status)
      BY <3>1 DEF Guard!OperationReturns, G!OperationReturns
    <3>. QED
      BY <3>2, <3>3 DEF G!Moves, G!Next, G!Works
  <2>4. CASE Persist(h)
    <3>1. Guard!Persist(h) => G!Persist(h)
      BY <1>0 DEF Guard!Persist, G!Persist, Guard!Fenced, G!Fenced, Guard!Holds, G!Holds,
             Guard!RowSettledBy, G!RowSettledBy, Guard!Stands, G!Stands, Guard!Results, G!Results
    <3>2. Guard!LeaseLost(h) => G!LeaseLost(h)
      BY <1>0 DEF Guard!LeaseLost, G!LeaseLost, Guard!Fenced, G!Fenced, Guard!Holds, G!Holds
    <3>3. Guard!Release(h) => G!Release(h)
      BY DEF Guard!Release, G!Release, Guard!Holds, G!Holds
    <3>. QED
      BY <2>4, <3>1, <3>2, <3>3 DEF Persist, G!Moves, G!Next, G!Works
  <2>. QED
    BY <1>1, <2>1, <2>2, <2>3, <2>4
       DEF Works, Receive, Redirect, List, Phase, SetPending, RecordStep, Finalize, Verdict,
           FinalizeCleanup, Confirm, Dispatch, CancelList, Complete, Fail
<1>2. ASSUME NEW h \in Handlers, Heartbeat(h) PROVE GuardMoves
  <2>1. G!Heartbeat(h)
    BY <1>2 DEF Heartbeat, Guard!Heartbeat, G!Heartbeat, Guard!Holds, G!Holds, Guard!Inside,
              G!Inside
  <2>. QED
    BY <2>1 DEF G!Moves, G!Next
<1>3. ASSUME NEW h \in Handlers, Crash(h) PROVE GuardMoves
  <2>1. Guard!Crash(h) => G!Crash(h)
    BY DEF Guard!Crash, G!Crash
  <2>. QED
    BY <1>3, <2>1 DEF Crash, G!Moves, G!Next
<1>4. ASSUME NEW h \in Handlers, Expire(h) PROVE GuardMoves
  BY <1>4 DEF Expire
<1>5. ASSUME NEW k \in StepKeys, LeaseExpires(k) PROVE GuardMoves
  <2>1. G!LeaseExpires(k)
    BY <1>5 DEF LeaseExpires, Guard!LeaseExpires, G!LeaseExpires
  <2>. QED
    BY <2>1 DEF G!Moves, G!Next
<1>. QED
  BY NextCases, <1>1, <1>2, <1>3, <1>4, <1>5
     DEF HandlerActions, Publish, PublishUnmarked, Cancel, Retry, Sweep, vars, guardVars

-----------------------------------------------------------------------------
\* The queue is a bag of jobs.
LEMMA BagWithOneMore ==
    ASSUME NEW B, IsABag(B), NEW e
    PROVE  IsABag(B (+) SetToBag({e})) /\ BagToSet(B (+) SetToBag({e})) = BagToSet(B) \union {e}
  BY DEF IsABag, (+), SetToBag, BagToSet

\* Less or no more jobs in the queue.
LEMMA BagWithOneLess ==
    ASSUME NEW B, IsABag(B), NEW e
    PROVE  IsABag(B (-) SetToBag({e})) /\ BagToSet(B (-) SetToBag({e})) \subseteq BagToSet(B)
  BY DEF IsABag, (-), SetToBag, BagToSet

LEMMA BagWithNoMore ==
    ASSUME NEW B, IsABag(B)
    PROVE  IsABag(B (+) EmptyBag) /\ BagToSet(B (+) EmptyBag) = BagToSet(B)
  BY DEF IsABag, (+), SetToBag, EmptyBag, BagToSet

LEMMA SmallBags ==
    /\ IsABag(EmptyBag) /\ BagToSet(EmptyBag) = {}
    /\ \A e : IsABag(SetToBag({e})) /\ BagToSet(SetToBag({e})) = {e}
  BY DEF IsABag, EmptyBag, SetToBag, BagToSet

\* What the queue gains is for the attempt of a handler, or of an outbox row that waits.
Sent(job) ==
    /\ job \in Jobs
    /\ \/ \E h \in Handlers : job.attempt = Job(h).attempt
       \/ \E k \in DOMAIN outbox : outbox[k].status = "PENDING" /\ job.attempt = k[1]

LEMMA NextStepTyped == \A rec : NextStepAction(rec).step \in Steps
  BY NextStepIsDue

\* A job in the queue was there before or is a new one that is typed.
LEMMA JobsStep ==
    ASSUME TypeOK, [Next]_vars
    PROVE  IsABag(jobs') /\ \A job \in BagToSet(jobs') : job \in BagToSet(jobs) \/ Sent(job)
<1>. DEFINE Good == IsABag(jobs') /\ \A job \in BagToSet(jobs') : job \in BagToSet(jobs) \/ Sent(job)
<1>0. IsABag(jobs) /\ BagToSet(jobs) \subseteq Jobs
  BY DEF TypeOK
<1>1. ASSUME NEW job, Sent(job), jobs' = jobs (+) SetToBag({job}) PROVE Good
  BY <1>0, <1>1, BagWithOneMore
<1>2. ASSUME UNCHANGED jobs PROVE Good
  BY <1>0, <1>2
<1>3. ASSUME NEW h \in Handlers, NEW s \in Steps, Send(Job(h).attempt, s) PROVE Good
  <2>1. Sent(JobFor(Job(h).attempt, s))
    BY DEF Sent, JobFor, Jobs, MaxDeliveryRetries, TypeOK, HandlerState, Job
  <2>. QED
    BY <1>1, <1>3, <2>1 DEF Send
<1>4. ASSUME NEW h \in Handlers, jobs' = jobs (+) Redelivered(h) PROVE Good
  <2>1. CASE handler[h].owned /\ handler[h].job.left > 0
    <3>1. Sent([handler[h].job EXCEPT !.left = @ - 1])
      BY <2>1 DEF Sent, Jobs, MaxDeliveryRetries, TypeOK, HandlerState, Job
    <3>. QED
      BY <1>1, <1>4, <2>1, <3>1 DEF Redelivered
  <2>2. CASE ~(handler[h].owned /\ handler[h].job.left > 0)
    <3>1. Redelivered(h) = EmptyBag
      BY <2>2 DEF Redelivered
    <3>. QED
      BY <1>0, <1>4, <3>1, BagWithNoMore
  <2>. QED
    BY <1>0, <2>1, <2>2
<1>5. ASSUME NEW k \in DOMAIN outbox, outbox[k].status = "PENDING", Send(k[1], k[2]) PROVE Good
  <2>1. Sent(JobFor(k[1], k[2]))
    BY <1>5, ElevenSteps DEF Sent, JobFor, Jobs, MaxDeliveryRetries, TypeOK
  <2>. QED
    BY <1>1, <1>5, <2>1 DEF Send
<1>6. ASSUME NEW h \in Handlers, Works(h) PROVE Good
  <2>1. CASE Receive(h)
    <3>1. PICK job : jobs' = jobs (-) SetToBag({job})
      BY <2>1 DEF Receive
    <3>. QED
      BY <1>0, <3>1, BagWithOneLess
  <2>2. CASE Redirect(h)
    BY <1>3, <2>2, ElevenSteps DEF Redirect
  <2>3. CASE Dispatch(h)
    BY <1>2, <1>3, <2>3, ElevenSteps, NextStepTyped DEF Dispatch
  <2>4. CASE Fail(h)
    BY <1>4, <2>4 DEF Fail
  <2>. HIDE DEF Good
  <2>. QED
    BY <1>2, <1>6, <2>1, <2>2, <2>3, <2>4
       DEF Works, List, Skip, Phase, SetPending, Admit, Execute, Persist, RecordStep, Finalize,
           Verdict, FinalizeCleanup, Confirm, CancelList, Complete
<1>. HIDE DEF Good
<1>7. ASSUME NEW h \in Handlers, HandlerActions(h) PROVE Good
  BY <1>2, <1>4, <1>6, <1>7 DEF HandlerActions, Heartbeat, Crash, Expire
<1>8. ASSUME NEW k \in DOMAIN outbox, Publish(k) \/ PublishUnmarked(k) PROVE Good
  BY <1>5, <1>8 DEF Publish, PublishUnmarked
<1>9. Good
  BY NextCases, <1>2, <1>7, <1>8 DEF LeaseExpires, Cancel, Retry, Sweep, vars
<1>. QED
  BY <1>9 DEF Good

-----------------------------------------------------------------------------
\* Who writes the Run, and what: a Run goes where its writer says, or a queued one is
\* turned away.
Goes(h, to) == MayMove(h, to) /\ run' = [run EXCEPT !.status = to]

IsTurnedAway ==
    /\ run.status = "QUEUED"
    /\ \E pending \in {run.cleanup, "PENDING"} :
         run' = [run EXCEPT !.status = "REJECTED_BY_CAPACITY", !.cleanup = pending]

Advances(h) ==
    /\ At(h, "phase")
    /\ PhaseForStep[Job(h).step] # NoPhase
    /\ Goes(h, PhaseForStep[Job(h).step])

SetsPending(h) ==
    /\ At(h, "setPending") /\ Current(h)
    /\ run' = [run EXCEPT !.cleanup = "PENDING"]

GivesVerdict(h) == At(h, "verdict") /\ Goes(h, handler[h].verdict)

RecordsCleanup(h) ==
    /\ At(h, "cleanup") /\ Current(h)
    /\ run' = [run EXCEPT !.cleanup = IF CleanupSucceeded(h) THEN "CLEANED" ELSE "FAILED"]

Confirms(h) == At(h, "confirm") /\ run.status = "CANCEL_REQUESTED" /\ Goes(h, "CANCELLED")

IsCancelled ==
    /\ Spend("cancel")
    /\ run.status \in CancellableStatuses
    /\ run' = [run EXCEPT !.status = "CANCEL_REQUESTED", !.cleanup = "PENDING"]

IsRetried ==
    /\ Spend("retry")
    /\ run.attempt + 1 \in Attempts
    /\ \E confirmed \in BOOLEAN : CanRetry(run.status, run.cleanup, confirmed)
    /\ run' = [status |-> "QUEUED", attempt |-> run.attempt + 1, cleanup |-> "NOT_SCHEDULED"]

RunMoves ==
    \/ \E h \in Handlers : \/ Advances(h) \/ SetsPending(h) \/ GivesVerdict(h)
                           \/ RecordsCleanup(h) \/ Confirms(h)
    \/ IsCancelled
    \/ IsTurnedAway
    \/ IsRetried

\* Only a queued Run is stored otherwise than it is written, and not for its end.
LEMMA Stores ==
    ASSUME TypeOK, NEW h \in Handlers, NEW to, Move(h, to)
    PROVE  Goes(h, to) \/ (to \in {"PLANNING", "CANCEL_REQUESTED"} /\ IsTurnedAway)
<1>1. run.status \in RunStatuses
  BY DEF TypeOK
<1>2. PICK stored \in StoredAs(to) : run' = [run EXCEPT !.status = stored]
  BY DEF Move
<1>3. CASE stored = to
  BY <1>2, <1>3 DEF Move, Goes
<1>4. CASE stored # to
  <2>1. /\ stored = "REJECTED_BY_CAPACITY" /\ to \in ExecutionLockStatuses
        /\ run.status \notin ExecutionLockStatuses /\ to \in Transitions[run.status]
    BY <1>4 DEF StoredAs, Move, MayMove, ValidTransition
  <2>2. \A from \in RunStatuses \ (ExecutionLockStatuses \union {"QUEUED"}) :
          Transitions[from] \intersect ExecutionLockStatuses = {}
    BY DEF Transitions, RunStatuses, Verdicts, ExecutionLockStatuses
  <2>3. Transitions["QUEUED"] = {"PLANNING", "CANCEL_REQUESTED"}
    BY DEF Transitions, RunStatuses
  <2>4. run.status = "QUEUED" /\ to \in {"PLANNING", "CANCEL_REQUESTED"}
    BY <1>1, <2>1, <2>2, <2>3
  <2>5. IsTurnedAway
    <3>1. run' = [run EXCEPT !.status = "REJECTED_BY_CAPACITY", !.cleanup = run.cleanup]
      BY <1>2, <2>1 DEF TypeOK
    <3>. QED
      BY <2>4, <3>1 DEF IsTurnedAway
  <2>. QED
    BY <2>4, <2>5
<1>. QED
  BY <1>3, <1>4

\* The same of a cancel request.
LEMMA StoresCancelled ==
    ASSUME TypeOK, Spend("cancel"), run.status \in CancellableStatuses,
           NEW stored \in StoredAs("CANCEL_REQUESTED"),
           run' = [run EXCEPT !.status = stored, !.cleanup = "PENDING"]
    PROVE  IsCancelled \/ IsTurnedAway
<1>1. stored = "CANCEL_REQUESTED" \/ (stored = "REJECTED_BY_CAPACITY" /\ run.status = "QUEUED")
  BY DEF StoredAs, CancellableStatuses, ExecutionLockStatuses
<1>. QED
  BY <1>1 DEF IsCancelled, IsTurnedAway

\* The Run is written by these actions only, and no row of a step with it.
LEMMA RunStep == ASSUME TypeOK, [Next]_vars PROVE (RunMoves /\ UNCHANGED rows) \/ UNCHANGED run
<1>1. ASSUME NEW h \in Handlers, HandlerActions(h) PROVE (RunMoves /\ UNCHANGED rows) \/ UNCHANGED run
  <2>1. CASE Phase(h)
    BY <2>1, Stores DEF Phase, RunMoves, Advances, guardVars
  <2>2. CASE SetPending(h)
    BY <2>2 DEF SetPending, RunMoves, SetsPending, guardVars
  <2>3. CASE Verdict(h)
    <3>1. handler[h].verdict \notin {"PLANNING", "CANCEL_REQUESTED"}
      BY DEF TypeOK, HandlerState, Verdicts
    <3>. QED
      BY <2>3, <3>1, Stores DEF Verdict, RunMoves, GivesVerdict, guardVars
  <2>4. CASE FinalizeCleanup(h)
    BY <2>4 DEF FinalizeCleanup, RunMoves, RecordsCleanup, guardVars
  <2>5. CASE Confirm(h)
    BY <2>5, Stores DEF Confirm, RunMoves, Confirms, guardVars
  <2>. QED
    BY <1>1, <2>1, <2>2, <2>3, <2>4, <2>5
       DEF HandlerActions, Works, Receive, Redirect, List, Skip, Admit, Execute, Persist,
           RecordStep, Finalize, Dispatch, CancelList, Complete, Fail, Heartbeat, Crash, Expire
<1>2. Cancel => (RunMoves /\ UNCHANGED rows) \/ UNCHANGED run
  BY StoresCancelled DEF Cancel, RunMoves, guardVars
<1>3. Retry => (RunMoves /\ UNCHANGED rows) \/ UNCHANGED run
  BY DEF Retry, RunMoves, IsRetried, guardVars
<1>. HIDE DEF RunMoves
<1>. QED
  BY NextCases, <1>1, <1>2, <1>3 DEF Publish, PublishUnmarked, LeaseExpires, Sweep, vars

\* What a step does to the local state of one handler.
LEMMA HandlerStep ==
    ASSUME TypeOK, [Next]_vars, NEW g \in Handlers
    PROVE  handler'[g] = handler[g] \/ Works(g) \/ Crash(g) \/ Expire(g)
<1>1. ASSUME NEW h \in Handlers, h # g, HandlerActions(h) PROVE handler'[g] = handler[g]
  BY <1>1
     DEF TypeOK, HandlerActions, Works, Receive, Redirect, List, Skip, Phase, SetPending, Admit,
         Execute, Persist, RecordStep, Finalize, Verdict, FinalizeCleanup, Confirm, Dispatch,
         CancelList, Complete, Fail, Heartbeat, Crash, Expire, Goto
<1>2. Heartbeat(g) => handler'[g] = handler[g]
  BY DEF Heartbeat
<1>. QED
  BY NextCases, <1>1, <1>2
     DEF HandlerActions, Publish, PublishUnmarked, LeaseExpires, Cancel, Retry, Sweep, vars

-----------------------------------------------------------------------------
\* Every step keeps the types.
LEMMA RunTyped ==
    ASSUME TypeOK, [Next]_vars
    PROVE  run' \in [status : RunStatuses, attempt : Attempts, cleanup : CleanupStatuses]
<1>. DEFINE Typed == run' \in [status : RunStatuses, attempt : Attempts, cleanup : CleanupStatuses]
<1>. run \in [status : RunStatuses, attempt : Attempts, cleanup : CleanupStatuses]
  BY DEF TypeOK
<1>. handler \in [Handlers -> HandlerState]
  BY DEF TypeOK
<1>1. ASSUME NEW h \in Handlers, NEW to \in RunStatuses, Goes(h, to) PROVE Typed
  BY <1>1 DEF Goes
<1>2. ASSUME NEW h \in Handlers, Advances(h) PROVE Typed
  <2>1. PhaseForStep[Job(h).step] \in RunStatuses
    BY <1>2, ElevenSteps
       DEF Advances, PhaseForStep, NoPhase, RunStatuses, HandlerState, Jobs, Job
  <2>. QED
    BY <1>1, <1>2, <2>1 DEF Advances
<1>3. ASSUME NEW h \in Handlers, SetsPending(h) \/ RecordsCleanup(h) PROVE Typed
  BY <1>3 DEF SetsPending, RecordsCleanup, CleanupStatuses
<1>4. ASSUME NEW h \in Handlers, GivesVerdict(h) \/ Confirms(h) PROVE Typed
  <2>1. handler[h].verdict \in RunStatuses /\ "CANCELLED" \in RunStatuses
    BY DEF HandlerState, Verdicts, RunStatuses
  <2>. QED
    BY <1>1, <1>4, <2>1 DEF GivesVerdict, Confirms
<1>5. ASSUME IsCancelled \/ IsTurnedAway \/ IsRetried PROVE Typed
  <2>1. CASE IsCancelled
    BY <2>1 DEF IsCancelled, RunStatuses, CleanupStatuses
  <2>2. CASE IsRetried
    BY <2>2 DEF IsRetried, RunStatuses, CleanupStatuses
  <2>3. CASE IsTurnedAway
    BY <2>3 DEF IsTurnedAway, RunStatuses, CleanupStatuses
  <2>. QED
    BY <1>5, <2>1, <2>2, <2>3
<1>. HIDE DEF Typed
<1>6. UNCHANGED run => Typed
  BY DEF Typed
<1>7. Typed
  BY RunStep, <1>2, <1>3, <1>4, <1>5, <1>6 DEF RunMoves
<1>. QED
  BY <1>7 DEF Typed

LEMMA HandlersTyped ==
    ASSUME TypeOK, [Next]_vars
    PROVE  handler' \in [Handlers -> HandlerState]
<1>. DEFINE Typed == handler' \in [Handlers -> HandlerState]
<1>. handler \in [Handlers -> HandlerState]
  BY DEF TypeOK
<1>1. ASSUME NEW h \in Handlers, NEW place \in Places, Goto(h, place) PROVE Typed
  BY <1>1 DEF Goto, HandlerState
<1>0. ASSUME NEW h \in Handlers, NEW new \in HandlerState, handler' = [handler EXCEPT ![h] = new]
      PROVE  Typed
  BY <1>0
<1>2. IdleHandler \in HandlerState
  BY WorkflowAssumption, ElevenSteps
     DEF IdleHandler, HandlerState, Places, Jobs, MaxDeliveryRetries, Paths, RunStatuses,
         StepResults, Verdicts
<1>3. ASSUME NEW h \in Handlers, handler' = [handler EXCEPT ![h] = IdleHandler] PROVE Typed
  BY <1>0, <1>2, <1>3
<1>4. ASSUME NEW h \in Handlers, Receive(h) PROVE Typed
  <2>1. PICK job \in Jobs :
          handler' = [handler EXCEPT ![h] =
                        [IdleHandler EXCEPT !.at = Opening(job), !.job = job,
                                            !.owned = TRUE, !.snap = run.status]]
    BY <1>4 DEF Receive, TypeOK
  <2>2. [IdleHandler EXCEPT !.at = Opening(job), !.job = job, !.owned = TRUE, !.snap = run.status]
           \in HandlerState
    BY <1>2 DEF HandlerState, Opening, Places, TypeOK
  <2>. QED
    BY <2>1, <2>2
<1>5. ASSUME NEW h \in Handlers, List(h) PROVE Typed
  <2>. DEFINE rec  == Book(Job(h).attempt)
              next == NextStepAction(rec)
  <2>1. next.action \in {"none", "run", "skip"} /\ next.step \in Steps
    BY NextStepIsDue
  <2>. DEFINE place  == AfterListing(h, rec, next)
              target == IF next.action = "skip" THEN next.step ELSE "detect"
  <2>2. handler' = [handler EXCEPT ![h].at = place, ![h].target = target]
    BY <1>5 DEF List
  <2>. HIDE DEF next, rec
  <2>3. place \in Places /\ target \in Steps
    BY <2>1, ElevenSteps DEF AfterListing, Places
  <2>. HIDE DEF place, target
  <2>4. handler' = [handler EXCEPT ![h] = [handler[h] EXCEPT !.at = place, !.target = target]]
    BY <2>2
  <2>5. [handler[h] EXCEPT !.at = place, !.target = target] \in HandlerState
    BY <2>3 DEF HandlerState
  <2>. QED
    BY <1>0, <2>4, <2>5
<1>6. ASSUME NEW h \in Handlers, Phase(h) PROVE Typed
  <2>. DEFINE target == PhaseForStep[Job(h).step]
  <2>1. CASE \E place \in Places : Goto(h, place)
    BY <1>1, <2>1
  <2>2. CASE target # NoPhase /\ handler' = [handler EXCEPT ![h].at = "admit", ![h].snap = target]
    <3>1. target \in RunStatuses
      BY <2>2, ElevenSteps DEF PhaseForStep, NoPhase, RunStatuses, HandlerState, Jobs, Job
    <3>. HIDE DEF target
    <3>2. handler' = [handler EXCEPT ![h] = [handler[h] EXCEPT !.at = "admit", !.snap = target]]
      BY <2>2
    <3>3. [handler[h] EXCEPT !.at = "admit", !.snap = target] \in HandlerState
      BY <3>1 DEF HandlerState, Places
    <3>. QED
      BY <1>0, <3>2, <3>3
  <2>3. (\E place \in Places : Goto(h, place))
           \/ (target # NoPhase
                 /\ handler' = [handler EXCEPT ![h].at = "admit", ![h].snap = target])
    <3>. HIDE DEF target
    <3>. QED
      BY <1>6 DEF Phase, Places, target
  <2>. QED
    BY <2>1, <2>2, <2>3
<1>7. ASSUME NEW h \in Handlers, Execute(h) PROVE Typed
  <2>1. PICK r \in StepResults : handler' = [handler EXCEPT ![h].result = r]
    BY <1>7, WorkflowAssumption DEF TypeOK, Execute, HandlerState, Jobs, Job
  <2>. QED
    BY <2>1 DEF HandlerState
<1>8. ASSUME NEW h \in Handlers, Persist(h) PROVE Typed
  <2>1. CASE handler' = [handler EXCEPT ![h].at = "record", ![h].ran = TRUE]
    <3>1. handler' = [handler EXCEPT ![h] = [handler[h] EXCEPT !.at = "record", !.ran = TRUE]]
      BY <2>1
    <3>2. [handler[h] EXCEPT !.at = "record", !.ran = TRUE] \in HandlerState
      BY DEF HandlerState, Places
    <3>. QED
      BY <1>0, <3>1, <3>2
  <2>. QED
    BY <1>1, <1>8, <2>1 DEF Persist, Places
<1>9. ASSUME NEW h \in Handlers, Finalize(h) PROVE Typed
  <2>. DEFINE verdict == DeriveFinalRunStatus(Book(Job(h).attempt))
  <2>1. verdict \in Verdicts
    BY DEF DeriveFinalRunStatus, Verdicts
  <2>. HIDE DEF verdict
  <2>2. CASE handler' = [handler EXCEPT ![h].at = "verdict", ![h].verdict = verdict]
    <3>1. handler' = [handler EXCEPT ![h] = [handler[h] EXCEPT !.at = "verdict", !.verdict = verdict]]
      BY <2>2
    <3>2. [handler[h] EXCEPT !.at = "verdict", !.verdict = verdict] \in HandlerState
      BY <2>1 DEF HandlerState, Places
    <3>. QED
      BY <1>0, <3>1, <3>2
  <2>. QED
    BY <1>1, <1>9, <2>2 DEF Finalize, Places, verdict
<1>10. ASSUME NEW h \in Handlers, CancelList(h) PROVE Typed
  <2>1. CASE handler' = [handler EXCEPT ![h].at = "setPending", ![h].path = "cancel"]
    <3>1. handler' = [handler EXCEPT ![h] = [handler[h] EXCEPT !.at = "setPending", !.path = "cancel"]]
      BY <2>1
    <3>2. [handler[h] EXCEPT !.at = "setPending", !.path = "cancel"] \in HandlerState
      BY DEF HandlerState, Places, Paths
    <3>. QED
      BY <1>0, <3>1, <3>2
  <2>. QED
    BY <1>1, <1>10, <2>1 DEF CancelList, Places
<1>11. ASSUME NEW h \in Handlers, RecordStep(h) PROVE Typed
  BY <1>1, <1>11 DEF RecordStep, AfterRecording, Places
<1>12. ASSUME NEW h \in Handlers, Skip(h) \/ SetPending(h) \/ Admit(h) PROVE Typed
  BY <1>1, <1>12 DEF Skip, SetPending, Admit, Places
<1>13. ASSUME NEW h \in Handlers, Redirect(h) \/ Verdict(h) \/ FinalizeCleanup(h) \/ Confirm(h)
                                     \/ Dispatch(h)
       PROVE  Typed
  BY <1>1, <1>13 DEF Redirect, Verdict, FinalizeCleanup, Confirm, Dispatch, Places
<1>14. ASSUME NEW h \in Handlers, Complete(h) \/ Fail(h) \/ Crash(h) PROVE Typed
  BY <1>3, <1>14 DEF Complete, Fail, Crash
<1>15. ASSUME NEW h \in Handlers, Expire(h) PROVE Typed
  BY <1>15 DEF Expire, HandlerState
<1>16. UNCHANGED handler => Typed
  OBVIOUS
<1>. HIDE DEF Typed
<1>17. ASSUME NEW h \in Handlers, HandlerActions(h) PROVE Typed
  BY <1>4, <1>5, <1>6, <1>7, <1>8, <1>9, <1>10, <1>11, <1>12, <1>13, <1>14, <1>15, <1>16, <1>17
     DEF HandlerActions, Works, Heartbeat
<1>18. Typed
  BY NextCases, <1>16, <1>17
     DEF Publish, PublishUnmarked, LeaseExpires, Cancel, Retry, Sweep, vars
<1>. QED
  BY <1>18 DEF Typed

LEMMA KindsTyped == ASSUME TypeOK, [Next]_vars PROVE kinds' \in [StepKeys -> FailureKinds]
<1>. kinds \in [StepKeys -> FailureKinds] /\ handler \in [Handlers -> HandlerState]
  BY DEF TypeOK
<1>1. ASSUME NEW h \in Handlers, HandlerActions(h) PROVE kinds' \in [StepKeys -> FailureKinds]
  <2>1. handler[h].result.kind \in FailureKinds
    BY DEF HandlerState, StepResults, Passed, AppFailure, HardFailed, Incomplete, FailureKinds
  <2>2. CASE Admit(h)
    BY <2>2 DEF Admit, FailureKinds
  <2>3. CASE Persist(h)
    BY <2>1, <2>3 DEF Persist
  <2>. QED
    BY <1>1, <2>2, <2>3
       DEF HandlerActions, Works, Receive, Redirect, List, Skip, Phase, SetPending, Execute,
           RecordStep, Finalize, Verdict, FinalizeCleanup, Confirm, Dispatch, CancelList, Complete,
           Fail, Heartbeat, Crash, Expire
<1>. QED
  BY NextCases, <1>1 DEF Publish, PublishUnmarked, LeaseExpires, Cancel, Retry, Sweep, vars

\* What a step does to one row of the outbox.
OutboxRow == [status : {"ABSENT", "PENDING", "PUBLISHED"}, attempts : Nat]

LEMMA OutboxTyped ==
    ASSUME TypeOK, [Next]_vars
    PROVE  outbox' \in [Attempts \X {"detect", "cleanup"} -> OutboxRow]
<1>. DEFINE Typed == outbox' \in [Attempts \X {"detect", "cleanup"} -> OutboxRow]
<1>. outbox \in [Attempts \X {"detect", "cleanup"} -> OutboxRow]
  BY DEF TypeOK, OutboxRow
<1>1. ASSUME NEW k \in DOMAIN outbox, Publish(k) PROVE Typed
  <2>1. outbox' = [outbox EXCEPT ![k] = [status |-> "PUBLISHED", attempts |-> outbox[k].attempts + 1]]
    BY <1>1 DEF Publish
  <2>. QED
    BY <2>1 DEF OutboxRow
<1>2. ASSUME NEW k \in DOMAIN outbox, PublishUnmarked(k) PROVE Typed
  <2>1. outbox' = [outbox EXCEPT ![k] = [outbox[k] EXCEPT !.attempts = outbox[k].attempts + 1]]
    BY <1>2 DEF PublishUnmarked
  <2>. QED
    BY <2>1 DEF OutboxRow
<1>3. ASSUME NEW k, outbox' = [outbox EXCEPT ![k].status = "PENDING"] PROVE Typed
  BY <1>3 DEF OutboxRow
<1>4. ASSUME NEW h \in Handlers, HandlerActions(h) PROVE UNCHANGED outbox
  BY <1>4
     DEF HandlerActions, Works, Receive, Redirect, List, Skip, Phase, SetPending, Admit, Execute,
         Persist, RecordStep, Finalize, Verdict, FinalizeCleanup, Confirm, Dispatch, CancelList,
         Complete, Fail, Heartbeat, Crash, Expire
<1>5. UNCHANGED outbox => Typed
  OBVIOUS
<1>6. Cancel \/ Retry \/ Sweep => Typed
  BY <1>3 DEF Cancel, Retry, Sweep
<1>. HIDE DEF Typed
<1>7. Typed
  BY NextCases, <1>1, <1>2, <1>4, <1>5, <1>6 DEF LeaseExpires, vars
<1>. QED
  BY <1>7 DEF Typed

LEMMA WorldTyped ==
    ASSUME TypeOK, [Next]_vars
    PROVE  namespace' \in BOOLEAN /\ details' \subseteq StepKeys
<1>. namespace \in BOOLEAN /\ details \subseteq StepKeys
  BY DEF TypeOK
<1>1. ASSUME NEW h \in Handlers, HandlerActions(h)
      PROVE  namespace' \in BOOLEAN /\ details' \subseteq StepKeys
  <2>1. CASE Execute(h)
    <3>1. PICK r : namespace' \in NamespaceAfter(Job(h).step, r)
      BY <2>1 DEF Execute
    <3>2. NamespaceAfter(Job(h).step, r) \subseteq BOOLEAN
      BY DEF NamespaceAfter, NamespaceSteps
    <3>. QED
      BY <2>1, <3>1, <3>2 DEF Execute
  <2>2. CASE RecordStep(h)
    <3>1. \A saved \in DetailsOf(h) : saved \subseteq {Key(h)}
      BY DEF DetailsOf
    <3>. QED
      BY <2>2, <3>1, KeyTyped DEF RecordStep
  <2>. QED
    BY <1>1, <2>1, <2>2
       DEF HandlerActions, Works, Receive, Redirect, List, Skip, Phase, SetPending, Admit, Persist,
           Finalize, Verdict, FinalizeCleanup, Confirm, Dispatch, CancelList, Complete, Fail,
           Heartbeat, Crash, Expire, worldVars
<1>. QED
  BY NextCases, <1>1 DEF Publish, PublishUnmarked, LeaseExpires, Cancel, Retry, Sweep, vars, worldVars

LEMMA BoundsTyped ==
    ASSUME TypeOK, [Next]_vars
    PROVE  scenario' = scenario /\ spent' \in [Events -> Nat]
                /\ \A e \in Events : spent'[e] >= spent[e]
<1>. DEFINE Typed == scenario' = scenario /\ spent' \in [Events -> Nat]
                       /\ \A e \in Events : spent'[e] >= spent[e]
<1>. spent \in [Events -> Nat]
  BY DEF TypeOK
<1>1. ASSUME NEW e \in Events, Spend(e) PROVE Typed
  BY <1>1 DEF Spend
<1>2. UNCHANGED boundVars => Typed
  BY DEF boundVars
<1>. HIDE DEF Typed
<1>3. ASSUME NEW h \in Handlers, HandlerActions(h) PROVE Typed
  BY <1>1, <1>2, <1>3
     DEF HandlerActions, Works, Receive, Redirect, List, Skip, Phase, SetPending, Admit, Execute,
         Persist, RecordStep, Finalize, Verdict, FinalizeCleanup, Confirm, Dispatch, CancelList,
         Complete, Fail, Heartbeat, Crash, Expire, Events
<1>4. Typed
  BY NextCases, <1>1, <1>2, <1>3
     DEF Publish, PublishUnmarked, LeaseExpires, Cancel, Retry, Sweep, vars, boundVars, Events
<1>. QED
  BY <1>4 DEF Typed

LEMMA TypeStep == ASSUME TypeOK, [Next]_vars PROVE TypeOK'
<1>1. G!TypeOK'
  <2>1. G!TypeOK
    BY GuardTypes DEF TypeOK
  <2>. QED
    BY <2>1, GuardStep, GuardConstants, G!TypeStep
<1>2. Guard!TypeOK'
  BY <1>1
     DEF G!TypeOK, Guard!TypeOK, G!Row, Guard!Row, G!Call, Guard!Call, G!RowStatuses,
         Guard!RowStatuses, G!Places, Guard!Places, G!Results, Guard!Results
<1>3. IsABag(jobs)' /\ BagToSet(jobs)' \subseteq Jobs
  BY JobsStep DEF TypeOK, Sent
<1>. QED
  BY <1>2, <1>3, RunTyped, HandlersTyped, KindsTyped, OutboxTyped, WorldTyped, BoundsTyped
     DEF TypeOK, OutboxRow

\* A Run is typed from the start.
LEMMA InitiallyTyped == ASSUME Init PROVE TypeOK
<1>. DEFINE done == StepsBefore(scenario.first)
<1>0. scenario.first \in Steps /\ done \subseteq Steps
  BY WorkflowAssumption DEF Init, StepsBefore
<1>1. run \in [status : RunStatuses, attempt : Attempts, cleanup : CleanupStatuses]
  <2>1. ASSUME done # {}
        PROVE  PhaseForStep[WorkflowSteps[StepIndex[scenario.first] - 1]] \in RunStatuses
    BY <1>0, <2>1, ElevenSteps, StepIndexes
       DEF PhaseForStep, WorkflowSteps, RunStatuses, StepsBefore
  <2>. QED
    BY <2>1, WorkflowAssumption DEF Init, RunStatuses, CleanupStatuses
<1>2. Guard!TypeOK
  <2>1. rows \in [StepKeys -> Guard!Row]
    BY DEF Init, Guard!Row, Guard!RowStatuses, Guard!Results
  <2>2. call \in [Handlers -> Guard!Call]
    BY WorkflowAssumption, ElevenSteps
       DEF Init, Guard!Call, Guard!Places, Guard!Results, StepKeys
  <2>3. executed \in [StepKeys -> Nat]
    BY DEF Init
  <2>. QED
    BY <2>1, <2>2, <2>3 DEF Guard!TypeOK
<1>3. handler \in [Handlers -> HandlerState]
  BY WorkflowAssumption, ElevenSteps
     DEF Init, IdleHandler, HandlerState, Places, Jobs, MaxDeliveryRetries, Paths, RunStatuses,
         StepResults, Verdicts
<1>4. IsABag(jobs) /\ BagToSet(jobs) \subseteq Jobs
  <2>1. JobFor(1, scenario.first) \in Jobs
    BY <1>0, WorkflowAssumption DEF JobFor, Jobs, MaxDeliveryRetries
  <2>. QED
    BY <2>1, SmallBags DEF Init
<1>5. outbox \in [Attempts \X {"detect", "cleanup"} ->
                    [status : {"ABSENT", "PENDING", "PUBLISHED"}, attempts : Nat]]
  BY DEF Init, NoRow
<1>6. kinds \in [StepKeys -> FailureKinds] /\ namespace \in BOOLEAN
  BY DEF Init, FailureKinds
<1>7. details \subseteq StepKeys
  BY <1>0, WorkflowAssumption DEF Init, StepKeys
<1>8. scenario \in Scenarios /\ spent \in [Events -> Nat]
  BY DEF Init
<1>. QED
  BY <1>1, <1>2, <1>3, <1>4, <1>5, <1>6, <1>7, <1>8 DEF TypeOK

\* Type correctness: the Run, its rows, the handlers, the queue and the outbox keep
\* their types, whatever they do at the same time.
THEOREM TypeCorrect == Spec => []TypeOK
<1>1. Init => TypeOK
  BY InitiallyTyped
<1>2. TypeOK /\ [Next]_vars => TypeOK'
  BY TypeStep
<1>. QED
  BY <1>1, <1>2, PTL DEF Spec

-----------------------------------------------------------------------------
\* The inductive invariant, in parts. A handler is inside runOnce exactly while it
\* stands at the guard, for its own step, and what the guard is about to record is
\* what the handler has in hand.
KnowsItsCall(h) ==
    /\ call[h].at # "idle" <=> At(h, "guard")
    /\ call[h].at # "admitting"
    /\ At(h, "guard") => call[h].key = Key(h)
    /\ call[h].at = "persisting" => call[h].result = handler[h].result.status

HandlersKnowTheirCalls == \A h \in Handlers : KnowsItsCall(h)

\* A row with a result is a result that an executor may report, of the cleanup never
\* the application's failure; any other row has no failure kind.
RowIsResult(k) ==
    IF rows[k].status \in {"PASSED", "FAILED", "INCOMPLETE"}
    THEN /\ [status |-> rows[k].status, kind |-> kinds[k]] \in StepResults
         /\ k[2] = "cleanup" => kinds[k] # "app"
    ELSE kinds[k] = "none"

RecordsAreResults ==
    /\ \A k \in StepKeys : RowIsResult(k)
    /\ \A h \in Handlers : call[h].at = "persisting" /\ Job(h).step = "cleanup"
                              => handler[h].result # AppFailure

\* A step is due when every earlier step of its attempt is settled; the cleanup also
\* when the attempt is being cancelled, which it then is for good.
Ready(k) == \A s \in StepsBefore(k[2]) : Guard!Settled(<<k[1], s>>)

Due(k) == Ready(k) \/ (k[2] = "cleanup" /\ Cancelling(k[1]))

\* A step that was skipped has one before the cleanup that went wrong to answer for it.
WentWrong(a) ==
    \E s \in StepsBefore("cleanup") : rows[<<a, s>>].status \in {"FAILED", "INCOMPLETE"}

\* Nothing is started, recorded or skipped before its time, and no handler sets out to.
RowIsDue(k) ==
    /\ rows[k].status # "ABSENT" => Due(k)
    /\ rows[k].status = "SKIPPED" => k[2] # "cleanup" /\ WentWrong(k[1])

GoesForDue(h) ==
    /\ handler[h].at \in {"phase", "setPending", "admit"} => Due(Key(h))
    /\ At(h, "skip") => /\ handler[h].target # "cleanup"
                        /\ Ready(<<Job(h).attempt, handler[h].target>>)
                        /\ WentWrong(Job(h).attempt)
    /\ At(h, "cancelList") => Job(h).step = "cleanup" /\ Cancelling(Job(h).attempt)

StepsAreDue == (\A k \in StepKeys : RowIsDue(k)) /\ (\A h \in Handlers : GoesForDue(h))

\* Later attempts have not left a trace.
LaterAttemptsAreBlank ==
    /\ \A k \in StepKeys : k[1] > run.attempt => rows[k].status = "ABSENT"
    /\ \A h \in Handlers : Job(h).attempt <= run.attempt
    /\ \A job \in BagToSet(jobs) : job.attempt <= run.attempt
    /\ \A k \in DOMAIN outbox : k[1] > run.attempt => outbox[k].status = "ABSENT"

\* A verdict given or about to be given fits the records.
VerdictFits(h) ==
    /\ At(h, "record") /\ Job(h).step # "cleanup" => Guard!Settled(Key(h))
    /\ At(h, "finalize") => Job(h).step = "report" /\ Guard!Settled(Key(h))
    /\ At(h, "verdict") => Fits(handler[h].verdict, Book(Job(h).attempt))

VerdictsFit ==
    /\ run.status \in Verdicts => Fits(run.status, Book(run.attempt))
    /\ \A h \in Handlers : VerdictFits(h)

\* A review that passed has its report saved, or its handler is about to save it.
SavesReport(h, a) ==
    /\ At(h, "record") /\ Key(h) = <<a, "review">>
    /\ handler[h].ran /\ handler[h].result = Passed

ReportsAreKept ==
    spent["crash"] = 0 => \A a \in Attempts :
        rows[<<a, "review">>].status = "PASSED" /\ a >= run.attempt =>
            \/ <<a, "review">> \in details
            \/ \E h \in Handlers : SavesReport(h, a)

\* A cleanup that is reported as done is.
CleanupIsRecorded(h) ==
    /\ handler[h].at \in {"record", "cleanup"} /\ Job(h).step = "cleanup" /\ CleanupSucceeded(h)
         => rows[Key(h)].status = "PASSED"
    /\ At(h, "cleanup") => Job(h).step = "cleanup"
    /\ handler[h].path = "cancel" => Job(h).step = "cleanup"

CleanupsAreRecorded ==
    /\ run.cleanup = "CLEANED" => rows[<<run.attempt, "cleanup">>].status = "PASSED"
    /\ \A h \in Handlers : CleanupIsRecorded(h)

-----------------------------------------------------------------------------
\* How a handler comes to stand where it stands.
ArrivesDuly(g) ==
    LET to == handler'[g].at IN
    /\ to = "list" => Receive(g) \/ Skip(g)
    /\ to \in {"phase", "skip"} => List(g)
    /\ to = "cancelList" => Receive(g)
    /\ to = "setPending" => Phase(g) \/ CancelList(g)
    /\ to = "admit" => Phase(g) \/ SetPending(g)
    /\ to = "guard" => Admit(g) \/ Execute(g) \/ Persist(g)
    /\ to = "record" => Admit(g) \/ Persist(g)
    /\ to \in {"finalize", "cleanup"} => RecordStep(g)
    /\ to = "verdict" => Finalize(g)
    /\ to = "idle" => handler'[g] = IdleHandler
    /\ Receive(g) \/ to = "idle" \/ handler'[g].job = handler[g].job
    /\ handler'[g].path = "cancel" => handler[g].path = "cancel" \/ CancelList(g)

\* Every action of a handler leaves it where the table says.
LEMMA Arrivals == ASSUME TypeOK, NEW g \in Handlers, Works(g) PROVE ArrivesDuly(g)
<1>. handler \in [Handlers -> HandlerState]
  BY DEF TypeOK
<1>. USE DEF At, Job, Goto, ArrivesDuly, HandlerState
<1>1. CASE Receive(g)
  <2>1. PICK job :
          handler' = [handler EXCEPT ![g] =
                        [IdleHandler EXCEPT !.at = Opening(job), !.job = job,
                                            !.owned = TRUE, !.snap = run.status]]
    BY <1>1 DEF Receive
  <2>2. handler'[g].at = Opening(job) /\ handler'[g].path = "advance"
    BY <2>1 DEF IdleHandler
  <2>. QED
    BY <1>1, <2>2 DEF Opening
<1>2. CASE Redirect(g)
  BY <1>2 DEF Redirect
<1>3. CASE List(g)
  <2>. DEFINE next == NextStepAction(Book(Job(g).attempt))
              place == AfterListing(g, Book(Job(g).attempt), next)
  <2>1. place \in {"done", "skip", "phase", "next", "failed"}
    BY NextStepIsDue DEF AfterListing
  <2>2. handler'[g] = [handler[g] EXCEPT !.at = place,
                                         !.target = IF next.action = "skip"
                                                    THEN next.step ELSE "detect"]
    BY <1>3 DEF List
  <2>. HIDE DEF next, place
  <2>. QED
    BY <1>3, <2>1, <2>2
<1>4. CASE Skip(g)
  BY <1>4 DEF Skip
<1>5. CASE Phase(g)
  BY <1>5 DEF Phase
<1>6. CASE SetPending(g)
  BY <1>6 DEF SetPending
<1>7. CASE Admit(g)
  BY <1>7 DEF Admit
<1>8. CASE Execute(g)
  BY <1>8 DEF Execute
<1>9. CASE Persist(g)
  BY <1>9 DEF Persist
<1>10. CASE RecordStep(g)
  BY <1>10 DEF RecordStep, AfterRecording
<1>11. CASE Finalize(g)
  BY <1>11 DEF Finalize
<1>12. CASE Verdict(g)
  BY <1>12 DEF Verdict
<1>13. CASE FinalizeCleanup(g)
  BY <1>13 DEF FinalizeCleanup
<1>14. CASE Confirm(g)
  BY <1>14 DEF Confirm
<1>15. CASE Dispatch(g)
  BY <1>15 DEF Dispatch
<1>16. CASE CancelList(g)
  BY <1>16 DEF CancelList
<1>17. CASE Complete(g) \/ Fail(g)
  <2>1. handler'[g] = IdleHandler
    BY <1>17 DEF Complete, Fail
  <2>2. IdleHandler.at = "idle" /\ IdleHandler.path = "advance"
    BY DEF IdleHandler
  <2>. QED
    BY <2>1, <2>2
<1>. HIDE DEF ArrivesDuly
<1>. QED
  BY <1>1, <1>2, <1>3, <1>4, <1>5, <1>6, <1>7, <1>8, <1>9, <1>10, <1>11, <1>12, <1>13, <1>14,
     <1>15, <1>16, <1>17 DEF Works

\* The step guard is asked in three actions only; what it has of a handler changes there.
LEMMA CallUnchanged ==
    ASSUME TypeOK, NEW g \in Handlers, Works(g), ~Admit(g), ~Execute(g), ~Persist(g)
    PROVE  UNCHANGED call /\ handler[g].at # "guard"
  BY DEF Works, Receive, Redirect, List, Skip, Phase, SetPending, RecordStep, Finalize, Verdict,
         FinalizeCleanup, Confirm, Dispatch, CancelList, Complete, Fail, guardVars, At,
         Guard!MarkSkipped

\* A handler that does nothing in a step is as it was.
LEMMA OthersStandBy ==
    ASSUME TypeOK, [Next]_vars, NEW g \in Handlers, ~HandlerActions(g)
    PROVE  UNCHANGED handler[g] /\ UNCHANGED call[g]
<1>. handler \in [Handlers -> HandlerState] /\ call \in [Handlers -> Guard!Call]
  BY DEF TypeOK, Guard!TypeOK
<1>. USE DEF At, Key, Job, Goto
<1>1. ASSUME NEW h \in Handlers, h # g, HandlerActions(h)
      PROVE  UNCHANGED handler[g] /\ UNCHANGED call[g]
  BY <1>1
     DEF HandlerActions, Works, Receive, Redirect, List, Skip, Phase, SetPending, Admit, Execute,
         Persist, RecordStep, Finalize, Verdict, FinalizeCleanup, Confirm, Dispatch, CancelList,
         Complete, Fail, Heartbeat, Crash, Expire, guardVars,
         Guard!MarkSkipped, Guard!AlreadyTerminal, Guard!Busy, Guard!Admit, Guard!vars,
         Guard!OperationReturns, Guard!Persist, Guard!LeaseLost, Guard!Release, Guard!Heartbeat,
         Guard!Crash
<1>. QED
  BY <1>1, NextCases
     DEF Publish, PublishUnmarked, LeaseExpires, Guard!LeaseExpires, Cancel, Retry, Sweep, vars,
         guardVars

\* The guard and the handlers keep agreeing on where each handler is.
LEMMA CallsStep ==
    ASSUME TypeOK, HandlersKnowTheirCalls, [Next]_vars
    PROVE  HandlersKnowTheirCalls'
<1>. SUFFICES ASSUME NEW g \in Handlers PROVE KnowsItsCall(g)'
  BY DEF HandlersKnowTheirCalls
<1>. KnowsItsCall(g) /\ handler \in [Handlers -> HandlerState] /\ call \in [Handlers -> Guard!Call]
  BY DEF HandlersKnowTheirCalls, TypeOK, Guard!TypeOK
<1>. USE DEF At, Key, Job, Goto
<1>1. ASSUME UNCHANGED handler[g], UNCHANGED call[g] PROVE KnowsItsCall(g)'
  BY <1>1 DEF KnowsItsCall
<1>3. ASSUME handler[g].at # "guard", handler'[g].at # "guard", UNCHANGED call[g]
      PROVE  KnowsItsCall(g)'
  BY <1>3 DEF KnowsItsCall
<1>4. CASE Admit(g)
  <2>1. CASE UNCHANGED guardVars /\ handler'[g].at # "guard"
    BY <1>3, <1>4, <2>1 DEF Admit, guardVars
  <2>2. CASE Guard!Admit(g, Key(g)) /\ Goto(g, "guard")
    BY <2>2 DEF KnowsItsCall, Guard!Admit, Guard!Leased
  <2>. QED
    BY <1>4, <2>1, <2>2
       DEF Admit, Guard!AlreadyTerminal, Guard!Busy, Guard!vars, guardVars, HandlerState
<1>5. CASE Execute(g)
  <2>1. PICK r : Guard!OperationReturns(g, r.status) /\ handler' = [handler EXCEPT ![g].result = r]
    BY <1>5 DEF Execute
  <2>. QED
    BY <1>5, <2>1 DEF Execute, KnowsItsCall, Guard!OperationReturns, Guard!Call, HandlerState
<1>6. CASE Persist(g)
  <2>1. CASE Guard!Persist(g)
    BY <1>6, <2>1 DEF Persist, KnowsItsCall, Guard!Persist, HandlerState, Guard!LeaseLost,
                      Guard!Release
  <2>2. CASE Guard!LeaseLost(g) /\ UNCHANGED handler
    BY <2>2 DEF KnowsItsCall, Guard!LeaseLost, Guard!Call
  <2>3. CASE Guard!Release(g) /\ Goto(g, "failed")
    BY <2>3 DEF KnowsItsCall, Guard!Release, HandlerState
  <2>. QED
    BY <1>6, <2>1, <2>2, <2>3 DEF Persist
<1>7. CASE Heartbeat(g)
  <2>1. call'[g] = call[g] \/ call'[g] = [call[g] EXCEPT !.lost = TRUE]
    BY <1>7 DEF Heartbeat, Guard!Heartbeat
  <2>. QED
    BY <1>7, <2>1 DEF Heartbeat, KnowsItsCall, Guard!Call
<1>8. CASE Crash(g)
  <2>1. handler'[g].at = "idle" /\ call'[g].at = "idle"
    BY <1>8 DEF Crash, KnowsItsCall, Guard!Crash, IdleHandler, guardVars, Guard!Call
  <2>. QED
    BY <2>1 DEF KnowsItsCall
<1>9. CASE Expire(g)
  BY <1>9 DEF Expire, KnowsItsCall, guardVars, HandlerState
<1>10. CASE Works(g) /\ ~Admit(g) /\ ~Execute(g) /\ ~Persist(g)
  <2>1. handler[g].at # "guard" /\ handler'[g].at # "guard" /\ UNCHANGED call[g]
    BY <1>10, Arrivals, CallUnchanged DEF ArrivesDuly
  <2>. QED
    BY <1>3, <2>1
<1>. QED
  BY <1>1, <1>4, <1>5, <1>6, <1>7, <1>8, <1>9, <1>10, OthersStandBy DEF HandlerActions

-----------------------------------------------------------------------------
\* What a step does to a row: a handler begins the step, skips it, records its result
\* or gives it back, or the row says the same as before.
Begins(h, k) ==
    /\ At(h, "admit") /\ k = Key(h)
    /\ ~Guard!Settled(k)
    /\ rows'[k].status = "RUNNING"
    /\ kinds'[k] = "none"
    /\ handler'[h] = [handler[h] EXCEPT !.at = "guard"]

Skips(h, k) ==
    /\ At(h, "skip") /\ k = <<Job(h).attempt, handler[h].target>>
    /\ ~Guard!Settled(k)
    /\ rows'[k].status = "SKIPPED"
    /\ UNCHANGED kinds[k]

Records(h, k) ==
    /\ At(h, "guard") /\ k = Key(h) /\ call[h].at = "persisting"
    /\ rows[k].status = "RUNNING"
    /\ rows'[k].status = handler[h].result.status
    /\ kinds'[k] = handler[h].result.kind
    /\ handler'[h] = [handler[h] EXCEPT !.at = "record", !.ran = TRUE]

GivesBack(h, k) ==
    /\ At(h, "guard") /\ k = Key(h) /\ call[h].at = "releasing"
    /\ rows[k].status = "RUNNING" /\ rows'[k].status = "PENDING"
    /\ UNCHANGED kinds[k]

SaysTheSame(k) ==
    /\ UNCHANGED rows[k].status /\ UNCHANGED rows[k].token
    /\ UNCHANGED kinds[k]

RowMoves(k) ==
    \/ SaysTheSame(k)
    \/ \E h \in Handlers : Begins(h, k) \/ Skips(h, k) \/ Records(h, k) \/ GivesBack(h, k)

\* Nothing else happens to a row.
LEMMA RowStep ==
    ASSUME TypeOK, G!OnlyRunningRowsAreHeld, HandlersKnowTheirCalls, [Next]_vars, NEW k \in StepKeys
    PROVE  RowMoves(k)
<1>. /\ rows \in [StepKeys -> Guard!Row] /\ kinds \in [StepKeys -> FailureKinds]
     /\ handler \in [Handlers -> HandlerState]
  BY DEF TypeOK, Guard!TypeOK
<1>1. ASSUME UNCHANGED rows, UNCHANGED kinds PROVE RowMoves(k)
  BY <1>1 DEF RowMoves, SaysTheSame
<1>2. ASSUME NEW h \in Handlers, Skip(h) PROVE RowMoves(k)
  <2>. DEFINE j == <<Job(h).attempt, handler[h].target>>
  <2>1. CASE UNCHANGED guardVars
    BY <1>1, <1>2, <2>1 DEF Skip, guardVars
  <2>2. CASE Guard!MarkSkipped(j)
    <3>1. CASE k = j
      BY <1>2, <2>2, <3>1 DEF Skip, Guard!MarkSkipped, RowMoves, Skips
    <3>2. CASE k # j
      BY <1>2, <2>2, <3>2 DEF Skip, Guard!MarkSkipped, RowMoves, SaysTheSame
    <3>. QED
      BY <3>1, <3>2
  <2>. QED
    BY <1>2, <2>1, <2>2 DEF Skip
<1>3. ASSUME NEW h \in Handlers, Admit(h) PROVE RowMoves(k)
  <2>1. CASE UNCHANGED guardVars /\ UNCHANGED kinds
    BY <1>1, <2>1 DEF guardVars
  <2>2. CASE /\ Guard!Admit(h, Key(h)) /\ Goto(h, "guard")
             /\ kinds' = [kinds EXCEPT ![Key(h)] = "none"]
    <3>1. CASE k = Key(h)
      <4>1. handler'[h] = [handler[h] EXCEPT !.at = "guard"]
        BY <2>2 DEF Goto
      <4>. QED
        BY <1>3, <2>2, <3>1, <4>1 DEF Admit, Guard!Admit, Guard!Leased, Guard!Free, RowMoves, Begins
    <3>2. CASE k # Key(h)
      BY <2>2, <3>2 DEF Guard!Admit, Guard!Leased, RowMoves, SaysTheSame
    <3>. QED
      BY <3>1, <3>2
  <2>. QED
    BY <1>3, <2>1, <2>2 DEF Admit, Guard!AlreadyTerminal, Guard!Busy, Guard!vars, guardVars
<1>4. ASSUME NEW h \in Handlers, Persist(h) PROVE RowMoves(k)
  <2>. call[h].key = Key(h) /\ (call[h].at = "persisting" => call[h].result = handler[h].result.status)
    BY <1>4 DEF HandlersKnowTheirCalls, KnowsItsCall, Persist
  <2>1. CASE /\ Guard!Persist(h)
             /\ kinds' = [kinds EXCEPT ![Key(h)] = handler[h].result.kind]
             /\ handler' = [handler EXCEPT ![h].at = "record", ![h].ran = TRUE]
    <3>1. CASE k = Key(h)
      <4>1. handler'[h] = [handler[h] EXCEPT !.at = "record", !.ran = TRUE]
        BY <2>1
      <4>2. rows'[k].status = handler[h].result.status /\ rows[k].status = "RUNNING"
        BY <2>1, <3>1 DEF Guard!Persist, Guard!Fenced, Guard!RowSettledBy
      <4>3. At(h, "guard") /\ call[h].at = "persisting" /\ kinds'[k] = handler[h].result.kind
        BY <1>4, <2>1, <3>1 DEF Guard!Persist, Persist
      <4>. QED
        BY <3>1, <4>1, <4>2, <4>3 DEF RowMoves, Records
    <3>2. CASE k # Key(h)
      BY <2>1, <3>2 DEF Guard!Persist, RowMoves, SaysTheSame
    <3>. QED
      BY <3>1, <3>2
  <2>2. CASE Guard!LeaseLost(h) /\ UNCHANGED kinds
    BY <1>1, <2>2 DEF Guard!LeaseLost
  <2>3. CASE Guard!Release(h) /\ UNCHANGED kinds
    <3>1. CASE k = Key(h) /\ rows[k].token = h
      <4>1. rows[k].status = "RUNNING"
        BY <3>1, GuardConstants DEF G!OnlyRunningRowsAreHeld
      <4>. QED
        BY <1>4, <2>3, <3>1, <4>1 DEF Persist, Guard!Release, Guard!Holds, RowMoves, GivesBack
    <3>2. CASE ~(k = Key(h) /\ rows[k].token = h)
      BY <2>3, <3>2 DEF Guard!Release, Guard!Holds, RowMoves, SaysTheSame
    <3>. QED
      BY <3>1, <3>2
  <2>. QED
    BY <1>4, <2>1, <2>2, <2>3 DEF Persist
<1>5. ASSUME NEW h \in Handlers, Heartbeat(h) PROVE RowMoves(k)
  BY <1>5 DEF Heartbeat, Guard!Heartbeat, Guard!Row, RowMoves, SaysTheSame
<1>6. ASSUME NEW j \in StepKeys, LeaseExpires(j) PROVE RowMoves(k)
  BY <1>6 DEF LeaseExpires, Guard!LeaseExpires, Guard!Row, RowMoves, SaysTheSame
<1>. HIDE DEF RowMoves
<1>7. ASSUME NEW h \in Handlers, HandlerActions(h) PROVE RowMoves(k)
  BY <1>1, <1>2, <1>3, <1>4, <1>5, <1>7
     DEF HandlerActions, Works, Receive, Redirect, List, Phase, SetPending, Execute, RecordStep,
         Finalize, Verdict, FinalizeCleanup, Confirm, Dispatch, CancelList, Complete, Fail, Crash,
         Expire, guardVars, Guard!OperationReturns, Guard!Crash
<1>. QED
  BY NextCases, <1>1, <1>6, <1>7
     DEF Publish, PublishUnmarked, Cancel, Retry, Sweep, vars, guardVars

-----------------------------------------------------------------------------
\* What stays: a settled row, an attempt that is being cancelled, a step that is due.
\* The guard's own lemmas ask who stands between the halves of an admission: nobody.
LEMMA NobodyAdmits == ASSUME HandlersKnowTheirCalls PROVE G!AdmissionsHoldTheLock
  BY DEF HandlersKnowTheirCalls, KnowsItsCall, G!AdmissionsHoldTheLock

LEMMA SettledStays ==
    ASSUME TypeOK, G!OnlyRunningRowsAreHeld, HandlersKnowTheirCalls, [Next]_vars,
           NEW k \in StepKeys, Guard!Settled(k)
    PROVE  Guard!Settled(k)' /\ rows'[k] = rows[k] /\ kinds'[k] = kinds[k]
<1>1. rows'[k] = rows[k]
  <2>1. G!RowStepOf(k)
    BY GuardTypes, GuardStep, GuardConstants, NobodyAdmits, G!RowStep DEF TypeOK
  <2>. QED
    BY <2>1, SettledIs DEF G!RowStepOf
<1>2. rows[k].status # "RUNNING"
  BY DEF Guard!Settled, Guard!Stands, Guard!Results
<1>3. kinds'[k] = kinds[k]
  BY <1>1, <1>2, RowStep DEF RowMoves, SaysTheSame, Begins, Skips, Records, GivesBack
<1>. QED
  BY <1>1, <1>3 DEF Guard!Settled

\* The attempt of the Run only grows, and by a retry only.
LEMMA AttemptGrows ==
    ASSUME TypeOK, [Next]_vars
    PROVE  /\ run.attempt \in Nat \ {0} /\ run'.attempt \in Nat \ {0}
           /\ run'.attempt = run.attempt \/ (IsRetried /\ run'.attempt = run.attempt + 1)
<1>1. run.attempt \in Nat \ {0} /\ run'.attempt \in Nat \ {0}
  BY RunTyped, WorkflowAssumption DEF TypeOK
<1>2. run'.attempt = run.attempt \/ (IsRetried /\ run'.attempt = run.attempt + 1)
  <2>. run \in [status : RunStatuses, attempt : Attempts, cleanup : CleanupStatuses]
    BY DEF TypeOK
  <2>1. ASSUME NEW h \in Handlers, NEW to, Goes(h, to) PROVE run'.attempt = run.attempt
    BY <2>1 DEF Goes
  <2>2. ASSUME NEW h \in Handlers, SetsPending(h) \/ RecordsCleanup(h)
        PROVE  run'.attempt = run.attempt
    BY <2>2 DEF SetsPending, RecordsCleanup
  <2>3. IsCancelled => run'.attempt = run.attempt
    BY DEF IsCancelled
  <2>4. IsRetried => run'.attempt = run.attempt + 1
    BY DEF IsRetried
  <2>5. IsTurnedAway => run'.attempt = run.attempt
    BY DEF IsTurnedAway
  <2>. QED
    BY RunStep, <2>1, <2>2, <2>3, <2>4, <2>5 DEF RunMoves, Advances, GivesVerdict, Confirms
<1>. QED
  BY <1>1, <1>2

LEMMA CancellingStays ==
    ASSUME TypeOK, [Next]_vars, NEW a, Cancelling(a)
    PROVE  Cancelling(a)'
<1>. run \in [status : RunStatuses, attempt : Attempts, cleanup : CleanupStatuses]
  BY DEF TypeOK
<1>. USE DEF Cancelling
<1>1. ASSUME NEW h \in Handlers, NEW to, Goes(h, to) PROVE Cancelling(a)'
  BY <1>1 DEF Goes, MayMove, ValidTransition, Transitions
<1>2. ASSUME NEW h \in Handlers, SetsPending(h) \/ RecordsCleanup(h) PROVE Cancelling(a)'
  BY <1>2 DEF SetsPending, RecordsCleanup
<1>3. ~IsCancelled /\ ~IsTurnedAway /\ ~IsRetried
  BY DEF IsCancelled, IsTurnedAway, IsRetried, CancellableStatuses, CanRetry
<1>. HIDE DEF Cancelling
<1>4. UNCHANGED run => Cancelling(a)'
  BY DEF Cancelling
<1>. QED
  BY RunStep, <1>1, <1>2, <1>3, <1>4 DEF RunMoves, Advances, GivesVerdict, Confirms

LEMMA DueStays ==
    ASSUME TypeOK, G!OnlyRunningRowsAreHeld, HandlersKnowTheirCalls, [Next]_vars,
           NEW k \in StepKeys
    PROVE  (Ready(k) => Ready(k)') /\ (Due(k) => Due(k)')
<1>1. \A s \in StepsBefore(k[2]) : <<k[1], s>> \in StepKeys
  BY DEF StepKeys, StepsBefore
<1>2. Ready(k) => Ready(k)'
  BY <1>1, SettledStays DEF Ready
<1>. QED
  BY <1>2, CancellingStays DEF Due

LEMMA WentWrongStays ==
    ASSUME TypeOK, G!OnlyRunningRowsAreHeld, HandlersKnowTheirCalls, [Next]_vars,
           NEW a \in Attempts, WentWrong(a)
    PROVE  WentWrong(a)'
<1>1. PICK s \in StepsBefore("cleanup") : rows[<<a, s>>].status \in {"FAILED", "INCOMPLETE"}
  BY DEF WentWrong
<1>2. s \in Steps /\ s # "cleanup" /\ <<a, s>> \in StepKeys
  BY StepsBeforeCleanup DEF StepKeys
<1>3. Guard!Settled(<<a, s>>)
  BY <1>1, <1>2, SettledMeans
<1>. QED
  BY <1>1, <1>2, <1>3, SettledStays DEF WentWrong

\* A verdict that fits the records of an attempt fits them for good.
LEMMA FitsStays ==
    ASSUME TypeOK, G!OnlyRunningRowsAreHeld, HandlersKnowTheirCalls, [Next]_vars,
           NEW a \in Attempts, NEW verdict, Fits(verdict, Book(a))
    PROVE  Fits(verdict, Book(a)')
<1>1. ASSUME NEW s \in StepsBefore("cleanup") PROVE Book(a)'[s] = Book(a)[s]
  <2>1. s \in Steps /\ s # "cleanup" /\ <<a, s>> \in StepKeys
    BY StepsBeforeCleanup DEF StepKeys
  <2>2. Guard!Settled(<<a, s>>)
    <3>1. rows[<<a, s>>].status \in TerminalStepStatuses
      BY <2>1 DEF Fits, Book
    <3>2. rows[<<a, s>>].status \in Guard!RowStatuses
      BY <2>1 DEF TypeOK, Guard!TypeOK, Guard!Row
    <3>. QED
      BY <2>1, <3>1, <3>2, SettledMeans
         DEF TerminalStepStatuses, Guard!RowStatuses, Guard!Results
  <2>. QED
    BY <2>1, <2>2, SettledStays DEF Book
<1>. QED
  BY <1>1 DEF Fits

-----------------------------------------------------------------------------
\* The parts of the invariant, one by one.
Basis == TypeOK /\ G!OnlyRunningRowsAreHeld /\ HandlersKnowTheirCalls

LEMMA ResultsStep ==
    ASSUME Basis, RecordsAreResults, StepsAreDue, [Next]_vars
    PROVE  RecordsAreResults'
<1>. TypeOK /\ G!OnlyRunningRowsAreHeld /\ HandlersKnowTheirCalls
  BY DEF Basis
<1>. handler \in [Handlers -> HandlerState] /\ call \in [Handlers -> Guard!Call]
  BY DEF TypeOK, Guard!TypeOK
<1>1. ASSUME NEW k \in StepKeys PROVE RowIsResult(k)'
  <2>1. RowIsResult(k)
    BY DEF RecordsAreResults
  <2>2. CASE SaysTheSame(k)
    BY <2>1, <2>2 DEF SaysTheSame, RowIsResult
  <2>3. ASSUME NEW h \in Handlers, Begins(h, k) PROVE RowIsResult(k)'
    BY <2>3 DEF Begins, RowIsResult
  <2>4. ASSUME NEW h \in Handlers, Skips(h, k) PROVE RowIsResult(k)'
    <3>1. k[2] # "cleanup" /\ k[2] \in Steps /\ k[1] \in Attempts /\ k = <<k[1], k[2]>>
      BY <2>4 DEF Skips, StepsAreDue, GoesForDue, StepKeys
    <3>2. rows[k].status \notin {"PASSED", "FAILED", "INCOMPLETE"}
      BY <2>4, <3>1, SettledMeans DEF Skips
    <3>. QED
      BY <2>1, <2>4, <3>2 DEF Skips, RowIsResult
  <2>5. ASSUME NEW h \in Handlers, Records(h, k) PROVE RowIsResult(k)'
    <3>1. handler[h].result \in StepResults
      BY DEF HandlerState
    <3>2. [status |-> rows'[k].status, kind |-> kinds'[k]] = handler[h].result
      BY <2>5, <3>1 DEF Records, StepResults, Passed, AppFailure, HardFailed, Incomplete
    <3>3. ASSUME k[2] = "cleanup" PROVE kinds'[k] # "app"
      <4>1. handler[h].result # AppFailure
        BY <2>5, <3>3 DEF Records, RecordsAreResults, Key
      <4>. QED
        BY <2>5, <3>1, <4>1 DEF Records, StepResults, Passed, AppFailure, HardFailed, Incomplete
    <3>4. rows'[k].status \in {"PASSED", "FAILED", "INCOMPLETE"}
      BY <2>5, <3>1 DEF Records, StepResults, Passed, AppFailure, HardFailed, Incomplete
    <3>. QED
      BY <3>1, <3>2, <3>3, <3>4 DEF RowIsResult
  <2>6. ASSUME NEW h \in Handlers, GivesBack(h, k) PROVE RowIsResult(k)'
    BY <2>1, <2>6 DEF GivesBack, RowIsResult
  <2>. QED
    BY RowStep, <2>2, <2>3, <2>4, <2>5, <2>6 DEF RowMoves
<1>2. ASSUME NEW g \in Handlers, call'[g].at = "persisting", handler'[g].job.step = "cleanup"
      PROVE  handler'[g].result # AppFailure
  <2>1. CASE Execute(g)
    <3>1. PICK r \in scenario.results[Job(g).step] :
            Guard!OperationReturns(g, r.status) /\ handler' = [handler EXCEPT ![g].result = r]
      BY <2>1 DEF Execute
    <3>2. handler'[g].result = r /\ handler'[g].job = handler[g].job
      BY <3>1
    <3>. QED
      BY <1>2, <3>1, <3>2, WorkflowAssumption DEF TypeOK, Job
  <2>2. ASSUME call[g].at = "persisting", handler'[g].job = handler[g].job,
               handler'[g].result = handler[g].result
        PROVE  handler'[g].result # AppFailure
    BY <1>2, <2>2 DEF RecordsAreResults, Job
  <2>3. CASE ~Execute(g)
    <3>1. KnowsItsCall(g)' /\ KnowsItsCall(g)
      BY CallsStep DEF HandlersKnowTheirCalls
    <3>2. handler'[g].at = "guard"
      BY <1>2, <3>1 DEF KnowsItsCall, At
    <3>3. CASE UNCHANGED handler[g] /\ UNCHANGED call[g].at
      BY <1>2, <2>2, <3>3
    <3>4. CASE Works(g)
      <4>1. Admit(g) \/ Persist(g)
        BY <2>3, <3>2, <3>4, Arrivals DEF ArrivesDuly
      <4>2. CASE Admit(g)
        <5>1. Guard!Admit(g, Key(g))
          BY <3>2, <4>2 DEF Admit, Goto, HandlerState
        <5>. QED
          BY <1>2, <5>1 DEF Guard!Admit, Guard!Leased
      <4>3. CASE Persist(g)
        <5>1. Guard!LeaseLost(g)
          BY <3>2, <4>3 DEF Persist, Goto, HandlerState
        <5>. QED
          BY <1>2, <5>1 DEF Guard!LeaseLost
      <4>. QED
        BY <4>1, <4>2, <4>3
    <3>5. CASE Crash(g)
      BY <3>2, <3>5 DEF Crash, IdleHandler
    <3>6. CASE Expire(g)
      BY <1>2, <2>2, <3>6 DEF Expire, guardVars
    <3>7. CASE Heartbeat(g)
      <4>1. call'[g] = call[g] \/ call'[g] = [call[g] EXCEPT !.lost = TRUE]
        BY <3>7 DEF Heartbeat, Guard!Heartbeat
      <4>. QED
        BY <1>2, <2>2, <3>7, <4>1 DEF Heartbeat, Guard!Call
    <3>8. CASE ~HandlerActions(g)
      BY <3>3, <3>8, OthersStandBy
    <3>. QED
      BY <2>3, <3>4, <3>5, <3>6, <3>7, <3>8 DEF HandlerActions
  <2>. QED
    BY <2>1, <2>3
<1>. QED
  BY <1>1, <1>2 DEF RecordsAreResults, Job

\* Jobs, handlers, rows and publications follow the attempt of the Run.
LEMMA BlankStep ==
    ASSUME Basis, LaterAttemptsAreBlank, [Next]_vars
    PROVE  LaterAttemptsAreBlank'
<1>. TypeOK /\ G!OnlyRunningRowsAreHeld /\ HandlersKnowTheirCalls
  BY DEF Basis
<1>. handler \in [Handlers -> HandlerState]
  BY DEF TypeOK
<1>. run.attempt \in Nat /\ run'.attempt \in Nat /\ run'.attempt >= run.attempt
  BY AttemptGrows
<1>0. \A a \in Attempts : a \in Nat
  BY WorkflowAssumption
<1>1. ASSUME NEW k \in StepKeys, k[1] > run'.attempt PROVE rows'[k].status = "ABSENT"
  <2>1. k[1] > run.attempt /\ k[1] \in Nat
    BY <1>0, <1>1 DEF StepKeys
  <2>2. \A h \in Handlers : k[1] # Job(h).attempt
    <3>1. ASSUME NEW h \in Handlers PROVE Job(h).attempt \in Attempts /\ Job(h).attempt <= run.attempt
      BY DEF LaterAttemptsAreBlank, HandlerState, Jobs, Job
    <3>. QED
      BY <1>0, <2>1, <3>1
  <2>3. SaysTheSame(k)
    <3>1. ASSUME NEW h \in Handlers
          PROVE  ~Begins(h, k) /\ ~Skips(h, k) /\ ~Records(h, k) /\ ~GivesBack(h, k)
      BY <2>2 DEF Begins, Skips, Records, GivesBack, Key
    <3>2. RowMoves(k)
      BY RowStep
    <3>. QED
      BY <3>1, <3>2 DEF RowMoves
  <2>. QED
    BY <2>1, <2>3 DEF SaysTheSame, LaterAttemptsAreBlank
<1>2. ASSUME NEW g \in Handlers PROVE handler'[g].job.attempt <= run'.attempt
  <2>1. CASE handler'[g].job = handler[g].job
    BY <1>0, <2>1 DEF LaterAttemptsAreBlank, Job, HandlerState, Jobs
  <2>2. CASE Receive(g)
    <3>1. PICK job \in BagToSet(jobs) :
            handler' = [handler EXCEPT ![g] =
                          [IdleHandler EXCEPT !.at = Opening(job), !.job = job,
                                              !.owned = TRUE, !.snap = run.status]]
      BY <2>2 DEF Receive
    <3>2. handler'[g].job = job
      BY <3>1 DEF IdleHandler
    <3>. QED
      <4>1. job.attempt \in Attempts /\ job.attempt <= run.attempt
        BY DEF LaterAttemptsAreBlank, TypeOK, Jobs
      <4>2. job.attempt \in Nat
        BY <1>0, <4>1
      <4>3. job.attempt <= run'.attempt
        BY <4>1, <4>2
      <4>. QED
        BY <3>2, <4>3
  <2>3. CASE handler'[g] = IdleHandler
    <3>1. run'.attempt >= 1
      BY AttemptGrows
    <3>. QED
      BY <2>3, <3>1 DEF IdleHandler
  <2>4. Works(g) => handler'[g].job = handler[g].job \/ Receive(g) \/ handler'[g] = IdleHandler
    BY Arrivals DEF ArrivesDuly
  <2>5. Crash(g) => handler'[g] = IdleHandler
    BY DEF Crash
  <2>6. Expire(g) => handler'[g].job = handler[g].job
    BY DEF Expire
  <2>. QED
    BY HandlerStep, <2>1, <2>2, <2>3, <2>4, <2>5, <2>6
<1>3. ASSUME NEW job \in BagToSet(jobs') PROVE job.attempt <= run'.attempt
  <2>1. job.attempt <= run.attempt /\ job.attempt \in Nat
    <3>1. CASE job \in BagToSet(jobs)
      BY <1>0, <3>1 DEF LaterAttemptsAreBlank, TypeOK, Jobs
    <3>2. CASE Sent(job)
      BY <1>0, <3>2 DEF LaterAttemptsAreBlank, Sent, Jobs, TypeOK
    <3>. QED
      BY <3>1, <3>2, JobsStep
  <2>. QED
    BY <2>1
<1>4. ASSUME NEW k \in DOMAIN outbox, k[1] > run'.attempt PROVE outbox'[k].status = "ABSENT"
  <2>. k[1] \in Nat /\ k[1] > run.attempt
    BY <1>0, <1>4 DEF TypeOK
  <2>. outbox[k].status = "ABSENT" /\ outbox \in [Attempts \X {"detect", "cleanup"} -> OutboxRow]
    BY DEF LaterAttemptsAreBlank, TypeOK, OutboxRow
  <2>1. ASSUME NEW j \in DOMAIN outbox, Publish(j) \/ PublishUnmarked(j)
        PROVE  outbox'[k].status = "ABSENT"
    <3>1. j # k
      BY <2>1 DEF Publish, PublishUnmarked
    <3>. QED
      BY <2>1, <3>1 DEF Publish, PublishUnmarked
  <2>2. ASSUME NEW j, j[1] <= run'.attempt, outbox' = [outbox EXCEPT ![j].status = "PENDING"]
        PROVE  outbox'[k].status = "ABSENT"
    <3>1. j # k
      BY <1>4, <2>2
    <3>. QED
      BY <2>2, <3>1
  <2>3. Cancel \/ Retry \/ Sweep => outbox'[k].status = "ABSENT"
    <3>1. CASE Cancel
      <4>. DEFINE j == <<run.attempt, "cleanup">>
      <4>1. outbox' = [outbox EXCEPT ![j].status = "PENDING"]
        BY <3>1 DEF Cancel
      <4>2. j[1] <= run'.attempt
        OBVIOUS
      <4>. HIDE DEF j
      <4>. QED
        BY <2>2, <4>1, <4>2
    <3>2. CASE Retry
      <4>. DEFINE j == <<run.attempt + 1, "detect">>
      <4>1. outbox' = [outbox EXCEPT ![j].status = "PENDING"]
        BY <3>2 DEF Retry
      <4>2. j[1] <= run'.attempt
        BY <3>2 DEF Retry
      <4>. HIDE DEF j
      <4>. QED
        BY <2>2, <4>1, <4>2
    <3>3. CASE Sweep
      BY <2>2, <3>3 DEF Sweep
    <3>. QED
      BY <3>1, <3>2, <3>3
  <2>4. ASSUME NEW h \in Handlers, HandlerActions(h) PROVE UNCHANGED outbox
    BY <2>4
       DEF HandlerActions, Works, Receive, Redirect, List, Skip, Phase, SetPending, Admit,
           Execute, Persist, RecordStep, Finalize, Verdict, FinalizeCleanup, Confirm, Dispatch,
           CancelList, Complete, Fail, Heartbeat, Crash, Expire
  <2>. QED
    BY NextCases, <2>1, <2>3, <2>4 DEF LeaseExpires, vars
<1>5. DOMAIN outbox' = DOMAIN outbox
  BY OutboxTyped DEF TypeOK
<1>. QED
  BY <1>1, <1>2, <1>3, <1>4, <1>5 DEF LaterAttemptsAreBlank, Job, BagToSet

\* A book says of a step that it is settled when its row does.
LEMMA BookSettled ==
    ASSUME TypeOK, NEW a \in Attempts, NEW s \in Steps, SettledIn(Book(a), s)
    PROVE  Guard!Settled(<<a, s>>)
<1>1. <<a, s>> \in StepKeys /\ rows[<<a, s>>].status \in Guard!RowStatuses
  BY DEF TypeOK, Guard!TypeOK, Guard!Row, StepKeys
<1>2. Book(a)[s].status = rows[<<a, s>>].status
  BY DEF Book
<1>. QED
  BY <1>1, <1>2, SettledMeans
     DEF SettledIn, SettledForRetry, TerminalStepStatuses, Guard!RowStatuses, Guard!Results

\* A book and the guard agree on what is settled.
LEMMA SettledBook ==
    ASSUME TypeOK, NEW a \in Attempts, NEW s \in Steps
    PROVE  SettledIn(Book(a), s) <=> Guard!Settled(<<a, s>>)
<1>1. <<a, s>> \in StepKeys /\ Book(a)[s].status = rows[<<a, s>>].status
  BY DEF Book, StepKeys
<1>2. Guard!Settled(<<a, s>>) => SettledIn(Book(a), s)
  BY <1>1, SettledMeans DEF SettledIn, SettledForRetry, TerminalStepStatuses
<1>. QED
  BY <1>2, BookSettled

\* Steps stay due, and a handler sets out for a step only when it is.
LEMMA DueStep ==
    ASSUME Basis, StepsAreDue, [Next]_vars
    PROVE  StepsAreDue'
<1>. TypeOK /\ G!OnlyRunningRowsAreHeld /\ HandlersKnowTheirCalls
  BY DEF Basis
<1>. handler \in [Handlers -> HandlerState]
  BY DEF TypeOK
<1>1. ASSUME NEW k \in StepKeys PROVE RowIsDue(k)'
  <2>. k[1] \in Attempts /\ k[2] \in Steps /\ k = <<k[1], k[2]>>
    BY DEF StepKeys
  <2>1. RowIsDue(k)
    BY DEF StepsAreDue
  <2>2. CASE SaysTheSame(k)
    BY <2>1, <2>2, DueStays, WentWrongStays DEF SaysTheSame, RowIsDue
  <2>3. ASSUME NEW h \in Handlers, Begins(h, k) PROVE RowIsDue(k)'
    BY <2>3, DueStays DEF Begins, RowIsDue, StepsAreDue, GoesForDue, At
  <2>4. ASSUME NEW h \in Handlers, Skips(h, k) PROVE RowIsDue(k)'
    <3>1. k[2] # "cleanup" /\ Ready(k) /\ WentWrong(k[1])
      BY <2>4 DEF Skips, StepsAreDue, GoesForDue
    <3>. QED
      BY <2>4, <3>1, DueStays, WentWrongStays DEF RowIsDue, Due
  <2>5. ASSUME NEW h \in Handlers, Records(h, k) \/ GivesBack(h, k) PROVE RowIsDue(k)'
    <3>1. rows'[k].status # "SKIPPED"
      BY <2>5
         DEF Records, GivesBack, HandlerState, StepResults, Passed, AppFailure, HardFailed,
             Incomplete
    <3>. QED
      BY <2>1, <2>5, <3>1, DueStays DEF Records, GivesBack, RowIsDue
  <2>. QED
    BY RowStep, <2>2, <2>3, <2>4, <2>5 DEF RowMoves
<1>2. ASSUME NEW g \in Handlers PROVE GoesForDue(g)'
  <2>. GoesForDue(g) /\ Key(g) \in StepKeys /\ Job(g).attempt \in Attempts /\ handler[g].target \in Steps
    BY KeyTyped DEF StepsAreDue, HandlerState, Jobs, Job
  <2>. <<Job(g).attempt, handler[g].target>> \in StepKeys
    BY DEF StepKeys
  <2>1. ASSUME handler'[g].at = handler[g].at, handler'[g].job = handler[g].job,
               handler'[g].target = handler[g].target
        PROVE  GoesForDue(g)'
    <3>1. CASE handler[g].at \in {"phase", "setPending", "admit"}
      <4>1. Due(Key(g)) /\ Due(Key(g))'
        BY <2>1, <3>1, DueStays DEF GoesForDue, Key, Job
      <4>. QED
        BY <2>1, <3>1, <4>1 DEF GoesForDue, At
    <3>2. CASE At(g, "skip")
      <4>. DEFINE k == <<Job(g).attempt, handler[g].target>>
      <4>1. k' = k
        BY <2>1 DEF Job
      <4>2. handler[g].target # "cleanup" /\ Ready(k)' /\ WentWrong(Job(g).attempt)'
        BY <3>2, DueStays, WentWrongStays, <2>1 DEF GoesForDue, Job
      <4>. QED
        BY <2>1, <3>2, <4>1, <4>2 DEF GoesForDue, At
    <3>3. CASE At(g, "cancelList")
      <4>1. Job(g).step = "cleanup" /\ Cancelling(Job(g).attempt)'
        BY <3>3, CancellingStays, <2>1 DEF GoesForDue, Job
      <4>. QED
        BY <2>1, <3>3, <4>1 DEF GoesForDue, At, Job
    <3>4. CASE handler[g].at \notin {"phase", "setPending", "admit", "skip", "cancelList"}
      BY <2>1, <3>4 DEF GoesForDue, At
    <3>. QED
      BY <3>1, <3>2, <3>3, <3>4 DEF At
  <2>2. ASSUME handler'[g].at \notin {"phase", "setPending", "admit", "skip", "cancelList"}
        PROVE  GoesForDue(g)'
    BY <2>2 DEF GoesForDue, At
  <2>3. CASE List(g)
    <3>. DEFINE a    == Job(g).attempt
                rec  == Book(a)
                next == NextStepAction(rec)
    <3>1. /\ handler'[g].at = AfterListing(g, rec, next) /\ handler'[g].job = handler[g].job
          /\ next.action = "skip" => handler'[g].target = next.step
          /\ UNCHANGED <<rows, run>>
      BY <2>3 DEF List, guardVars
    <3>2. next.step \in Steps
      BY NextStepIsDue
    <3>3. ASSUME \A s \in StepsBefore(next.step) : SettledIn(rec, s)
          PROVE  Ready(<<a, next.step>>)
      BY <3>3, BookSettled DEF Ready, StepsBefore
    <3>4. CASE handler'[g].at = "phase"
      <4>. HIDE DEF next
      <4>1. next.action = "run" /\ next.step = Job(g).step
        BY <3>1, <3>4, NextStepIsDue DEF AfterListing, next
      <4>2. ASSUME next.step = "cleanup", rec["cleanup"].status \in {"FAILED", "INCOMPLETE"}
            PROVE  Due(Key(g))
        <5>1. rows[<<a, "cleanup">>].status # "ABSENT"
          BY <4>2, ElevenSteps DEF Book
        <5>2. <<a, "cleanup">> = Key(g)
          BY <4>1, <4>2 DEF Key
        <5>3. RowIsDue(Key(g))
          BY DEF StepsAreDue
        <5>. QED
          BY <5>1, <5>2, <5>3 DEF RowIsDue
      <4>3. ASSUME \A s \in StepsBefore(next.step) : SettledIn(rec, s)
            PROVE  Due(Key(g))
        <5>1. Ready(<<a, next.step>>)
          BY <4>3, <3>3
        <5>2. <<a, next.step>> = Key(g)
          BY <4>1 DEF Key
        <5>. QED
          BY <5>1, <5>2 DEF Due
      <4>4. Due(Key(g))
        BY <4>1, <4>2, <4>3, NextStepIsDue DEF next
      <4>5. Due(Key(g))'
        BY <4>4, DueStays, <3>1 DEF Key, Job
      <4>. QED
        BY <3>4, <4>5 DEF GoesForDue, At
    <3>5. CASE handler'[g].at = "skip"
      <4>. HIDE DEF next
      <4>1. next.action = "skip"
        BY <3>1, <3>5, NextStepIsDue DEF AfterListing, next
      <4>2. /\ next.step # "cleanup"
            /\ \A s \in StepsBefore(next.step) : SettledIn(rec, s)
            /\ \E s \in StepsBefore("cleanup") : rec[s].status \in {"FAILED", "INCOMPLETE"}
        BY <4>1, NextStepIsDue DEF next
      <4>3. WentWrong(a)
        BY <4>2 DEF WentWrong, Book, StepsBefore
      <4>4. PICK b \in Attempts, s \in Steps : b = a /\ s = next.step
        BY <3>2
      <4>5. Ready(<<b, s>>)'
        BY <3>3, <4>2, <4>4, DueStays DEF StepKeys
      <4>6. WentWrong(b)'
        BY <4>3, <4>4, WentWrongStays
      <4>7. handler'[g].target = s /\ handler'[g].job.attempt = b
        BY <3>1, <4>1, <4>4 DEF Job
      <4>. QED
        BY <3>5, <4>2, <4>4, <4>5, <4>6, <4>7 DEF GoesForDue, At, Job
    <3>6. handler'[g].at \in {"phase", "skip"}
            \/ handler'[g].at \notin {"phase", "setPending", "admit", "skip", "cancelList"}
      <4>. HIDE DEF next
      <4>. QED
        BY <3>1, NextStepIsDue DEF AfterListing, next
    <3>. QED
      BY <2>2, <3>4, <3>5, <3>6
  <2>4. ASSUME Phase(g) \/ SetPending(g) PROVE GoesForDue(g)'
    <3>1. handler[g].at \in {"phase", "setPending"} /\ handler'[g].job = handler[g].job
             /\ handler'[g].at \in {"setPending", "admit", "failed"}
      BY <2>4 DEF Phase, SetPending, Goto, At, HandlerState
    <3>2. Due(Key(g))'
      BY <3>1, DueStays DEF GoesForDue, Key, Job
    <3>. QED
      BY <3>1, <3>2 DEF GoesForDue, At
  <2>5. CASE CancelList(g)
    <3>1. At(g, "cancelList") /\ handler'[g].job = handler[g].job
             /\ handler'[g].at \in {"setPending", "done"}
      BY <2>5 DEF CancelList, Goto, At, HandlerState
    <3>2. Due(Key(g))
      BY <3>1 DEF GoesForDue, Due, Key
    <3>3. Due(Key(g))'
      BY <3>1, <3>2, DueStays DEF Key, Job
    <3>. QED
      BY <3>1, <3>3 DEF GoesForDue, At
  <2>6. CASE Receive(g)
    <3>1. PICK job \in BagToSet(jobs) :
            handler' = [handler EXCEPT ![g] =
                          [IdleHandler EXCEPT !.at = Opening(job), !.job = job,
                                              !.owned = TRUE, !.snap = run.status]]
      BY <2>6 DEF Receive
    <3>2. handler'[g].at = Opening(job) /\ handler'[g].job = job
      BY <3>1 DEF IdleHandler
    <3>3. CASE Opening(job) = "cancelList"
      <4>1. job.step = "cleanup" /\ Cancelling(job.attempt)
        BY <3>3 DEF Opening, Cancelling
      <4>2. Cancelling(job.attempt)'
        BY <4>1, CancellingStays
      <4>. QED
        BY <3>2, <3>3, <4>1, <4>2 DEF GoesForDue, At, Job
    <3>4. CASE Opening(job) # "cancelList"
      BY <2>2, <3>2, <3>4 DEF Opening
    <3>. QED
      BY <3>3, <3>4
  <2>7. CASE Works(g) /\ ~List(g) /\ ~Phase(g) /\ ~SetPending(g) /\ ~CancelList(g) /\ ~Receive(g)
    BY <2>2, <2>7, Arrivals DEF ArrivesDuly
  <2>8. CASE Crash(g)
    BY <2>2, <2>8 DEF Crash, IdleHandler
  <2>9. CASE Expire(g)
    BY <2>1, <2>9 DEF Expire
  <2>. QED
    BY HandlerStep, <2>1, <2>3, <2>4, <2>5, <2>6, <2>7, <2>8, <2>9
<1>. QED
  BY <1>1, <1>2 DEF StepsAreDue

\* When the report of an attempt stands, the verdict derived from its records fits them.
LEMMA VerdictFromRecords ==
    ASSUME TypeOK, RecordsAreResults, StepsAreDue,
           NEW a \in Attempts, Guard!Settled(<<a, "report">>)
    PROVE  Fits(DeriveFinalRunStatus(Book(a)), Book(a))
<1>. /\ kinds \in [StepKeys -> FailureKinds]
     /\ \A k \in StepKeys : rows[k].status \in Guard!RowStatuses
  BY DEF TypeOK, Guard!TypeOK, Guard!Row
<1>0. "report" \in Steps /\ "cleanup" \in Steps
  BY ElevenSteps
<1>1. Ready(<<a, "report">>)
  <2>1. rows[<<a, "report">>].status # "ABSENT" /\ <<a, "report">> \in StepKeys
    BY <1>0, SettledMeans DEF StepKeys
  <2>2. Due(<<a, "report">>)
    BY <2>1 DEF StepsAreDue, RowIsDue
  <2>. QED
    BY <2>2 DEF Due
<1>2. ASSUME NEW s \in StepsBefore("cleanup")
      PROVE  s \in Steps /\ s # "cleanup" /\ <<a, s>> \in StepKeys /\ Guard!Settled(<<a, s>>)
  BY <1>1, StepsBeforeCleanup DEF Ready, StepKeys
<1>3. ASSUME NEW s \in StepsBefore("cleanup") PROVE Book(a)[s] \in StepResults \union {Skipped}
  <2>1. RowIsResult(<<a, s>>)
    BY <1>2 DEF RecordsAreResults
  <2>2. Book(a)[s] = [status |-> rows[<<a, s>>].status, kind |-> kinds[<<a, s>>]]
    BY <1>2 DEF Book
  <2>3. rows[<<a, s>>].status \in {"PASSED", "FAILED", "INCOMPLETE", "SKIPPED"}
    BY <1>2, SettledMeans
  <2>. QED
    BY <2>1, <2>2, <2>3 DEF RowIsResult, Skipped
<1>4. Book(a)["cleanup"] # AppFailure
  <2>1. RowIsResult(<<a, "cleanup">>)
    BY <1>0 DEF RecordsAreResults, StepKeys
  <2>2. Book(a)["cleanup"].kind = kinds[<<a, "cleanup">>]
           /\ Book(a)["cleanup"].status = rows[<<a, "cleanup">>].status
    BY <1>0 DEF Book
  <2>. QED
    BY <2>1, <2>2 DEF RowIsResult, AppFailure
<1>5. ASSUME NEW s \in StepsBefore("cleanup"), Book(a)[s] = Skipped
      PROVE  \E t \in StepsBefore("cleanup") : Book(a)[t].status \in {"FAILED", "INCOMPLETE"}
  <2>1. rows[<<a, s>>].status = "SKIPPED"
    BY <1>2, <1>5 DEF Book, Skipped
  <2>2. WentWrong(a)
    BY <1>2, <2>1 DEF StepsAreDue, RowIsDue
  <2>. QED
    BY <1>2, <2>2 DEF WentWrong, Book
<1>. DEFINE rec == Book(a)
<1>6. /\ \A s \in StepsBefore("cleanup") : rec[s] \in StepResults \union {Skipped}
      /\ rec["cleanup"] # AppFailure
      /\ (\E s \in StepsBefore("cleanup") : rec[s] = Skipped) =>
            \E s \in StepsBefore("cleanup") : rec[s].status \in {"FAILED", "INCOMPLETE"}
  BY <1>3, <1>4, <1>5
<1>. HIDE DEF rec
<1>7. Fits(DeriveFinalRunStatus(rec), rec)
  BY <1>6, DerivedVerdictFits
<1>. QED
  BY <1>7 DEF rec

\* Verdicts keep fitting, given or about to be.
LEMMA VerdictsStep ==
    ASSUME Basis, RecordsAreResults, StepsAreDue, VerdictsFit, CleanupsAreRecorded, [Next]_vars
    PROVE  VerdictsFit'
<1>. TypeOK /\ G!OnlyRunningRowsAreHeld /\ HandlersKnowTheirCalls
  BY DEF Basis
<1>. /\ run \in [status : RunStatuses, attempt : Attempts, cleanup : CleanupStatuses]
     /\ handler \in [Handlers -> HandlerState]
  BY DEF TypeOK
<1>1. ASSUME run'.status \in Verdicts PROVE Fits(run.status, Book(run.attempt))'
  <2>1. ASSUME run'.status = run.status, run'.attempt = run.attempt
        PROVE  Fits(run.status, Book(run.attempt))'
    <3>1. PICK a \in Attempts, v \in Verdicts : a = run.attempt /\ v = run.status
      BY <1>1, <2>1
    <3>2. Fits(v, Book(a)')
      BY <3>1, FitsStays DEF VerdictsFit
    <3>. QED
      BY <2>1, <3>1, <3>2 DEF Book
  <2>2. ASSUME NEW h \in Handlers, GivesVerdict(h) PROVE Fits(run.status, Book(run.attempt))'
    <3>1. PICK a \in Attempts, v \in Verdicts : a = run.attempt /\ v = handler[h].verdict
      BY DEF HandlerState
    <3>2. Fits(v, Book(a)) /\ run'.status = v /\ run'.attempt = a
      BY <2>2, <3>1
         DEF GivesVerdict, Goes, MayMove, Current, VerdictsFit, VerdictFits
    <3>3. Fits(v, Book(a)')
      BY <3>2, FitsStays
    <3>. QED
      BY <3>2, <3>3 DEF Book
  <2>3. ASSUME NEW h \in Handlers PROVE ~Advances(h) /\ ~Confirms(h)
    <3>1. PhaseForStep[Job(h).step] \notin Verdicts
      BY ElevenSteps DEF PhaseForStep, NoPhase, Verdicts, HandlerState, Jobs, Job
    <3>2. ASSUME NEW to \in {PhaseForStep[Job(h).step], "CANCELLED"}, Goes(h, to)
          PROVE  FALSE
      <4>1. run'.status = to
        BY <3>2 DEF Goes
      <4>. QED
        BY <1>1, <3>1, <3>2, <4>1 DEF Verdicts
    <3>. QED
      BY <3>2 DEF Advances, Confirms
  <2>4. ASSUME NEW h \in Handlers, SetsPending(h) \/ RecordsCleanup(h)
        PROVE  run'.status = run.status /\ run'.attempt = run.attempt
    BY <2>4 DEF SetsPending, RecordsCleanup
  <2>5. ASSUME IsCancelled PROVE FALSE
    BY <1>1, <2>5 DEF IsCancelled, Verdicts
  <2>6. ASSUME IsRetried PROVE FALSE
    BY <1>1, <2>6 DEF IsRetried, Verdicts
  <2>7. ASSUME IsTurnedAway PROVE FALSE
    BY <1>1, <2>7 DEF IsTurnedAway, Verdicts
  <2>. QED
    BY RunStep, <2>1, <2>2, <2>3, <2>4, <2>5, <2>6, <2>7 DEF RunMoves
<1>2. ASSUME NEW g \in Handlers PROVE VerdictFits(g)'
  <2>. /\ VerdictFits(g) /\ Key(g) \in StepKeys /\ Job(g).attempt \in Attempts
       /\ handler[g].verdict \in Verdicts /\ CleanupIsRecorded(g)
    BY KeyTyped DEF VerdictsFit, CleanupsAreRecorded, HandlerState, Jobs, Job
  <2>1. ASSUME handler'[g].at = handler[g].at, handler'[g].job = handler[g].job,
               handler'[g].verdict = handler[g].verdict
        PROVE  VerdictFits(g)'
    <3>1. Guard!Settled(Key(g)) => Guard!Settled(Key(g))'
      <4>1. PICK k \in StepKeys : k = Key(g) /\ k = Key(g)'
        BY <2>1 DEF Key, Job
      <4>. QED
        BY <4>1, SettledStays
    <3>2. Fits(handler[g].verdict, Book(Job(g).attempt))
            => Fits(handler[g].verdict, Book(Job(g).attempt))'
      <4>1. PICK a \in Attempts, v \in Verdicts :
              a = Job(g).attempt /\ a = Job(g)'.attempt /\ v = handler[g].verdict
                /\ v = handler'[g].verdict
        BY <2>1 DEF Job
      <4>. QED
        BY <4>1, FitsStays DEF Book
    <3>. QED
      BY <2>1, <3>1, <3>2 DEF VerdictFits, At, Job
  <2>2. ASSUME handler'[g].at \notin {"record", "finalize", "verdict"} PROVE VerdictFits(g)'
    BY <2>2 DEF VerdictFits, At
  <2>3. CASE Admit(g) /\ handler'[g].at = "record"
    <3>1. Guard!Settled(Key(g)) /\ UNCHANGED rows /\ handler'[g].job = handler[g].job
      BY <2>3 DEF Admit, Goto, HandlerState, Guard!AlreadyTerminal, Guard!vars
    <3>2. Guard!Settled(Key(g))'
      BY <3>1 DEF Guard!Settled, Key, Job
    <3>. QED
      BY <2>3, <3>2 DEF VerdictFits, At
  <2>4. CASE Persist(g) /\ handler'[g].at = "record"
    <3>0. handler'[g].job = handler[g].job
      BY <2>4, Arrivals DEF Works, ArrivesDuly, Receive, At, Persist
    <3>1. Guard!Persist(g)
      BY <2>4 DEF Persist, Goto, HandlerState, At
    <3>2. rows'[Key(g)].status = handler[g].result.status
      <4>1. call[g].key = Key(g) /\ call[g].result = handler[g].result.status
        BY <2>4, <3>1 DEF HandlersKnowTheirCalls, KnowsItsCall, Persist, Guard!Persist
      <4>. QED
        BY <3>1, <4>1 DEF Guard!Persist, Guard!RowSettledBy, TypeOK, Guard!TypeOK
    <3>3. ASSUME Job(g).step # "cleanup" PROVE Guard!Settled(Key(g))'
      <4>1. Guard!Stands(Key(g), handler[g].result.status)
        BY <3>3
           DEF Guard!Stands, Guard!Results, Key, HandlerState, StepResults, Passed, AppFailure,
               HardFailed, Incomplete
      <4>2. Key(g)' = Key(g)
        BY <3>0 DEF Key, Job
      <4>. QED
        BY <3>2, <4>1, <4>2 DEF Guard!Settled
    <3>. QED
      BY <2>4, <3>0, <3>3 DEF VerdictFits, At, Job
  <2>5. CASE RecordStep(g)
    <3>1. /\ At(g, "record") /\ UNCHANGED rows /\ handler'[g].job = handler[g].job
          /\ handler'[g].at \in {"failed", "cleanup", "finalize", "refresh"}
          /\ handler'[g].at = "finalize" => Job(g).step = "report"
      BY <2>5 DEF RecordStep, Goto, HandlerState, AfterRecording, guardVars
    <3>2. CASE handler'[g].at = "finalize"
      <4>1. Guard!Settled(Key(g))
        BY <3>1, <3>2 DEF VerdictFits
      <4>2. Guard!Settled(Key(g))'
        BY <3>1, <4>1 DEF Guard!Settled, Key, Job
      <4>. QED
        BY <3>1, <3>2, <4>2 DEF VerdictFits, At, Job
    <3>. QED
      BY <2>2, <3>1, <3>2
  <2>6. CASE Finalize(g)
    <3>. DEFINE a == Job(g).attempt
    <3>1. handler'[g].at = "refresh" \/
            (/\ handler'[g].at = "verdict"
             /\ handler'[g].verdict = DeriveFinalRunStatus(Book(a)))
      BY <2>6 DEF Finalize, Goto, HandlerState
    <3>2. CASE handler'[g].at = "verdict" /\ handler'[g].verdict = DeriveFinalRunStatus(Book(a))
      <4>1. Guard!Settled(<<a, "report">>)
        BY <2>6 DEF Finalize, VerdictFits, Key
      <4>2. Fits(DeriveFinalRunStatus(Book(a)), Book(a))
        BY <4>1, VerdictFromRecords
      <4>3. handler'[g].job = handler[g].job /\ UNCHANGED <<rows, kinds>>
        BY <2>6 DEF Finalize, Goto, HandlerState, guardVars
      <4>4. Book(Job(g).attempt)' = Book(a)
        BY <4>3 DEF Book, Job
      <4>5. Fits(handler[g].verdict, Book(Job(g).attempt))'
        BY <3>2, <4>2, <4>4
      <4>. QED
        BY <3>2, <4>5 DEF VerdictFits, At
    <3>. QED
      BY <2>2, <3>1, <3>2
  <2>7. CASE Works(g) /\ ~Admit(g) /\ ~Persist(g) /\ ~RecordStep(g) /\ ~Finalize(g)
    BY <2>2, <2>7, Arrivals DEF ArrivesDuly
  <2>8. CASE Crash(g)
    BY <2>2, <2>8 DEF Crash, IdleHandler
  <2>9. CASE Expire(g)
    BY <2>1, <2>9 DEF Expire
  <2>10. CASE (Admit(g) \/ Persist(g)) /\ handler'[g].at # "record"
    <3>1. handler'[g].at \notin {"finalize", "verdict"}
      BY <2>10 DEF Admit, Persist, Goto, HandlerState, At
    <3>. QED
      BY <2>2, <2>10, <3>1
  <2>. QED
    BY HandlerStep, <2>1, <2>3, <2>4, <2>5, <2>6, <2>7, <2>8, <2>9, <2>10
<1>. QED
  BY <1>1, <1>2 DEF VerdictsFit

\* Details are only ever added, and deaths of the Worker only counted up.
LEMMA DetailsStay ==
    ASSUME TypeOK, [Next]_vars
    PROVE  /\ details \subseteq details'
           /\ spent'["crash"] = 0 => spent["crash"] = 0 /\ \A h \in Handlers : ~Crash(h)
<1>. spent \in [Events -> Nat] /\ "crash" \in Events
  BY DEF TypeOK, Events
<1>1. details \subseteq details'
  <2>1. ASSUME NEW h \in Handlers, HandlerActions(h) PROVE details \subseteq details'
    BY <2>1
       DEF HandlerActions, Works, Receive, Redirect, List, Skip, Phase, SetPending, Admit,
           Execute, Persist, RecordStep, Finalize, Verdict, FinalizeCleanup, Confirm, Dispatch,
           CancelList, Complete, Fail, Heartbeat, Crash, Expire, worldVars
  <2>. QED
    BY NextCases, <2>1
       DEF Publish, PublishUnmarked, LeaseExpires, Cancel, Retry, Sweep, vars, worldVars
<1>2. spent'["crash"] = 0 => spent["crash"] = 0
  BY BoundsTyped
<1>3. ASSUME NEW h \in Handlers, Crash(h) PROVE spent'["crash"] # 0
  BY <1>3 DEF Crash, Spend
<1>. QED
  BY <1>1, <1>2, <1>3

\* A report that was received stays with its handler until it is saved.
LEMMA ReportsStep ==
    ASSUME Basis, LaterAttemptsAreBlank, ReportsAreKept, [Next]_vars
    PROVE  ReportsAreKept'
<1>. TypeOK /\ G!OnlyRunningRowsAreHeld /\ HandlersKnowTheirCalls
  BY DEF Basis
<1>. handler \in [Handlers -> HandlerState]
  BY DEF TypeOK
<1>. SUFFICES ASSUME spent'["crash"] = 0, NEW a \in Attempts,
                     rows'[<<a, "review">>].status = "PASSED", a >= run'.attempt
              PROVE  <<a, "review">> \in details' \/ \E h \in Handlers : SavesReport(h, a)'
  BY DEF ReportsAreKept
<1>. DEFINE k == <<a, "review">>
<1>0. k \in StepKeys /\ a \in Nat
  BY ElevenSteps, WorkflowAssumption DEF StepKeys
<1>1. CASE rows[k].status = "PASSED"
  <2>1. a >= run.attempt
    BY <1>0, AttemptGrows
  <2>2. CASE k \in details
    BY <2>2, DetailsStay
  <2>3. ASSUME NEW h \in Handlers, SavesReport(h, a) PROVE k \in details' \/ SavesReport(h, a)'
    <3>1. ASSUME handler'[h].at = "record", handler'[h].job = handler[h].job,
                 handler'[h].ran = handler[h].ran, handler'[h].result = handler[h].result
          PROVE  SavesReport(h, a)'
      BY <2>3, <3>1 DEF SavesReport, At, Key, Job
    <3>2. CASE RecordStep(h)
      <4>1. Current(h)
        <5>1. Job(h).attempt = a /\ Job(h).attempt <= run.attempt /\ run.attempt \in Nat
          BY <2>3, AttemptGrows DEF SavesReport, Key, LaterAttemptsAreBlank
        <5>. QED
          BY <1>0, <2>1, <5>1 DEF Current
      <4>2. DetailsOf(h) = {{Key(h)}}
        <5>1. Job(h).step = "review"
          BY <2>3 DEF SavesReport, Key
        <5>2. MaySave(Job(h).step, handler[h].result) = {TRUE}
          BY <2>3, <5>1 DEF SavesReport, MaySave
        <5>. QED
          BY <2>3, <5>2 DEF DetailsOf, SavesReport
      <4>3. details' = details \union {Key(h)}
        BY <3>2, <4>1, <4>2 DEF RecordStep
      <4>. QED
        BY <2>3, <4>3 DEF SavesReport
    <3>3. CASE Works(h) /\ ~RecordStep(h)
      BY <2>3, <3>3
         DEF SavesReport, At, Works, Receive, Redirect, List, Skip, Phase, SetPending, Admit,
             Execute, Persist, Finalize, Verdict, FinalizeCleanup, Confirm, Dispatch, CancelList,
             Complete, Fail
    <3>4. CASE Expire(h)
      BY <2>3, <3>1, <3>4 DEF Expire, HandlerState, SavesReport, At
    <3>5. CASE handler'[h] = handler[h]
      BY <2>3, <3>1, <3>5 DEF SavesReport, At
    <3>. QED
      BY HandlerStep, DetailsStay, <3>2, <3>3, <3>4, <3>5
  <2>4. k \in details \/ \E h \in Handlers : SavesReport(h, a)
    BY <1>1, <2>1, DetailsStay DEF ReportsAreKept
  <2>. QED
    BY <2>2, <2>3, <2>4
<1>2. CASE rows[k].status # "PASSED"
  <2>1. PICK h \in Handlers : Records(h, k)
    BY <1>0, <1>2, RowStep DEF RowMoves, SaysTheSame, Begins, Skips, GivesBack
  <2>2. handler[h].result = Passed
    BY <2>1 DEF Records, HandlerState, StepResults, Passed, AppFailure, HardFailed, Incomplete
  <2>3. SavesReport(h, a)'
    BY <2>1, <2>2 DEF Records, SavesReport, At, Key, Job, HandlerState
  <2>. QED
    BY <2>3
<1>. QED
  BY <1>1, <1>2

\* A row that says PASSED says so for good.
LEMMA PassedStays ==
    ASSUME Basis, [Next]_vars, NEW k \in StepKeys, rows[k].status = "PASSED"
    PROVE  rows'[k].status = "PASSED"
  BY SettledStays DEF Basis, Guard!Settled, Guard!Stands, Guard!Results

\* A cleanup is only reported as done by a handler whose row says so.
LEMMA CleanupsStep ==
    ASSUME Basis, StepsAreDue, CleanupsAreRecorded, [Next]_vars
    PROVE  CleanupsAreRecorded'
<1>. TypeOK /\ G!OnlyRunningRowsAreHeld /\ HandlersKnowTheirCalls
  BY DEF Basis
<1>. /\ run \in [status : RunStatuses, attempt : Attempts, cleanup : CleanupStatuses]
     /\ handler \in [Handlers -> HandlerState]
  BY DEF TypeOK
<1>1. ASSUME run'.cleanup = "CLEANED" PROVE rows'[<<run'.attempt, "cleanup">>].status = "PASSED"
  <2>0. <<run.attempt, "cleanup">> \in StepKeys
    BY ElevenSteps DEF StepKeys
  <2>1. ASSUME run'.cleanup = run.cleanup, run'.attempt = run.attempt
        PROVE  rows'[<<run'.attempt, "cleanup">>].status = "PASSED"
    BY <1>1, <2>0, <2>1, PassedStays DEF CleanupsAreRecorded
  <2>2. ASSUME NEW h \in Handlers, NEW to, Goes(h, to)
        PROVE  run'.cleanup = run.cleanup /\ run'.attempt = run.attempt
    BY <2>2 DEF Goes
  <2>3. ASSUME NEW h \in Handlers, RecordsCleanup(h)
        PROVE  rows'[<<run'.attempt, "cleanup">>].status = "PASSED"
    <3>1. CleanupSucceeded(h) /\ run'.attempt = run.attempt
      BY <1>1, <2>3 DEF RecordsCleanup
    <3>2. Key(h) = <<run.attempt, "cleanup">> /\ rows[Key(h)].status = "PASSED"
      BY <2>3, <3>1
         DEF RecordsCleanup, CleanupsAreRecorded, CleanupIsRecorded, Current, Key, At
    <3>. QED
      BY <2>0, <3>1, <3>2, PassedStays
  <2>4. ASSUME NEW h \in Handlers, SetsPending(h) PROVE FALSE
    BY <1>1, <2>4 DEF SetsPending
  <2>5. ASSUME IsCancelled PROVE FALSE
    BY <1>1, <2>5 DEF IsCancelled
  <2>6. ASSUME IsRetried PROVE FALSE
    BY <1>1, <2>6 DEF IsRetried
  <2>7. ASSUME IsTurnedAway PROVE run'.cleanup = run.cleanup /\ run'.attempt = run.attempt
    BY <1>1, <2>7 DEF IsTurnedAway
  <2>. QED
    BY RunStep, <2>1, <2>2, <2>3, <2>4, <2>5, <2>6, <2>7 DEF RunMoves, Advances, GivesVerdict, Confirms
<1>2. ASSUME NEW g \in Handlers PROVE CleanupIsRecorded(g)'
  <2>. CleanupIsRecorded(g) /\ GoesForDue(g) /\ Key(g) \in StepKeys
    BY KeyTyped DEF CleanupsAreRecorded, StepsAreDue
  <2>1. ASSUME handler'[g].at = handler[g].at, handler'[g].job = handler[g].job,
               handler'[g].path = handler[g].path, handler'[g].ran = handler[g].ran,
               handler'[g].result = handler[g].result
        PROVE  CleanupIsRecorded(g)'
    <3>1. rows[Key(g)].status = "PASSED" => rows'[Key(g)].status = "PASSED"
      BY PassedStays
    <3>. QED
      BY <2>1, <3>1 DEF CleanupIsRecorded, At, Job, Key, CleanupSucceeded
  <2>2. ASSUME Works(g), handler'[g].path = "cancel" PROVE handler'[g].job.step = "cleanup"
    <3>1. handler'[g].path = "cancel" /\ (Receive(g) \/ handler'[g] = IdleHandler) => FALSE
      <4>1. Receive(g) => handler'[g].path = "advance"
        BY DEF Receive, IdleHandler
      <4>. QED
        BY <4>1 DEF IdleHandler
    <3>2. handler'[g].job = handler[g].job
      BY <2>2, <3>1, Arrivals DEF ArrivesDuly
    <3>3. CASE handler[g].path = "cancel"
      BY <3>2, <3>3 DEF CleanupIsRecorded, Job
    <3>4. CASE CancelList(g)
      BY <3>2, <3>4 DEF CancelList, GoesForDue, Job
    <3>. QED
      BY <2>2, <3>3, <3>4, Arrivals DEF ArrivesDuly
  <2>3. CASE Works(g) /\ handler'[g].at \notin {"record", "cleanup"}
    BY <2>2, <2>3 DEF CleanupIsRecorded, At, Job
  <2>4. CASE Admit(g) /\ handler'[g].at = "record"
    <3>1. /\ Guard!Settled(Key(g)) /\ UNCHANGED rows
          /\ handler'[g].job = handler[g].job
      BY <2>4 DEF Admit, Goto, HandlerState, Guard!AlreadyTerminal, Guard!vars
    <3>2. ASSUME Job(g).step = "cleanup" PROVE rows[Key(g)].status = "PASSED"
      <4>1. rows[Key(g)].status \in {"PASSED", "SKIPPED"}
        BY <3>1, <3>2, SettledMeans DEF Key, StepKeys
      <4>2. rows[Key(g)].status # "SKIPPED"
        BY <3>2 DEF StepsAreDue, RowIsDue, Key
      <4>. QED
        BY <4>1, <4>2
    <3>3. Works(g)
      BY <2>4 DEF Works
    <3>. QED
      BY <2>2, <2>4, <3>1, <3>2, <3>3 DEF CleanupIsRecorded, At, Job, Key
  <2>5. CASE Persist(g) /\ handler'[g].at = "record"
    <3>0. Works(g) /\ handler'[g].job = handler[g].job /\ handler'[g].result = handler[g].result
      BY <2>5 DEF Works, Persist, Goto, HandlerState, At
    <3>1. Guard!Persist(g) /\ handler'[g].ran
      BY <2>5 DEF Persist, Goto, HandlerState, At
    <3>2. rows'[Key(g)].status = handler[g].result.status
      <4>1. call[g].key = Key(g) /\ call[g].result = handler[g].result.status
        BY <2>5, <3>1 DEF HandlersKnowTheirCalls, KnowsItsCall, Persist, Guard!Persist
      <4>. QED
        BY <3>1, <4>1 DEF Guard!Persist, Guard!RowSettledBy, TypeOK, Guard!TypeOK
    <3>3. CleanupSucceeded(g)' => rows'[Key(g)].status = "PASSED"
      BY <3>0, <3>1, <3>2 DEF CleanupSucceeded, Passed
    <3>. QED
      BY <2>2, <2>5, <3>0, <3>3 DEF CleanupIsRecorded, At, Job, Key
  <2>6. CASE RecordStep(g)
    <3>1. /\ At(g, "record") /\ UNCHANGED rows /\ Works(g)
          /\ handler'[g].job = handler[g].job /\ handler'[g].ran = handler[g].ran
          /\ handler'[g].result = handler[g].result
          /\ handler'[g].at # "record"
          /\ handler'[g].at = "cleanup" => handler[g].path = "cancel" \/ Job(g).step = "cleanup"
      BY <2>6 DEF RecordStep, Goto, HandlerState, AfterRecording, guardVars, Works
    <3>2. handler'[g].at = "cleanup" => Job(g).step = "cleanup"
      BY <3>1 DEF CleanupIsRecorded
    <3>. QED
      BY <2>2, <3>1, <3>2 DEF CleanupIsRecorded, At, Job, Key, CleanupSucceeded
  <2>7. CASE Works(g) /\ ~Admit(g) /\ ~Persist(g) /\ ~RecordStep(g)
    BY <2>3, <2>7, Arrivals DEF ArrivesDuly
  <2>8. CASE Crash(g)
    BY <2>8 DEF Crash, IdleHandler, CleanupIsRecorded, At
  <2>9. CASE Expire(g)
    BY <2>1, <2>9 DEF Expire
  <2>10. CASE (Admit(g) \/ Persist(g)) /\ handler'[g].at # "record"
    <3>1. Works(g) /\ handler'[g].at # "cleanup"
      BY <2>10 DEF Works, Admit, Persist, Goto, HandlerState, At
    <3>. QED
      BY <2>3, <2>10, <3>1
  <2>. QED
    BY HandlerStep, <2>1, <2>4, <2>5, <2>6, <2>7, <2>8, <2>9, <2>10
<1>. QED
  BY <1>1, <1>2 DEF CleanupsAreRecorded

-----------------------------------------------------------------------------
\* The inductive invariant. No part is inductive alone: a verdict fits because the
\* records are results and the steps were due, the steps are due because what settled
\* stays settled, and that rests on what the step guard knows of the handlers.
IInv ==
    /\ Basis
    /\ RecordsAreResults
    /\ StepsAreDue
    /\ LaterAttemptsAreBlank
    /\ VerdictsFit
    /\ ReportsAreKept
    /\ CleanupsAreRecorded

\* It holds of a new Run, and of one whose first steps have passed undisturbed.
LEMMA InitiallyIInv == ASSUME Init, TypeOK PROVE IInv
<1>. DEFINE done == StepsBefore(scenario.first)
<1>0. scenario.first \in Steps /\ done \subseteq Steps
  BY WorkflowAssumption DEF Init, StepsBefore
<1>1. ASSUME NEW k \in StepKeys
      PROVE  /\ k[1] \in Attempts /\ k[2] \in Steps /\ kinds[k] = "none"
             /\ rows[k].token = NoHandler
             /\ rows[k].status = IF k[1] = 1 /\ k[2] \in done THEN "PASSED" ELSE "ABSENT"
  BY DEF Init, StepKeys
<1>2. ASSUME NEW h \in Handlers
      PROVE  handler[h] = IdleHandler /\ handler[h].at = "idle" /\ handler[h].path = "advance"
             /\ Job(h).attempt = 1 /\ call[h].at = "idle"
  BY DEF Init, IdleHandler, Job
<1>3. run.attempt = 1 /\ run.cleanup = "NOT_SCHEDULED" /\ run.status \notin Verdicts
  <2>1. ASSUME done # {}
        PROVE  PhaseForStep[WorkflowSteps[StepIndex[scenario.first] - 1]] \notin Verdicts
    BY <1>0, <2>1, ElevenSteps, StepIndexes
       DEF PhaseForStep, WorkflowSteps, Verdicts, StepsBefore
  <2>. QED
    BY <2>1 DEF Init, Verdicts
<1>4. Basis
  <2>1. G!OnlyRunningRowsAreHeld
    BY <1>1 DEF G!OnlyRunningRowsAreHeld
  <2>2. HandlersKnowTheirCalls
    BY <1>2 DEF HandlersKnowTheirCalls, KnowsItsCall, At
  <2>. QED
    BY <2>1, <2>2 DEF Basis
<1>5. RecordsAreResults
  BY <1>1, <1>2 DEF RecordsAreResults, RowIsResult, StepResults, Passed
<1>6. StepsAreDue
  <2>1. ASSUME NEW k \in StepKeys, rows[k].status # "ABSENT" PROVE Ready(k)
    <3>1. k[1] = 1 /\ k[2] \in done
      BY <1>1, <2>1
    <3>2. ASSUME NEW s \in StepsBefore(k[2]) PROVE Guard!Settled(<<1, s>>)
      <4>1. s \in Steps /\ <<1, s>> \in StepKeys
        BY <1>0, <3>1, <1>1 DEF StepsBefore, StepKeys
      <4>2. s \in done
        <5>1. StepIndex[s] < StepIndex[k[2]] /\ StepIndex[k[2]] < StepIndex[scenario.first]
          BY <3>1 DEF StepsBefore
        <5>2. StepIndex[s] < StepIndex[scenario.first]
          BY <1>0, <3>1, <4>1, <5>1, StepIndexTyped
        <5>. QED
          BY <4>1, <5>2 DEF StepsBefore
      <4>3. rows[<<1, s>>].status = "PASSED"
        BY <1>1, <4>1, <4>2
      <4>. QED
        BY <4>3 DEF Guard!Settled, Guard!Stands, Guard!Results
    <3>. QED
      BY <3>1, <3>2 DEF Ready
  <2>2. \A k \in StepKeys : rows[k].status # "SKIPPED"
    BY <1>1
  <2>3. \A h \in Handlers : GoesForDue(h)
    BY <1>2 DEF GoesForDue, At
  <2>. QED
    BY <2>1, <2>2, <2>3 DEF StepsAreDue, RowIsDue, Due
<1>7. LaterAttemptsAreBlank
  <2>1. \A job \in BagToSet(jobs) : job.attempt <= run.attempt
    <3>1. JobFor(1, scenario.first).attempt <= 1
      BY DEF JobFor
    <3>. QED
      BY <1>3, <3>1, SmallBags DEF Init
  <2>2. \A k \in DOMAIN outbox : k[1] > run.attempt => outbox[k].status = "ABSENT"
    BY <1>3 DEF Init, NoRow
  <2>3. \A k \in StepKeys : k[1] > run.attempt => rows[k].status = "ABSENT"
    BY <1>1, <1>3
  <2>4. \A h \in Handlers : Job(h).attempt <= run.attempt
    BY <1>2, <1>3
  <2>. QED
    BY <2>1, <2>2, <2>3, <2>4 DEF LaterAttemptsAreBlank
<1>8. VerdictsFit
  BY <1>2, <1>3 DEF VerdictsFit, VerdictFits, At
<1>9. ReportsAreKept
  <2>1. ASSUME NEW a \in Attempts, rows[<<a, "review">>].status = "PASSED"
        PROVE  <<a, "review">> \in details
    <3>1. <<a, "review">> \in StepKeys
      BY ElevenSteps DEF StepKeys
    <3>2. a = 1 /\ "review" \in done
      BY <1>1, <2>1, <3>1
    <3>. QED
      BY <3>2 DEF Init
  <2>. QED
    BY <2>1 DEF ReportsAreKept
<1>10. CleanupsAreRecorded
  BY <1>2, <1>3 DEF CleanupsAreRecorded, CleanupIsRecorded, At
<1>. QED
  BY <1>4, <1>5, <1>6, <1>7, <1>8, <1>9, <1>10 DEF IInv

\* Every step keeps it.
LEMMA IInvStep == ASSUME IInv, [Next]_vars PROVE IInv'
<1>1. Basis'
  <2>1. G!OnlyRunningRowsAreHeld'
    <3>1. G!TypeOK /\ [G!Moves]_G!vars
      BY GuardTypes, GuardStep DEF IInv, Basis, TypeOK
    <3>. QED
      BY <3>1, GuardConstants, G!HeldStep DEF IInv, Basis
  <2>. QED
    BY <2>1, TypeStep, CallsStep DEF IInv, Basis
<1>. QED
  BY <1>1, ResultsStep, DueStep, BlankStep, VerdictsStep, ReportsStep, CleanupsStep DEF IInv

\* So it always holds.
LEMMA IInvHolds == Spec => []IInv
<1>1. Init => IInv
  BY InitiallyTyped, InitiallyIInv
<1>2. IInv /\ [Next]_vars => IInv'
  BY IInvStep
<1>. QED
  BY <1>1, <1>2, PTL DEF Spec

-----------------------------------------------------------------------------
\* However handlers overlap, expire and die, at most one of them executes a step to a
\* result that stands: what the step guard promises of its callers, it keeps for the
\* handlers of the workflow.
THEOREM ExecutedOnce == Spec => []Guard!AtMostOneExecution
<1>0. Guard!AtMostOneExecution <=> G!AtMostOneExecution
  BY SettledIs DEF Guard!AtMostOneExecution, G!AtMostOneExecution
<1>1. Init => G!AtMostOneExecution
  <2>. SUFFICES ASSUME Init, NEW k \in StepKeys
                PROVE  executed[k] <= 1 /\ (executed[k] = 1 => G!Settled(k))
    BY DEF G!AtMostOneExecution
  <2>1. executed[k] \in {0, 1} /\ (executed[k] = 1 => rows[k].status = "PASSED")
    BY DEF Init
  <2>. QED
    BY <2>1 DEF G!Settled, G!Stands, G!Results
<1>2. IInv /\ G!AtMostOneExecution /\ [Next]_vars => G!AtMostOneExecution'
  BY GuardTypes, GuardStep, GuardConstants, NobodyAdmits, G!OnceStep DEF IInv, Basis, TypeOK
<1>3. Spec => []G!AtMostOneExecution
  BY <1>1, <1>2, IInvHolds, PTL DEF Spec
<1>. QED
  BY <1>0, <1>3, PTL

-----------------------------------------------------------------------------
\* The second invariant is about the namespace and its cleanup. When handlers do not
\* work beside each other there is one at work, and what events do to the Run is counted.
OneAtWork ==
    scenario.bounds["beside"] = 0 =>
        \A g, h \in Handlers : ~At(g, "idle") /\ ~At(h, "idle") => g = h

EventsAreCounted ==
    /\ spent["retry"] = 0 => run.attempt = 1
    /\ spent["cancel"] = 0 => run.status \notin {"CANCEL_REQUESTED", "CANCELLED"}

\* Alone, a handler that is to clean up keeps the Run from being retried.
CleansTheCurrent(h) ==
    handler[h].at \in {"admit", "guard"} /\ Job(h).step = "cleanup"
        => Current(h) /\ run.cleanup = "PENDING"

CleanersAreCurrent ==
    scenario.bounds["beside"] = 0 => \A h \in Handlers : CleansTheCurrent(h)

\* The steps of earlier attempts are over, but for their cleanup.
PastStepsAreSettled ==
    \A k \in StepKeys : k[1] < run.attempt /\ k[2] # "cleanup" => Guard!Settled(k)

\* A handler whose lease is not lost is alone with its row.
HasTheLease(h) ==
    rows[Key(h)].status = "RUNNING" /\ rows[Key(h)].token = h /\ rows[Key(h)].live

LeasesHold == spent["lease"] = 0 => \A h \in Handlers : At(h, "guard") => HasTheLease(h)

\* Alone, a handler that comes after the cleanup of a cancelled attempt was begun finds
\* the Run cancelled, and starts none of its steps.
CleanupKey == <<run.attempt, "cleanup">>

HeadsForNothing(h) ==
    /\ handler[h].at \notin {"setPending", "guard"}
    /\ At(h, "admit") => Ready(CleanupKey)
    /\ handler[h].at \in {"list", "skip", "phase"} =>
          Ready(CleanupKey) \/ handler[h].snap \in {"CANCEL_REQUESTED", "CANCELLED"}

NothingAfterCleanup ==
    scenario.bounds["beside"] = 0 /\ rows[CleanupKey].status # "ABSENT" =>
        \A h \in Handlers : Current(h) /\ Job(h).step # "cleanup" => HeadsForNothing(h)

\* Then a cleanup that passed, or is about to be recorded as passed, has removed the
\* namespace for good.
Sheltered == spent["lease"] = 0 /\ (spent["cancel"] = 0 \/ scenario.bounds["beside"] = 0)

HasCleaned(h) ==
    Key(h) = CleanupKey /\ call[h].at = "persisting" /\ handler[h].result = Passed

NamespaceIsGone ==
    Sheltered /\ (rows[CleanupKey].status = "PASSED" \/ \E h \in Handlers : HasCleaned(h))
        => ~namespace

-----------------------------------------------------------------------------
\* Nobody fetches a job while another handler is at work.
LEMMA OneStep ==
    ASSUME TypeOK, OneAtWork, [Next]_vars
    PROVE  OneAtWork'
<1>. scenario' = scenario /\ handler \in [Handlers -> HandlerState]
  BY BoundsTyped DEF TypeOK
<1>. SUFFICES ASSUME scenario.bounds["beside"] = 0, NEW g \in Handlers, NEW h \in Handlers,
                     handler'[g].at # "idle", handler'[h].at # "idle"
              PROVE  g = h
  BY DEF OneAtWork, At
<1>0. ASSUME NEW f \in Handlers, NEW e \in Handlers, Receive(f), ~At(e, "idle") PROVE FALSE
  <2>. DEFINE busy == {d \in Handlers : ~At(d, "idle")}
  <2>1. Cardinality(busy) <= 0
    BY <1>0 DEF Receive
  <2>2. IsFiniteSet(busy)
    BY WorkflowAssumption, FS_Subset
  <2>3. Cardinality(busy) \in Nat
    BY <2>2, FS_CardinalityType
  <2>4. busy = {}
    BY <2>1, <2>2, <2>3, FS_EmptySet
  <2>. QED
    BY <1>0, <2>4
<1>1. ASSUME NEW f \in Handlers, Receive(f) PROVE \A e \in Handlers : handler'[e].at # "idle" => e = f
  <2>1. \A e \in Handlers : e # f => handler'[e] = handler[e]
    BY <1>1 DEF Receive
  <2>. QED
    BY <1>0, <1>1, <2>1 DEF At
<1>2. ASSUME \A f \in Handlers : ~Receive(f), NEW e \in Handlers, At(e, "idle")
      PROVE  handler'[e].at = "idle"
  <2>1. Works(e) => FALSE
    BY <1>2
       DEF At, Works, Redirect, List, Skip, Phase, SetPending, Admit, Execute, Persist, RecordStep,
           Finalize, Verdict, FinalizeCleanup, Confirm, Dispatch, CancelList, Complete, Fail
  <2>. QED
    BY <1>2, <2>1, HandlerStep DEF Crash, Expire, At
<1>. QED
  BY <1>1, <1>2 DEF OneAtWork, At

\* A retry and a cancellation are counted when they change the Run.
LEMMA CountedStep ==
    ASSUME TypeOK, EventsAreCounted, [Next]_vars
    PROVE  EventsAreCounted'
<1>. /\ spent \in [Events -> Nat] /\ {"retry", "cancel", "lease"} \subseteq Events
     /\ run \in [status : RunStatuses, attempt : Attempts, cleanup : CleanupStatuses]
     /\ handler \in [Handlers -> HandlerState]
  BY DEF TypeOK, Events
<1>1. \A e \in Events : spent'[e] = 0 => spent[e] = 0
  BY BoundsTyped
<1>2. ASSUME NEW e \in Events, Spend(e) PROVE spent'[e] # 0
  BY <1>2 DEF Spend
<1>3. ASSUME spent'["retry"] = 0 PROVE run'.attempt = 1
  <2>1. ~IsRetried
    BY <1>2, <1>3 DEF IsRetried
  <2>. QED
    BY <1>1, <1>3, <2>1, AttemptGrows DEF EventsAreCounted
<1>4. ASSUME spent'["cancel"] = 0 PROVE run'.status \notin {"CANCEL_REQUESTED", "CANCELLED"}
  <2>0. run.status \notin {"CANCEL_REQUESTED", "CANCELLED"}
    BY <1>1, <1>4 DEF EventsAreCounted
  <2>1. ASSUME NEW h \in Handlers, Advances(h)
        PROVE  run'.status \notin {"CANCEL_REQUESTED", "CANCELLED"}
    BY <2>1, ElevenSteps DEF Advances, Goes, PhaseForStep, NoPhase, HandlerState, Jobs, Job
  <2>2. ASSUME NEW h \in Handlers, SetsPending(h) \/ RecordsCleanup(h)
        PROVE  run'.status \notin {"CANCEL_REQUESTED", "CANCELLED"}
    BY <2>0, <2>2 DEF SetsPending, RecordsCleanup
  <2>3. ASSUME NEW h \in Handlers, GivesVerdict(h)
        PROVE  run'.status \notin {"CANCEL_REQUESTED", "CANCELLED"}
    BY <2>3 DEF GivesVerdict, Goes, HandlerState, Verdicts
  <2>4. ASSUME NEW h \in Handlers, Confirms(h) PROVE FALSE
    BY <2>0, <2>4 DEF Confirms
  <2>5. ~IsCancelled
    BY <1>2, <1>4 DEF IsCancelled
  <2>6. IsRetried => run'.status = "QUEUED"
    BY DEF IsRetried
  <2>7. IsTurnedAway => run'.status = "REJECTED_BY_CAPACITY"
    BY DEF IsTurnedAway
  <2>. QED
    BY RunStep, <2>0, <2>1, <2>2, <2>3, <2>4, <2>5, <2>6, <2>7 DEF RunMoves
<1>. QED
  BY <1>3, <1>4 DEF EventsAreCounted

\* Alone, nobody else writes the Run between the PENDING of a cleanup and its end.
LEMMA CleanersStep ==
    ASSUME Basis, OneAtWork, CleanersAreCurrent, [Next]_vars
    PROVE  CleanersAreCurrent'
<1>. TypeOK /\ HandlersKnowTheirCalls
  BY DEF Basis
<1>. /\ scenario' = scenario
     /\ handler \in [Handlers -> HandlerState]
     /\ run \in [status : RunStatuses, attempt : Attempts, cleanup : CleanupStatuses]
  BY BoundsTyped DEF TypeOK
<1>. SUFFICES ASSUME scenario.bounds["beside"] = 0, NEW g \in Handlers,
                     handler'[g].at \in {"admit", "guard"}, handler'[g].job.step = "cleanup"
              PROVE  handler'[g].job.attempt = run'.attempt /\ run'.cleanup = "PENDING"
  BY DEF CleanersAreCurrent, CleansTheCurrent, At, Job, Current
<1>1. ASSUME handler[g].at \in {"admit", "guard"}, handler'[g].job = handler[g].job
      PROVE  handler'[g].job.attempt = run'.attempt /\ run'.cleanup = "PENDING"
  <2>1. Job(g).attempt = run.attempt /\ run.cleanup = "PENDING"
    BY <1>1 DEF CleanersAreCurrent, CleansTheCurrent, Job, Current
  <2>2. ASSUME NEW h \in Handlers,
               Advances(h) \/ SetsPending(h) \/ GivesVerdict(h) \/ RecordsCleanup(h) \/ Confirms(h)
        PROVE  FALSE
    <3>1. h # g
      BY <1>1, <2>2, ElevenSteps DEF At, Advances, SetsPending, GivesVerdict, RecordsCleanup, Confirms
    <3>2. ~At(h, "idle") /\ ~At(g, "idle")
      BY <1>1, <2>2 DEF At, Advances, SetsPending, GivesVerdict, RecordsCleanup, Confirms
    <3>. QED
      BY <3>1, <3>2 DEF OneAtWork
  <2>3. IsCancelled \/ IsTurnedAway => run'.attempt = run.attempt /\ run'.cleanup = "PENDING"
    BY <2>1 DEF IsCancelled, IsTurnedAway
  <2>4. ~IsRetried
    BY <2>1 DEF IsRetried, CanRetry
  <2>5. run'.attempt = run.attempt /\ run'.cleanup = "PENDING"
    BY RunStep, <2>1, <2>2, <2>3, <2>4 DEF RunMoves
  <2>. QED
    BY <1>1, <2>1, <2>5 DEF Job
<1>2. CASE Works(g)
  <2>1. ArrivesDuly(g)
    BY <1>2, Arrivals
  <2>2. Receive(g) => handler'[g].at \notin {"admit", "guard"}
    BY <2>1 DEF Receive, ArrivesDuly, Phase, SetPending, Admit, Execute, Persist, At
  <2>3. handler'[g].job = handler[g].job
    BY <2>1, <2>2 DEF ArrivesDuly
  <2>4. CASE SetPending(g)
    BY <2>3, <2>4 DEF SetPending, Current, Goto, Job, HandlerState
  <2>5. CASE Phase(g)
    <3>1. Job(g).step = "cleanup"
      BY <2>3 DEF Job
    <3>2. PhaseForStep[Job(g).step] = NoPhase
      BY <3>1, ElevenSteps DEF PhaseForStep
    <3>3. handler'[g].at \in {"setPending", "failed"}
      BY <2>5, <3>1, <3>2 DEF Phase, Goto, HandlerState
    <3>. QED
      BY <3>3
  <2>6. CASE Admit(g) \/ Execute(g) \/ Persist(g)
    BY <1>1, <2>3, <2>6 DEF Admit, Execute, Persist, At
  <2>. QED
    BY <2>1, <2>4, <2>5, <2>6 DEF ArrivesDuly
<1>3. CASE Crash(g)
  BY <1>3 DEF Crash, IdleHandler
<1>4. CASE Expire(g)
  <2>1. handler'[g].at = handler[g].at /\ handler'[g].job = handler[g].job
    BY <1>4 DEF Expire
  <2>. QED
    BY <1>1, <2>1
<1>5. CASE handler'[g] = handler[g]
  BY <1>1, <1>5
<1>. QED
  BY HandlerStep, <1>2, <1>3, <1>4, <1>5

\* A retry needs a verdict, and a verdict that every step has its result.
LEMMA PastStep ==
    ASSUME Basis, VerdictsFit, PastStepsAreSettled, [Next]_vars
    PROVE  PastStepsAreSettled'
<1>. TypeOK /\ G!OnlyRunningRowsAreHeld /\ HandlersKnowTheirCalls
  BY DEF Basis
<1>. SUFFICES ASSUME NEW k \in StepKeys, k[1] < run'.attempt, k[2] # "cleanup"
              PROVE  Guard!Settled(k)'
  BY DEF PastStepsAreSettled
<1>0. k[1] \in Attempts /\ k[2] \in Steps /\ k[1] \in Nat /\ k = <<k[1], k[2]>>
  <2>1. k[1] \in Attempts /\ k[2] \in Steps /\ k = <<k[1], k[2]>>
    BY DEF StepKeys
  <2>. QED
    BY <2>1, WorkflowAssumption
<1>1. CASE k[1] < run.attempt
  BY <1>1, SettledStays DEF PastStepsAreSettled
<1>2. CASE ~(k[1] < run.attempt)
  <2>1. IsRetried /\ k[1] = run.attempt
    BY <1>0, <1>2, AttemptGrows
  <2>2. Fits(run.status, Book(run.attempt))
    BY <2>1 DEF IsRetried, CanRetry, VerdictsFit, Verdicts
  <2>3. k[2] \in StepsBefore("cleanup")
    BY <1>0, StepsBeforeCleanup
  <2>4. rows[k].status \in TerminalStepStatuses
    BY <1>0, <2>1, <2>2, <2>3 DEF Fits, Book
  <2>5. Guard!Settled(k)
    <3>1. rows[k].status \in Guard!RowStatuses
      BY DEF TypeOK, Guard!TypeOK, Guard!Row
    <3>. QED
      BY <1>0, <2>4, <3>1, SettledMeans DEF TerminalStepStatuses, Guard!RowStatuses, Guard!Results
  <2>. QED
    BY <2>5, SettledStays
<1>. QED
  BY <1>1, <1>2

\* Nobody but its handler changes the row of a step that is being executed under a
\* lease.
LEMMA LeasesStep ==
    ASSUME Basis, LeasesHold, [Next]_vars
    PROVE  LeasesHold'
<1>. TypeOK /\ G!OnlyRunningRowsAreHeld /\ HandlersKnowTheirCalls
  BY DEF Basis
<1>. /\ handler \in [Handlers -> HandlerState] /\ spent \in [Events -> Nat] /\ "lease" \in Events
     /\ rows \in [StepKeys -> Guard!Row] /\ call \in [Handlers -> Guard!Call]
  BY DEF TypeOK, Events, Guard!TypeOK
<1>. SUFFICES ASSUME spent'["lease"] = 0, NEW g \in Handlers, handler'[g].at = "guard"
              PROVE  HasTheLease(g)'
  BY DEF LeasesHold, At
<1>0. spent["lease"] = 0
  BY BoundsTyped
<1>1. ASSUME At(g, "guard"), handler'[g].job = handler[g].job, rows'[Key(g)] = rows[Key(g)]
      PROVE  HasTheLease(g)'
  BY <1>0, <1>1 DEF LeasesHold, HasTheLease, Key, Job
<1>2. ASSUME NEW h \in Handlers, h # g, HandlerActions(h), At(g, "guard")
      PROVE  rows'[Key(g)] = rows[Key(g)]
  <2>0. HasTheLease(g) /\ Key(g) \in StepKeys /\ g # NoHandler /\ h # NoHandler
    BY <1>0, <1>2, KeyTyped, GuardConstants DEF LeasesHold
  <2>1. CASE Skip(h)
    BY <2>0, <2>1 DEF Skip, guardVars, Guard!MarkSkipped, HasTheLease
  <2>2. CASE Admit(h)
    BY <2>0, <2>2
       DEF Admit, Guard!AlreadyTerminal, Guard!Busy, Guard!vars, Guard!Admit, Guard!Leased, Guard!Free, HasTheLease
  <2>3. CASE Persist(h)
    BY <1>2, <2>0, <2>3
       DEF Persist, Guard!Persist, Guard!Fenced, Guard!LeaseLost, Guard!Release, Guard!Holds,
           HasTheLease
  <2>4. CASE Heartbeat(h)
    BY <1>2, <2>0, <2>4 DEF Heartbeat, Guard!Heartbeat, Guard!Holds, HasTheLease
  <2>. QED
    BY <1>2, <2>1, <2>2, <2>3, <2>4
       DEF HandlerActions, Works, Receive, Redirect, List, Phase, SetPending, Execute, RecordStep,
           Finalize, Verdict, FinalizeCleanup, Confirm, Dispatch, CancelList, Complete, Fail, Crash,
           Expire, guardVars, Guard!OperationReturns, Guard!Crash
<1>3. ASSUME NEW k \in StepKeys, LeaseExpires(k), At(g, "guard") PROVE rows'[Key(g)] = rows[Key(g)]
  <2>1. HasTheLease(g) /\ call[g].at \notin {"idle", "admitting"} /\ call[g].key = Key(g)
    BY <1>0, <1>3 DEF LeasesHold, HandlersKnowTheirCalls, KnowsItsCall
  <2>2. k # Key(g)
    <3>0. Guard!Inside(g)
      BY <2>1 DEF Guard!Inside, TypeOK, Guard!TypeOK, Guard!Call, Guard!Places
    <3>1. k = Key(g) => Guard!Renewing(k)
      BY <2>1, <3>0 DEF Guard!Renewing, Guard!Holds, HasTheLease
    <3>2. Guard!Renewing(k) => Spend("lease")
      BY <1>3 DEF LeaseExpires
    <3>3. Spend("lease") => spent'["lease"] = 1
      BY <1>0 DEF Spend
    <3>. QED
      BY <3>1, <3>2, <3>3
  <2>. QED
    BY <1>3, <2>2 DEF LeaseExpires, Guard!LeaseExpires
<1>4. CASE UNCHANGED handler[g] /\ ~HandlerActions(g)
  <2>1. At(g, "guard") /\ handler'[g].job = handler[g].job
    BY <1>4 DEF At
  <2>2. rows'[Key(g)] = rows[Key(g)]
    BY NextCases, <1>2, <1>3, <1>4, <2>1
       DEF Publish, PublishUnmarked, Cancel, Retry, Sweep, vars, guardVars
  <2>. QED
    BY <1>1, <2>1, <2>2
<1>5. CASE Heartbeat(g)
  <2>1. HasTheLease(g) /\ call[g].key = Key(g) /\ handler'[g].job = handler[g].job
    BY <1>0, <1>5 DEF Heartbeat, LeasesHold, HandlersKnowTheirCalls, KnowsItsCall
  <2>2. rows' = [rows EXCEPT ![Key(g)].live = TRUE]
    BY <1>5, <2>1 DEF Heartbeat, Guard!Heartbeat, Guard!Holds, HasTheLease
  <2>3. rows'[Key(g)] = rows[Key(g)]
    BY <2>1, <2>2, KeyTyped DEF HasTheLease, Guard!Row
  <2>. QED
    BY <1>1, <1>5, <2>1, <2>3 DEF Heartbeat
<1>6. CASE Admit(g)
  <2>1. Guard!Admit(g, Key(g)) /\ handler'[g].job = handler[g].job
    BY <1>6 DEF Admit, Goto, HandlerState
  <2>. QED
    BY <2>1, KeyTyped DEF Guard!Admit, Guard!Leased, HasTheLease, Key, Job
<1>7. CASE Execute(g)
  <2>1. At(g, "guard") /\ UNCHANGED rows
    BY <1>7 DEF Execute, Guard!OperationReturns
  <2>2. handler'[g].job = handler[g].job
    BY <1>7 DEF Execute, HandlerState
  <2>. QED
    BY <1>1, <2>1, <2>2
<1>8. CASE Persist(g)
  <2>1. Guard!LeaseLost(g) /\ UNCHANGED handler
    BY <1>8 DEF Persist, Goto, HandlerState
  <2>2. At(g, "guard") /\ UNCHANGED rows
    BY <1>8, <2>1 DEF Persist, Guard!LeaseLost
  <2>. QED
    BY <1>1, <2>1, <2>2
<1>9. CASE Crash(g)
  BY <1>9 DEF Crash, IdleHandler
<1>10. CASE Expire(g)
  <2>1. At(g, "guard") /\ handler'[g].job = handler[g].job /\ UNCHANGED rows
    BY <1>10 DEF Expire, At, guardVars
  <2>. QED
    BY <1>1, <2>1
<1>11. CASE Works(g) /\ ~Admit(g) /\ ~Execute(g) /\ ~Persist(g)
  BY <1>11, Arrivals DEF ArrivesDuly
<1>. QED
  BY <1>4, <1>5, <1>6, <1>7, <1>8, <1>9, <1>10, <1>11, OthersStandBy DEF HandlerActions

\* A step that comes before a cleanup that may begin has its result.
LEMMA ReadyMeans ==
    ASSUME NEW a, NEW s \in Steps, s # "cleanup", Ready(<<a, "cleanup">>)
    PROVE  Guard!Settled(<<a, s>>)
  BY StepsBeforeCleanup DEF Ready

\* A handler that comes after the beginning of the cleanup reads what it stands on.
LEMMA AfterCleanupStep ==
    ASSUME Basis, StepsAreDue, LaterAttemptsAreBlank, OneAtWork, NothingAfterCleanup, [Next]_vars
    PROVE  NothingAfterCleanup'
<1>. TypeOK /\ G!OnlyRunningRowsAreHeld /\ HandlersKnowTheirCalls
  BY DEF Basis
<1>. /\ handler \in [Handlers -> HandlerState] /\ scenario' = scenario
     /\ run \in [status : RunStatuses, attempt : Attempts, cleanup : CleanupStatuses]
     /\ CleanupKey \in StepKeys
  BY BoundsTyped, ElevenSteps DEF TypeOK, CleanupKey, StepKeys
<1>. SUFFICES ASSUME scenario.bounds["beside"] = 0, rows'[CleanupKey'].status # "ABSENT",
                     NEW g \in Handlers, handler'[g].job.attempt = run'.attempt,
                     handler'[g].job.step # "cleanup"
              PROVE  HeadsForNothing(g)'
  BY DEF NothingAfterCleanup, Current, Job
<1>0. run'.attempt = run.attempt
  <2>1. ASSUME run'.attempt = run.attempt + 1 PROVE FALSE
    <3>1. CleanupKey' \in StepKeys /\ CleanupKey'[1] > run.attempt
      BY <2>1, TypeStep, AttemptGrows, ElevenSteps DEF TypeOK, CleanupKey, StepKeys
    <3>. DEFINE k == <<run.attempt + 1, "cleanup">>
    <3>2. k \in StepKeys /\ rows[k].status = "ABSENT" /\ k = CleanupKey' /\ UNCHANGED rows
      <4>1. CleanupKey' = k
        BY <2>1 DEF CleanupKey
      <4>2. rows[k].status = "ABSENT"
        BY <3>1, <4>1 DEF LaterAttemptsAreBlank
      <4>3. ~UNCHANGED run
        BY <2>1, AttemptGrows
      <4>. QED
        BY <3>1, <4>1, <4>2, <4>3, RunStep
    <3>. HIDE DEF k
    <3>. QED
      BY <3>2
  <2>. QED
    BY <2>1, AttemptGrows
<1>00. CleanupKey' = CleanupKey
  BY <1>0 DEF CleanupKey
<1>1. CASE rows[CleanupKey].status = "ABSENT"
  <2>1. PICK h \in Handlers : Begins(h, CleanupKey) \/ Skips(h, CleanupKey)
    BY <1>00, <1>1, RowStep DEF RowMoves, SaysTheSame, Records, GivesBack
  <2>2. ~Skips(h, CleanupKey)
    BY DEF Skips, StepsAreDue, GoesForDue, CleanupKey
  <2>3. handler'[h].at = "guard" /\ handler'[h].job.step = "cleanup"
    BY <2>1, <2>2 DEF Begins, HandlerState, CleanupKey, Key, Job
  <2>4. handler'[g].at = "idle"
    <3>1. g # h
      BY <2>3
    <3>. QED
      BY <2>3, <3>1, OneStep DEF OneAtWork, At
  <2>. QED
    BY <2>4 DEF HeadsForNothing, At
<1>2. CASE rows[CleanupKey].status # "ABSENT"
  <2>. DEFINE Over == run.status \in {"CANCEL_REQUESTED", "CANCELLED"}
  <2>0. Ready(CleanupKey) \/ Over
    BY <1>2 DEF StepsAreDue, RowIsDue, Due, Cancelling
  <2>00. Ready(CleanupKey) => Ready(CleanupKey)'
    <3>1. PICK k \in StepKeys : k = CleanupKey
      OBVIOUS
    <3>2. Ready(k) => Ready(k)'
      BY DueStays
    <3>. QED
      BY <1>00, <3>1, <3>2
  <2>. USE DEF At
  <2>1. ASSUME handler'[g].at = handler[g].at, handler'[g].job = handler[g].job,
               handler'[g].snap = handler[g].snap
        PROVE  HeadsForNothing(g)'
    <3>1. HeadsForNothing(g)
      BY <1>0, <1>2, <2>1 DEF NothingAfterCleanup, Current, Job
    <3>. QED
      BY <2>00, <2>1, <3>1 DEF HeadsForNothing
  <2>2. CASE Works(g)
    <3>1. ArrivesDuly(g)
      BY <2>2, Arrivals
    <3>2. CASE Receive(g)
      <4>1. handler'[g].snap = run.status
        BY <3>2 DEF Receive, IdleHandler
      <4>2. handler'[g].at \in {"done", "list", "cancelList", "redirect"}
        BY <3>2 DEF Receive, IdleHandler, Opening
      <4>. QED
        BY <2>0, <2>00, <4>1, <4>2 DEF HeadsForNothing
    <3>3. CASE ~Receive(g) /\ handler'[g].at \in {"list", "skip", "phase", "setPending", "admit", "guard"}
      <4>1. handler'[g].job = handler[g].job
        BY <3>1, <3>3 DEF ArrivesDuly, IdleHandler
      <4>2. HeadsForNothing(g)
        BY <1>0, <1>2, <4>1 DEF NothingAfterCleanup, Current, Job
      <4>3. CASE List(g) \/ Skip(g)
        <5>1. handler'[g].snap = handler[g].snap /\ handler[g].at \in {"list", "skip"}
          BY <4>3 DEF List, Skip, Goto, HandlerState
        <5>2. handler'[g].at \notin {"setPending", "admit", "guard"}
          BY <3>1, <3>3, <4>3 
             DEF ArrivesDuly, List, Skip, Phase, SetPending, CancelList, Admit, Execute, Persist
        <5>. QED
          BY <2>00, <4>2, <5>1, <5>2 DEF HeadsForNothing
      <4>4. CASE Phase(g)
        <5>1. Ready(CleanupKey) \/ handler[g].snap \in {"CANCEL_REQUESTED", "CANCELLED"}
          BY <4>2, <4>4 DEF HeadsForNothing, Phase
        <5>2. handler'[g].at \in {"admit", "failed"}
          BY <4>1, <4>4 DEF Phase, Goto, HandlerState, Job
        <5>3. ASSUME ~Ready(CleanupKey) PROVE handler'[g].at # "admit"
          <6>. DEFINE target == PhaseForStep[Job(g).step]
          <6>1. target \in {"PLANNING", "EXECUTING", "ANALYZING", "REPORTING"} /\ target # NoPhase
            BY <4>1, ElevenSteps DEF PhaseForStep, NoPhase, HandlerState, Jobs, Job
          <6>2. target # handler[g].snap
            BY <5>1, <5>3, <6>1
          <6>3. ~MayMove(g, target)
            BY <2>0, <5>3, <6>1 DEF MayMove, ValidTransition, Transitions
          <6>. HIDE DEF target
          <6>. QED
            BY <4>4, <6>1, <6>2, <6>3 DEF Phase, Move, target, Goto, HandlerState
        <5>. QED
          BY <2>00, <5>2, <5>3 DEF HeadsForNothing
      <4>5. ~SetPending(g)
        BY <4>2 DEF HeadsForNothing, SetPending
      <4>6. CASE Admit(g)
        <5>1. Ready(CleanupKey) /\ Current(g) /\ Job(g).step # "cleanup"
          BY <1>0, <4>1, <4>2, <4>6 DEF HeadsForNothing, Admit, Current, Job
        <5>2. Guard!Settled(Key(g))
          BY <5>1, ReadyMeans DEF CleanupKey, Key, Current, HandlerState, Jobs, Job
        <5>. QED
          BY <3>3, <4>6, <5>2
             DEF Admit, Guard!Admit, Guard!Leased, Guard!Free, Goto, HandlerState
      <4>7. ~Execute(g) /\ ~Persist(g)
        BY <4>2 DEF HeadsForNothing, Execute, Persist
      <4>8. ~CancelList(g)
        BY <4>1 DEF CancelList, StepsAreDue, GoesForDue, Job
      <4>. QED
        BY <3>1, <3>3, <4>3, <4>4, <4>5, <4>6, <4>7, <4>8 DEF ArrivesDuly
    <3>4. CASE ~Receive(g) /\ handler'[g].at \notin {"list", "skip", "phase", "setPending", "admit", "guard"}
      BY <3>4 DEF HeadsForNothing
    <3>. QED
      BY <3>2, <3>3, <3>4
  <2>3. CASE Crash(g)
    BY <2>3 DEF Crash, IdleHandler, HeadsForNothing
  <2>4. CASE Expire(g)
    BY <2>1, <2>4 DEF Expire, HandlerState
  <2>5. CASE handler'[g] = handler[g]
    BY <2>1, <2>5
  <2>. QED
    BY HandlerStep, <2>2, <2>3, <2>4, <2>5
<1>. QED
  BY <1>1, <1>2

\* Nobody executes a step of an earlier attempt, nor of the current one once its cleanup
\* was begun, but for a cleanup.
LEMMA NobodyRebuilds ==
    ASSUME Basis, StepsAreDue, LaterAttemptsAreBlank, EventsAreCounted, PastStepsAreSettled,
           LeasesHold, NothingAfterCleanup, Sheltered, rows[CleanupKey].status # "ABSENT",
           NEW h \in Handlers, At(h, "guard")
    PROVE  Job(h).step = "cleanup"
<1>. SUFFICES ASSUME Job(h).step # "cleanup" PROVE FALSE
  OBVIOUS
<1>. TypeOK
  BY DEF Basis
<1>. /\ Job(h).attempt \in Nat /\ run.attempt \in Nat /\ Job(h).step \in Steps
     /\ Key(h) \in StepKeys /\ CleanupKey \in StepKeys
  BY WorkflowAssumption, AttemptGrows, KeyTyped, ElevenSteps
     DEF TypeOK, HandlerState, Jobs, Job, StepKeys, CleanupKey
<1>1. rows[Key(h)].status = "RUNNING"
  BY DEF Sheltered, LeasesHold, HasTheLease
<1>2. ~Guard!Settled(Key(h))
  BY <1>1 DEF Guard!Settled, Guard!Stands, Guard!Results
<1>3. Job(h).attempt = run.attempt
  <2>1. ~(Job(h).attempt < run.attempt)
    BY <1>2 DEF PastStepsAreSettled, Key
  <2>2. Job(h).attempt <= run.attempt
    BY DEF LaterAttemptsAreBlank
  <2>. QED
    BY <2>1, <2>2
<1>4. ~Ready(CleanupKey)
  BY <1>2, <1>3, ReadyMeans DEF Key, CleanupKey
<1>5. spent["cancel"] # 0
  BY <1>4 DEF StepsAreDue, RowIsDue, Due, Cancelling, EventsAreCounted
<1>6. HeadsForNothing(h)
  BY <1>3, <1>5 DEF Sheltered, NothingAfterCleanup, Current
<1>. QED
  BY <1>6 DEF HeadsForNothing, At

\* The namespace comes and goes with what handlers execute.
LEMMA NamespaceStep ==
    ASSUME [Next]_vars
    PROVE  UNCHANGED namespace \/ \E h \in Handlers : Execute(h)
  BY NextCases
     DEF HandlerActions, Works, Receive, Redirect, List, Skip, Phase, SetPending, Admit, Persist,
         RecordStep, Finalize, Verdict, FinalizeCleanup, Confirm, Dispatch, CancelList, Complete,
         Fail, Heartbeat, Crash, Expire, Publish, PublishUnmarked, LeaseExpires, Cancel, Retry,
         Sweep, vars, worldVars

\* A handler that has just cleaned up had already, or has executed the cleanup now.
LEMMA CleanedStep ==
    ASSUME Basis, LaterAttemptsAreBlank, [Next]_vars, NEW h \in Handlers, HasCleaned(h)'
    PROVE  /\ run'.attempt = run.attempt
           /\ HasCleaned(h) \/ (Execute(h) /\ ~namespace')
<1>. TypeOK /\ G!OnlyRunningRowsAreHeld /\ HandlersKnowTheirCalls
  BY DEF Basis
<1>. /\ handler \in [Handlers -> HandlerState] /\ call \in [Handlers -> Guard!Call]
     /\ handler' \in [Handlers -> HandlerState]
  BY HandlersTyped DEF TypeOK, Guard!TypeOK
<1>0. /\ handler'[h].at = "guard" /\ call'[h].at = "persisting" /\ handler'[h].result = Passed
      /\ handler'[h].job.attempt = run'.attempt /\ handler'[h].job.step = "cleanup"
  BY CallsStep DEF HasCleaned, CleanupKey, Key, Job, At, HandlersKnowTheirCalls, KnowsItsCall
<1>1. ASSUME handler'[h].job = handler[h].job PROVE run'.attempt = run.attempt
  BY <1>0, <1>1, AttemptGrows DEF LaterAttemptsAreBlank, Job
<1>2. ASSUME handler'[h].job = handler[h].job, handler'[h].result = handler[h].result,
             call'[h].at = call[h].at
      PROVE  run'.attempt = run.attempt /\ HasCleaned(h)
  BY <1>0, <1>1, <1>2 DEF HasCleaned, CleanupKey, Key, Job
<1>3. CASE Execute(h)
  <2>1. PICK r \in scenario.results[Job(h).step] :
          /\ namespace' \in NamespaceAfter(Job(h).step, r)
          /\ handler' = [handler EXCEPT ![h].result = r]
    BY <1>3 DEF Execute
  <2>2. handler'[h] = [handler[h] EXCEPT !.result = r]
    BY <2>1
  <2>3. r = Passed /\ handler'[h].job = handler[h].job /\ Job(h).step = "cleanup"
    BY <1>0, <2>2 DEF HandlerState, Job
  <2>4. namespace' \in {FALSE}
    BY <2>1, <2>3 DEF NamespaceAfter, NamespaceSteps, Passed
  <2>. QED
    BY <1>1, <1>3, <2>3, <2>4
<1>4. ~Admit(h)
  <2>1. Guard!Admit(h, Key(h)) => call'[h].at = "operating"
    BY DEF Guard!Admit, Guard!Leased, Guard!Call
  <2>2. Admit(h) => Guard!Admit(h, Key(h))
    BY <1>0 DEF Admit, Goto, HandlerState
  <2>. QED
    BY <1>0, <2>1, <2>2
<1>5. ~Persist(h)
  <2>1. Guard!Persist(h) \/ Guard!LeaseLost(h) \/ Guard!Release(h) => call'[h].at # "persisting"
    BY DEF Guard!Persist, Guard!LeaseLost, Guard!Release, Guard!Call
  <2>. QED
    BY <1>0, <2>1 DEF Persist
<1>6. Works(h) => Execute(h)
  BY <1>0, <1>4, <1>5, Arrivals DEF ArrivesDuly
<1>7. CASE Heartbeat(h)
  <2>1. handler'[h] = handler[h] /\ call'[h].at = call[h].at
    BY <1>7 DEF Heartbeat, Guard!Heartbeat, Guard!Call
  <2>. QED
    BY <1>2, <2>1
<1>8. ~Crash(h)
  BY <1>0 DEF Crash, IdleHandler
<1>9. CASE Expire(h)
  <2>1. handler'[h].job = handler[h].job /\ handler'[h].result = handler[h].result
    BY <1>9 DEF Expire, HandlerState
  <2>2. UNCHANGED call
    BY <1>9 DEF Expire, guardVars
  <2>. QED
    BY <1>2, <2>1, <2>2
<1>10. CASE ~HandlerActions(h)
  BY <1>2, <1>10, OthersStandBy
<1>. QED
  BY <1>3, <1>6, <1>7, <1>8, <1>9, <1>10 DEF HandlerActions

\* So what a cleanup has removed stays removed.
LEMMA GoneStep ==
    ASSUME IInv, EventsAreCounted, PastStepsAreSettled, LeasesHold, NothingAfterCleanup,
           NamespaceIsGone, [Next]_vars
    PROVE  NamespaceIsGone'
<1>. /\ Basis /\ StepsAreDue /\ LaterAttemptsAreBlank /\ TypeOK
     /\ G!OnlyRunningRowsAreHeld /\ HandlersKnowTheirCalls
  BY DEF IInv, Basis
<1>. /\ handler \in [Handlers -> HandlerState] /\ namespace \in BOOLEAN
     /\ CleanupKey \in StepKeys /\ CleanupKey' \in StepKeys
  BY TypeStep, ElevenSteps DEF TypeOK, CleanupKey, StepKeys
<1>. SUFFICES ASSUME Sheltered',
                     rows'[CleanupKey'].status = "PASSED" \/ \E h \in Handlers : HasCleaned(h)'
              PROVE  ~namespace'
  BY DEF NamespaceIsGone
<1>0. Sheltered
  <2>1. scenario' = scenario /\ \A e \in {"lease", "cancel"} : spent'[e] = 0 => spent[e] = 0
    BY BoundsTyped DEF TypeOK, Events
  <2>. QED
    BY <2>1 DEF Sheltered
<1>1. ASSUME rows[CleanupKey].status = "PASSED" \/ \E h \in Handlers : HasCleaned(h)
      PROVE  ~namespace'
  <2>1. ~namespace
    BY <1>0, <1>1 DEF NamespaceIsGone
  <2>2. rows[CleanupKey].status # "ABSENT"
    <3>1. ASSUME NEW h \in Handlers, HasCleaned(h) PROVE rows[CleanupKey].status = "RUNNING"
      BY <1>0, <3>1 DEF HasCleaned, HandlersKnowTheirCalls, KnowsItsCall, Sheltered, LeasesHold,
                        HasTheLease
    <3>. QED
      BY <1>1, <3>1
  <2>3. ASSUME NEW g \in Handlers, Execute(g) PROVE ~namespace'
    <3>1. Job(g).step = "cleanup"
      BY <1>0, <2>2, <2>3, NobodyRebuilds DEF Execute
    <3>2. PICK r : namespace' \in NamespaceAfter("cleanup", r)
      BY <2>3, <3>1 DEF Execute
    <3>3. NamespaceAfter("cleanup", r) \subseteq {FALSE}
      BY <2>1 DEF NamespaceAfter, NamespaceSteps
    <3>. QED
      BY <3>2, <3>3
  <2>. QED
    BY <2>1, <2>3, NamespaceStep
<1>2. ASSUME NEW h \in Handlers, HasCleaned(h)' PROVE ~namespace'
  BY <1>1, <1>2, CleanedStep
<1>3. CASE rows'[CleanupKey'].status = "PASSED"
  <2>1. run'.attempt = run.attempt
    <3>. SUFFICES ASSUME run'.attempt = run.attempt + 1 PROVE FALSE
      BY AttemptGrows
    <3>1. CleanupKey'[1] > run.attempt
      BY AttemptGrows DEF CleanupKey
    <3>2. rows[CleanupKey'].status = "ABSENT"
      BY <3>1 DEF LaterAttemptsAreBlank
    <3>3. UNCHANGED rows
      BY RunStep, AttemptGrows
    <3>. QED
      BY <1>3, <3>2, <3>3
  <2>2. CleanupKey' = CleanupKey
    BY <2>1 DEF CleanupKey
  <2>3. PICK k \in StepKeys : k = CleanupKey
    OBVIOUS
  <2>4. rows'[k].status = "PASSED"
    BY <1>3, <2>2, <2>3
  <2>5. rows[k].status = "PASSED" \/ \E h \in Handlers : Records(h, k)
    BY <2>4, RowStep DEF RowMoves, SaysTheSame, Begins, Skips, GivesBack
  <2>6. ASSUME NEW h \in Handlers, Records(h, k) PROVE HasCleaned(h)
    <3>1. handler[h].result = Passed
      BY <2>4, <2>6
         DEF Records, HandlerState, StepResults, Passed, AppFailure, HardFailed, Incomplete
    <3>. QED
      BY <2>3, <2>6, <3>1 DEF Records, HasCleaned
  <2>. QED
    BY <1>1, <2>3, <2>5, <2>6
<1>. QED
  BY <1>2, <1>3

\* The second invariant, with the first.
WorldInv ==
    /\ IInv
    /\ OneAtWork
    /\ EventsAreCounted
    /\ CleanersAreCurrent
    /\ PastStepsAreSettled
    /\ LeasesHold
    /\ NothingAfterCleanup
    /\ NamespaceIsGone

\* It holds from the start, and every step keeps it.
LEMMA InitiallyWorldInv == ASSUME Init, TypeOK PROVE WorldInv
<1>1. IInv
  BY InitiallyIInv
<1>2. \A h \in Handlers : handler[h].at = "idle" /\ call[h].at = "idle"
  BY DEF Init, IdleHandler
<1>3. run.attempt = 1 /\ run.status \notin {"CANCEL_REQUESTED", "CANCELLED"}
  <2>1. scenario.first \in Steps
    BY WorkflowAssumption DEF Init
  <2>. DEFINE before == WorkflowSteps[StepIndex[scenario.first] - 1]
  <2>2. ASSUME StepsBefore(scenario.first) # {}
        PROVE  PhaseForStep[before] \notin {"CANCEL_REQUESTED", "CANCELLED"}
    BY <2>1, <2>2, ElevenSteps, StepIndexes
       DEF PhaseForStep, WorkflowSteps, NoPhase, StepsBefore
  <2>. QED
    BY <2>2 DEF Init
<1>4. rows[CleanupKey].status = "ABSENT"
  <2>1. "cleanup" \notin StepsBefore(scenario.first)
    <3>1. scenario.first \in Steps
      BY WorkflowAssumption DEF Init
    <3>. QED
      BY <3>1, ElevenSteps, StepIndexes DEF StepsBefore
  <2>2. <<1, "cleanup">> \in StepKeys
    BY WorkflowAssumption, ElevenSteps DEF StepKeys
  <2>. QED
    BY <1>3, <2>1, <2>2 DEF Init, CleanupKey
<1>5. OneAtWork /\ EventsAreCounted /\ CleanersAreCurrent /\ LeasesHold
  BY <1>2, <1>3
     DEF OneAtWork, EventsAreCounted, CleanersAreCurrent, CleansTheCurrent, LeasesHold, At
<1>6. PastStepsAreSettled
  <2>1. \A k \in StepKeys : k[1] \in Nat \ {0}
    BY WorkflowAssumption DEF StepKeys
  <2>. QED
    BY <1>3, <2>1 DEF PastStepsAreSettled
<1>7. NothingAfterCleanup /\ NamespaceIsGone
  BY <1>2, <1>4 DEF NothingAfterCleanup, NamespaceIsGone, HasCleaned
<1>. QED
  BY <1>1, <1>5, <1>6, <1>7 DEF WorldInv

LEMMA WorldInvStep == ASSUME WorldInv, [Next]_vars PROVE WorldInv'
<1>1. Basis /\ TypeOK /\ StepsAreDue /\ LaterAttemptsAreBlank /\ VerdictsFit
  BY DEF WorldInv, IInv, Basis
<1>2. IInv'
  BY IInvStep DEF WorldInv
<1>3. OneAtWork' /\ EventsAreCounted' /\ CleanersAreCurrent'
  BY <1>1, OneStep, CountedStep, CleanersStep DEF WorldInv
<1>4. PastStepsAreSettled' /\ LeasesHold' /\ NothingAfterCleanup'
  BY <1>1, PastStep, LeasesStep, AfterCleanupStep DEF WorldInv
<1>5. NamespaceIsGone'
  BY <1>1, GoneStep DEF WorldInv
<1>. QED
  BY <1>2, <1>3, <1>4, <1>5 DEF WorldInv

LEMMA WorldInvHolds == Spec => []WorldInv
<1>1. Init => WorldInv
  BY InitiallyTyped, InitiallyWorldInv
<1>2. WorldInv /\ [Next]_vars => WorldInv'
  BY WorldInvStep
<1>. QED
  BY <1>1, <1>2, PTL DEF Spec

\* A cleanup that is executed is the current attempt's: it never removes the namespace of
\* a newer one, unless a handler at work beside it lets the user retry meanwhile.
THEOREM CleanupSpares == Spec => []CleanupSparesNewerAttempts
<1>1. WorldInv => CleanupSparesNewerAttempts
  <2>. SUFFICES ASSUME WorldInv, spent["retry"] = 0 \/ scenario.bounds["beside"] = 0,
                       NEW h \in Handlers, call[h].at = "operating", Job(h).step = "cleanup"
                PROVE  Job(h).attempt = run.attempt
    BY DEF CleanupSparesNewerAttempts
  <2>1. CASE spent["retry"] = 0
    <3>1. run.attempt = 1 /\ Job(h).attempt <= run.attempt
      BY <2>1 DEF WorldInv, EventsAreCounted, IInv, LaterAttemptsAreBlank
    <3>2. Job(h).attempt \in Nat \ {0}
      BY WorkflowAssumption DEF WorldInv, IInv, Basis, TypeOK, HandlerState, Jobs, Job
    <3>. QED
      BY <3>1, <3>2
  <2>2. CASE scenario.bounds["beside"] = 0
    <3>1. At(h, "guard")
      BY DEF WorldInv, IInv, Basis, HandlersKnowTheirCalls, KnowsItsCall
    <3>. QED
      BY <2>2, <3>1 DEF WorldInv, CleanersAreCurrent, CleansTheCurrent, Current, At
  <2>. QED
    BY <2>1, <2>2
<1>. QED
  BY <1>1, WorldInvHolds, PTL

\* A cleanup recorded as confirmed has removed the namespace, and nothing the attempt's
\* handlers still do brings it back.
THEOREM CleanedIsGone == Spec => []CleanedMeansGone
<1>1. WorldInv => CleanedMeansGone
  <2>. SUFFICES ASSUME WorldInv, run.cleanup = "CLEANED", Sheltered
                PROVE  ~namespace /\ rows[CleanupKey].status = "PASSED"
    BY DEF CleanedMeansGone, Sheltered, CleanupKey
  <2>1. rows[CleanupKey].status = "PASSED"
    BY DEF WorldInv, IInv, CleanupsAreRecorded, CleanupKey
  <2>. QED
    BY <2>1 DEF WorldInv, NamespaceIsGone
<1>. QED
  BY <1>1, WorldInvHolds, PTL

-----------------------------------------------------------------------------
\* A handler goes on with what it read in the records, not with what they say by now:
\* while the step it is heading for is not settled, the gates still say of it what they
\* said when it decided.
GoesByTheGates(h) ==
    /\ handler[h].at \in {"phase", "admit"} /\ ~Guard!Settled(Key(h)) =>
          ~ShouldSkip(Book(Job(h).attempt), Job(h).step)
    /\ At(h, "skip") /\ ~Guard!Settled(<<Job(h).attempt, handler[h].target>>) =>
          ShouldSkip(Book(Job(h).attempt), handler[h].target)
    /\ At(h, "setPending") => Job(h).step = "cleanup"

PlannedInv == WorldInv /\ \A h \in Handlers : GoesByTheGates(h)

\* The gates of a step stand as soon as every step before it is settled: nothing that
\* comes after it goes wrong before the step itself is settled.
LEMMA GatesStand ==
    ASSUME IInv, [Next]_vars, NEW a \in Attempts, NEW s \in Steps, s # "cleanup",
           Ready(<<a, s>>), ~Guard!Settled(<<a, s>>)'
    PROVE  ShouldSkip(Book(a)', s) <=> ShouldSkip(Book(a), s)
<1>. /\ TypeOK /\ G!OnlyRunningRowsAreHeld /\ HandlersKnowTheirCalls /\ StepsAreDue
     /\ TypeOK' /\ StepsAreDue'
  BY IInvStep DEF IInv, Basis
<1>. <<a, s>> \in StepKeys
  BY DEF StepKeys
<1>1. ~Guard!Settled(<<a, s>>) /\ Ready(<<a, s>>)'
  BY SettledStays, DueStays
<1>2. ASSUME NEW t \in Steps \ {"cleanup"}
      PROVE  \/ Book(a)'[t] = Book(a)[t]
             \/ /\ Book(a)[t].status \notin {"FAILED", "INCOMPLETE"}
                /\ Book(a)'[t].status \notin {"FAILED", "INCOMPLETE"}
  <2>. <<a, t>> \in StepKeys
    BY DEF StepKeys
  <2>0. /\ Book(a)[t] = [status |-> rows[<<a, t>>].status, kind |-> kinds[<<a, t>>]]
        /\ Book(a)'[t] = [status |-> rows'[<<a, t>>].status, kind |-> kinds'[<<a, t>>]]
    BY DEF Book
  <2>1. CASE Guard!Settled(<<a, t>>)
    BY <2>0, <2>1, SettledStays
  <2>2. CASE ~Guard!Settled(<<a, t>>)
    <3>1. t \notin StepsBefore(s)
      BY <2>2 DEF Ready
    <3>2. t = s \/ s \in StepsBefore(t)
      BY <3>1, ElevenSteps, StepIndexes DEF StepsBefore
    <3>3. rows[<<a, t>>].status \notin {"FAILED", "INCOMPLETE"}
      BY <2>2, SettledMeans
    <3>4. rows'[<<a, t>>].status \notin {"FAILED", "INCOMPLETE"}
      <4>1. SUFFICES ASSUME rows'[<<a, t>>].status \in {"FAILED", "INCOMPLETE"} PROVE FALSE
        OBVIOUS
      <4>2. Guard!Settled(<<a, t>>)'
        BY <4>1 DEF Guard!Settled, Guard!Stands, Guard!Results
      <4>3. Ready(<<a, t>>)'
        BY <4>1 DEF StepsAreDue, RowIsDue, Due
      <4>4. s \notin StepsBefore(t)
        BY <4>3 DEF Ready
      <4>. QED
        BY <3>2, <4>2, <4>4
    <3>. QED
      BY <2>0, <3>3, <3>4
  <2>. QED
    BY <2>1, <2>2
<1>. QED
  BY <1>2, GatesReadFailures

\* A handler that stays where it is, or gets from the phase to the admission, still goes
\* by the gates.
LEMMA GatesStayTrue ==
    ASSUME IInv, [Next]_vars, NEW g \in Handlers, GoesByTheGates(g),
           UNCHANGED handler[g].job, UNCHANGED handler[g].target,
           \/ UNCHANGED handler[g].at
           \/ At(g, "phase") /\ handler'[g].at = "admit"
    PROVE  GoesByTheGates(g)'
<1>. /\ TypeOK /\ G!OnlyRunningRowsAreHeld /\ HandlersKnowTheirCalls /\ StepsAreDue
     /\ handler \in [Handlers -> HandlerState]
  BY DEF IInv, Basis, TypeOK
<1>1. PICK a \in Attempts, s \in Steps, t \in Steps :
         handler[g].job.attempt = a /\ handler[g].job.step = s /\ handler[g].target = t
  BY DEF HandlerState, Jobs
<1>2. <<a, s>> \in StepKeys /\ <<a, t>> \in StepKeys
  BY DEF StepKeys
<1>3. GoesByTheGates(g) <=>
         /\ handler[g].at \in {"phase", "admit"} /\ ~Guard!Settled(<<a, s>>) => ~ShouldSkip(Book(a), s)
         /\ handler[g].at = "skip" /\ ~Guard!Settled(<<a, t>>) => ShouldSkip(Book(a), t)
         /\ handler[g].at = "setPending" => s = "cleanup"
  BY <1>1 DEF GoesByTheGates, At, Job, Key
<1>4. GoesByTheGates(g)' <=>
         /\ handler'[g].at \in {"phase", "admit"} /\ ~Guard!Settled(<<a, s>>)' => ~ShouldSkip(Book(a)', s)
         /\ handler'[g].at = "skip" /\ ~Guard!Settled(<<a, t>>)' => ShouldSkip(Book(a)', t)
         /\ handler'[g].at = "setPending" => s = "cleanup"
  BY <1>1 DEF GoesByTheGates, At, Job, Key
<1>5. GoesForDue(g)
  BY DEF StepsAreDue
<1>6. ASSUME handler'[g].at \in {"phase", "admit"}, ~Guard!Settled(<<a, s>>)'
      PROVE  ~ShouldSkip(Book(a)', s)
  <2>1. CASE s = "cleanup"
    BY <2>1, CleanupIsNeverSkipped
  <2>2. CASE s # "cleanup"
    <3>1. handler[g].at \in {"phase", "admit"}
      BY <1>6 DEF At
    <3>2. Ready(<<a, s>>)
      BY <1>1, <1>5, <2>2, <3>1 DEF GoesForDue, Due, Key, Job
    <3>3. ~Guard!Settled(<<a, s>>)
      BY <1>2, <1>6, SettledStays
    <3>. QED
      BY <1>3, <1>6, <2>2, <3>1, <3>2, <3>3, GatesStand
  <2>. QED
    BY <2>1, <2>2
<1>7. ASSUME handler'[g].at = "skip", ~Guard!Settled(<<a, t>>)'
      PROVE  ShouldSkip(Book(a)', t)
  <2>1. handler[g].at = "skip"
    BY <1>7 DEF At
  <2>2. t # "cleanup" /\ Ready(<<a, t>>)
    BY <1>1, <1>5, <2>1 DEF GoesForDue, At, Job
  <2>3. ~Guard!Settled(<<a, t>>)
    BY <1>2, <1>7, SettledStays
  <2>. QED
    BY <1>3, <1>7, <2>1, <2>2, <2>3, GatesStand
<1>. QED
  BY <1>3, <1>4, <1>6, <1>7 DEF At

\* Every step of a handler leaves it heading for what the gates say.
LEMMA GatesStep ==
    ASSUME WorldInv, \A h \in Handlers : GoesByTheGates(h), [Next]_vars, NEW g \in Handlers
    PROVE  GoesByTheGates(g)'
<1>. /\ IInv /\ TypeOK /\ StepsAreDue /\ CleanupsAreRecorded /\ GoesByTheGates(g)
     /\ handler \in [Handlers -> HandlerState]
  BY DEF WorldInv, IInv, Basis, TypeOK
<1>1. ASSUME handler'[g].at \notin {"phase", "skip", "setPending", "admit"}
      PROVE  GoesByTheGates(g)'
  BY <1>1 DEF GoesByTheGates, At
<1>2. CASE handler'[g] = handler[g] \/ Expire(g)
  <2>1. UNCHANGED handler[g].at /\ UNCHANGED handler[g].job /\ UNCHANGED handler[g].target
    BY <1>2 DEF Expire, HandlerState
  <2>. QED
    BY <2>1, GatesStayTrue
<1>3. CASE List(g)
  <2>1. PICK a \in Attempts, s \in Steps :
           handler[g].job.attempt = a /\ handler[g].job.step = s
    BY DEF HandlerState, Jobs
  <2>. DEFINE next == NextStepAction(Book(a))
  <2>2. PICK n \in Steps, action \in {"none", "run", "skip"} : next.step = n /\ next.action = action
    BY NextStepIsDue
  <2>3. action = "run" => ~ShouldSkip(Book(a), n)
    BY <2>2, PlannedByTheGates
  <2>4. action = "skip" => ShouldSkip(Book(a), n)
    BY <2>2, PlannedByTheGates
  <2>5. Book(a)' = Book(a)
    BY <1>3 DEF List, guardVars, Book
  <2>6. /\ handler'[g].at = AfterListing(g, Book(a), next) /\ handler'[g].job = handler[g].job
        /\ action = "skip" => handler'[g].target = n
    BY <1>3, <2>1, <2>2 DEF List, Job
  <2>. HIDE DEF next
  <2>7. handler'[g].at = "phase" => action = "run" /\ n = s
    BY <2>1, <2>2, <2>6 DEF AfterListing, Job
  <2>8. handler'[g].at = "skip" => action = "skip"
    BY <2>2, <2>6 DEF AfterListing
  <2>9. handler'[g].at \notin {"setPending", "admit"}
    BY <2>2, <2>6 DEF AfterListing
  <2>10. handler'[g].at = "phase" => ~ShouldSkip(Book(a)', s)
    BY <2>3, <2>5, <2>7
  <2>11. handler'[g].at = "skip" => handler'[g].target = n /\ ShouldSkip(Book(a)', n)
    BY <2>4, <2>5, <2>6, <2>8
  <2>12. handler'[g].job.attempt = a /\ handler'[g].job.step = s
    BY <2>1, <2>6
  <2>. QED
    BY <2>9, <2>10, <2>11, <2>12 DEF GoesByTheGates, At, Job
<1>4. CASE Phase(g)
  <2>1. /\ At(g, "phase") /\ UNCHANGED handler[g].job /\ UNCHANGED handler[g].target
        /\ handler'[g].at \in {"setPending", "admit", "failed"}
        /\ handler'[g].at = "setPending" => Job(g).step = "cleanup"
    BY <1>4 DEF Phase, Goto, At, HandlerState
  <2>2. CASE handler'[g].at = "admit"
    BY <2>1, <2>2, GatesStayTrue
  <2>3. CASE handler'[g].at # "admit"
    BY <2>1, <2>3 DEF GoesByTheGates, At, Job
  <2>. QED
    BY <2>2, <2>3
<1>5. CASE SetPending(g)
  <2>1. At(g, "setPending") /\ UNCHANGED handler[g].job /\ handler'[g].at \in {"admit", "failed"}
    BY <1>5 DEF SetPending, Goto, At, HandlerState
  <2>2. Job(g).step = "cleanup"
    BY <2>1 DEF GoesByTheGates
  <2>. QED
    BY <2>1, <2>2, CleanupIsNeverSkipped DEF GoesByTheGates, At, Job
<1>6. CASE CancelList(g)
  <2>1. At(g, "cancelList") /\ UNCHANGED handler[g].job /\ handler'[g].at \in {"setPending", "done"}
    BY <1>6 DEF CancelList, Goto, At, HandlerState
  <2>2. Job(g).step = "cleanup"
    BY <2>1 DEF StepsAreDue, GoesForDue
  <2>. QED
    BY <2>1, <2>2 DEF GoesByTheGates, At, Job
<1>7. CASE Works(g) /\ ~List(g) /\ ~Phase(g) /\ ~SetPending(g) /\ ~CancelList(g)
  BY <1>1, <1>7, Arrivals DEF ArrivesDuly
<1>8. CASE Crash(g)
  <2>1. handler'[g].at = "idle"
    BY <1>8 DEF Crash, IdleHandler
  <2>. QED
    BY <1>1, <2>1
<1>. QED
  BY HandlerStep, <1>2, <1>3, <1>4, <1>5, <1>6, <1>7, <1>8

LEMMA PlannedInvHolds == Spec => []PlannedInv
<1>1. Init => PlannedInv
  <2>1. Init => \A h \in Handlers : GoesByTheGates(h)
    BY DEF Init, IdleHandler, GoesByTheGates, At
  <2>. QED
    BY <2>1, InitiallyTyped, InitiallyWorldInv DEF PlannedInv
<1>2. PlannedInv /\ [Next]_vars => PlannedInv'
  BY WorldInvStep, GatesStep DEF PlannedInv
<1>. QED
  BY <1>1, <1>2, PTL DEF Spec

\* Who starts or skips a step, and that it is its time.
LEMMA StartedByOne ==
    ASSUME IInv, [Next]_vars, NEW k \in StepKeys, Started(k)
    PROVE  \E h \in Handlers : Begins(h, k)
<1>. /\ TypeOK /\ G!OnlyRunningRowsAreHeld /\ HandlersKnowTheirCalls
     /\ handler \in [Handlers -> HandlerState]
  BY DEF IInv, Basis, TypeOK
<1>1. rows'[k].status = "RUNNING" /\ ~SaysTheSame(k)
  BY DEF Started, SaysTheSame
<1>2. ASSUME NEW h \in Handlers, Records(h, k) PROVE FALSE
  BY <1>1, <1>2
     DEF Records, HandlerState, StepResults, Passed, AppFailure, HardFailed, Incomplete
<1>. QED
  BY <1>1, <1>2, RowStep DEF RowMoves, Skips, GivesBack

LEMMA SparedByOne ==
    ASSUME IInv, [Next]_vars, NEW k \in StepKeys, Spared(k)
    PROVE  \E h \in Handlers : Skips(h, k)
<1>. /\ TypeOK /\ G!OnlyRunningRowsAreHeld /\ HandlersKnowTheirCalls
     /\ handler \in [Handlers -> HandlerState]
  BY DEF IInv, Basis, TypeOK
<1>1. rows'[k].status = "SKIPPED" /\ ~SaysTheSame(k)
  BY DEF Spared, SaysTheSame
<1>2. ASSUME NEW h \in Handlers, Records(h, k) PROVE FALSE
  BY <1>1, <1>2
     DEF Records, HandlerState, StepResults, Passed, AppFailure, HardFailed, Incomplete
<1>. QED
  BY <1>1, <1>2, RowStep DEF RowMoves, Begins, GivesBack

\* A step that is due and open is the one the plan asks for, unless the attempt is being
\* cancelled: then the cleanup may have come first.
LEMMA DueStepIsNext ==
    ASSUME IInv, NEW a \in Attempts, NEW s \in Steps, Ready(<<a, s>>), ~Guard!Settled(<<a, s>>)
    PROVE  NextStepAction(Book(a)).step = s \/ Cancelling(a)
<1>. TypeOK /\ StepsAreDue /\ <<a, s>> \in StepKeys /\ <<a, "cleanup">> \in StepKeys
  BY ElevenSteps DEF IInv, Basis, StepKeys
<1>. DEFINE next == NextStepAction(Book(a))
            failed == rows[<<a, "cleanup">>].status \in {"FAILED", "INCOMPLETE"}
<1>1. Book(a)["cleanup"].status = rows[<<a, "cleanup">>].status
  BY ElevenSteps DEF Book
<1>2. ASSUME failed, s = "cleanup" PROVE next.step = s
  BY <1>1, <1>2 DEF NextStepAction
<1>3. ASSUME failed, s # "cleanup" PROVE Cancelling(a)
  <2>1. Due(<<a, "cleanup">>)
    BY <1>3 DEF StepsAreDue, RowIsDue
  <2>2. ~Ready(<<a, "cleanup">>)
    BY <1>3, StepsBeforeCleanup DEF Ready
  <2>. QED
    BY <2>1, <2>2 DEF Due
<1>4. ASSUME ~failed PROVE next.step = s
  <2>1. ~SettledIn(Book(a), s)
    BY SettledBook
  <2>2. \A t \in StepsBefore(s) : SettledIn(Book(a), t)
    BY SettledBook DEF Ready, StepsBefore
  <2>3. next = [action |-> IF ShouldSkip(Book(a), s) THEN "skip" ELSE "run", step |-> s]
    BY <1>1, <1>4, <2>1, <2>2, NextStepIsFirst
  <2>. QED
    BY <2>3
<1>. HIDE DEF next, failed
<1>5. next.step = s \/ Cancelling(a)
  BY <1>2, <1>3, <1>4
<1>. QED
  BY <1>5 DEF next

\* Whatever handlers, redeliveries, retries and crashes did between the reading of the
\* records and the act, a step is only started or skipped when the plan says so of the
\* records as they are: in its order, skipped exactly when the gates close it, and of
\* an attempt that was retried only the cleanup. This is what the model of the cluster
\* takes for granted of the workflow.
THEOREM StepsAsPlanned == Spec => StepsFollowThePlan
<1>. DEFINE AsPlanned(k) ==
       Started(k) \/ Spared(k) =>
         /\ k[1] = run.attempt \/ k[2] = "cleanup"
         /\ Spared(k) <=> ShouldSkip(Book(k[1]), k[2])
         /\ \/ \A s \in Steps : StepIndex[s] < StepIndex[k[2]] => Guard!Settled(<<k[1], s>>)
            \/ k[2] = "cleanup" /\ Cancelling(k[1])
         /\ NextStepAction(Book(k[1])).step = k[2] \/ Cancelling(k[1])
<1>1. PlannedInv /\ [Next]_vars => [\A k \in StepKeys : AsPlanned(k)]_vars
  <2>. SUFFICES ASSUME PlannedInv, [Next]_vars, NEW a \in Attempts, NEW s \in Steps,
                       Started(<<a, s>>) \/ Spared(<<a, s>>)
                PROVE  /\ a = run.attempt \/ s = "cleanup"
                       /\ Spared(<<a, s>>) <=> ShouldSkip(Book(a), s)
                       /\ Ready(<<a, s>>) \/ (s = "cleanup" /\ Cancelling(a))
                       /\ NextStepAction(Book(a)).step = s \/ Cancelling(a)
    BY DEF Ready, StepsBefore, StepKeys
  <2>. <<a, s>> \in StepKeys
    BY DEF StepKeys
  <2>. /\ IInv /\ PastStepsAreSettled /\ LaterAttemptsAreBlank /\ StepsAreDue
       /\ \A h \in Handlers : GoesByTheGates(h)
       /\ handler \in [Handlers -> HandlerState] /\ run.attempt \in Nat /\ a \in Nat
    BY WorkflowAssumption DEF PlannedInv, WorldInv, IInv, Basis, TypeOK
  <2>1. ASSUME Started(<<a, s>>)
        PROVE  /\ ~Guard!Settled(<<a, s>>) /\ Due(<<a, s>>) /\ a <= run.attempt
               /\ ~ShouldSkip(Book(a), s)
    <3>1. PICK h \in Handlers : Begins(h, <<a, s>>)
      BY <2>1, StartedByOne
    <3>2. Key(h) = <<a, s>> /\ handler[h].at = "admit" /\ Job(h).attempt = a /\ Job(h).step = s
      BY <3>1 DEF Begins, At, Key
    <3>3. ~Guard!Settled(<<a, s>>)
      BY <3>1 DEF Begins
    <3>4. Due(<<a, s>>)
      BY <3>2 DEF StepsAreDue, GoesForDue
    <3>5. ~ShouldSkip(Book(a), s)
      BY <3>2, <3>3 DEF GoesByTheGates
    <3>. QED
      BY <3>2, <3>3, <3>4, <3>5 DEF LaterAttemptsAreBlank
  <2>2. ASSUME Spared(<<a, s>>)
        PROVE  /\ ~Guard!Settled(<<a, s>>) /\ Due(<<a, s>>) /\ a <= run.attempt
               /\ ShouldSkip(Book(a), s)
    <3>1. PICK h \in Handlers : Skips(h, <<a, s>>)
      BY <2>2, SparedByOne
    <3>2. At(h, "skip") /\ Job(h).attempt = a /\ handler[h].target = s
      BY <3>1 DEF Skips
    <3>3. ~Guard!Settled(<<a, s>>)
      BY <3>1 DEF Skips
    <3>4. Due(<<a, s>>)
      BY <3>2 DEF StepsAreDue, GoesForDue, Due
    <3>5. ShouldSkip(Book(a), s)
      BY <3>2, <3>3 DEF GoesByTheGates
    <3>. QED
      BY <3>2, <3>3, <3>4, <3>5 DEF LaterAttemptsAreBlank
  <2>3. ~Guard!Settled(<<a, s>>) /\ Due(<<a, s>>) /\ a <= run.attempt
    BY <2>1, <2>2
  <2>4. a = run.attempt \/ s = "cleanup"
    BY <2>3 DEF PastStepsAreSettled
  <2>5. Spared(<<a, s>>) <=> ShouldSkip(Book(a), s)
    BY <2>1, <2>2
  <2>6. NextStepAction(Book(a)).step = s \/ Cancelling(a)
    <3>1. Ready(<<a, s>>) \/ Cancelling(a)
      BY <2>3 DEF Due
    <3>. QED
      BY <2>3, <3>1, DueStepIsNext
  <2>. QED
    BY <2>3, <2>4, <2>5, <2>6 DEF Due
<1>. QED
  BY <1>1, PlannedInvHolds, PTL DEF Spec, StepsFollowThePlan

-----------------------------------------------------------------------------
\* Pipeline speaks of the same steps; what the records of an attempt owe to its executors.
LEMMA WalkTerms ==
    /\ Walk!Steps = Steps /\ Walk!Passed = Passed
  BY DEF Walk!Steps, Steps, Walk!WorkflowSteps, WorkflowSteps, Walk!Passed, Passed

LEMMA WalkPhases ==
    /\ \A rec : Walk!NextStepAction(rec) = NextStepAction(rec)
    /\ Walk!PhaseForStep = PhaseForStep /\ Walk!NoPhase = NoPhase
    /\ \A from, to, b : Walk!ValidTransition(from, to, b) <=> ValidTransition(from, to, b)
<1>1. Walk!WorkflowSteps = WorkflowSteps /\ Walk!Steps = Steps
  BY DEF Walk!WorkflowSteps, WorkflowSteps, Walk!Steps, Steps
<1>2. Walk!StepIndex = StepIndex
  BY <1>1 DEF Walk!StepIndex, StepIndex
<1>3. Walk!PhaseForStep = PhaseForStep /\ Walk!NoPhase = NoPhase
  BY <1>1 DEF Walk!PhaseForStep, PhaseForStep, Walk!NoPhase, NoPhase
<1>4. Walk!Transitions = Transitions
  BY DEF Walk!Transitions, Transitions, Walk!RunStatuses, RunStatuses, Walk!Verdicts, Verdicts
<1>5. \A from, to, b : Walk!ValidTransition(from, to, b) <=> ValidTransition(from, to, b)
  BY <1>4 DEF Walk!ValidTransition, ValidTransition
<1>6. \A step, status : Walk!SettledForRetry(step, status) <=> SettledForRetry(step, status)
  BY DEF Walk!SettledForRetry, SettledForRetry, Walk!TerminalStepStatuses, TerminalStepStatuses
<1>7. Walk!ApplicationGate = ApplicationGate
  BY <1>1 DEF Walk!ApplicationGate, ApplicationGate
<1>8. \A rec : Walk!HardFailureBeforeAssemble(rec) <=> HardFailureBeforeAssemble(rec)
  BY <1>1, <1>2
     DEF Walk!HardFailureBeforeAssemble, HardFailureBeforeAssemble, Walk!HardFailed, HardFailed
<1>9. \A rec, step : Walk!ShouldSkip(rec, step) <=> ShouldSkip(rec, step)
  BY <1>1, <1>7, <1>8 DEF Walk!ShouldSkip, ShouldSkip, Walk!AppFailure, AppFailure
<1>10. ASSUME NEW rec PROVE Walk!NextStepAction(rec) = NextStepAction(rec)
  <2>. DEFINE open == {s \in Steps : ~SettledForRetry(s, rec[s].status)}
              first == CHOOSE s \in open : \A t \in open : StepIndex[s] <= StepIndex[t]
              wopen == {s \in Walk!Steps : ~Walk!SettledForRetry(s, rec[s].status)}
              wfirst == CHOOSE s \in wopen : \A t \in wopen : Walk!StepIndex[s] <= Walk!StepIndex[t]
  <2>1. wopen = open
    BY <1>1, <1>6
  <2>2. wfirst = first
    <3>. HIDE DEF open, wopen
    <3>. QED
      BY <1>2, <2>1
  <2>3. /\ NextStepAction(rec) =
             IF rec["cleanup"].status \in {"FAILED", "INCOMPLETE"}
             THEN [action |-> "run", step |-> "cleanup"]
             ELSE IF open = {} THEN NoAction
             ELSE [action |-> IF ShouldSkip(rec, first) THEN "skip" ELSE "run", step |-> first]
        /\ Walk!NextStepAction(rec) =
             IF rec["cleanup"].status \in {"FAILED", "INCOMPLETE"}
             THEN [action |-> "run", step |-> "cleanup"]
             ELSE IF wopen = {} THEN Walk!NoAction
             ELSE [action |-> IF Walk!ShouldSkip(rec, wfirst) THEN "skip" ELSE "run", step |-> wfirst]
    BY DEF NextStepAction, Walk!NextStepAction
  <2>4. Walk!NoAction = NoAction
    BY DEF Walk!NoAction, NoAction
  <2>5. Walk!ShouldSkip(rec, first) <=> ShouldSkip(rec, first)
    BY <1>9
  <2>. HIDE DEF open, wopen, first, wfirst
  <2>. QED
    BY <2>1, <2>2, <2>3, <2>4, <2>5
<1>. QED
  BY <1>3, <1>5, <1>10

\* The records are what executors report for their steps, or the start of the scenario.
FromExecutor(k) ==
    rows[k].status \in {"PASSED", "FAILED", "INCOMPLETE"} =>
        [status |-> rows[k].status, kind |-> kinds[k]] \in scenario.results[k[2]] \union {Passed}

ResultsAreOfExecutors ==
    /\ \A k \in StepKeys : FromExecutor(k)
    /\ \A h \in Handlers : call[h].at = "persisting" =>
          handler[h].result \in scenario.results[Job(h).step]

\* What was skipped has a gate that is closed for it.
SkipsAreByTheGates ==
    \A a \in Attempts, s \in Steps :
        rows[<<a, s>>].status = "SKIPPED" => ShouldSkip(Book(a), s)

\* The steps that a preview needs have passed before it is begun.
Tested(a) == \A t \in {"detect", "test", "build"} : Book(a)[t] = Passed

PreviewsAreTested ==
    \A a \in Attempts : rows[<<a, "preview">>].status \notin {"ABSENT", "SKIPPED"} => Tested(a)

OutcomesInv ==
    PlannedInv /\ ResultsAreOfExecutors /\ SkipsAreByTheGates /\ PreviewsAreTested

\* A closed gate stays closed: the failures it looks at are settled.
LEMMA GatesStayClosed ==
    ASSUME IInv, [Next]_vars, NEW a \in Attempts, NEW s \in Steps, ShouldSkip(Book(a), s)
    PROVE  ShouldSkip(Book(a)', s)
<1>. TypeOK /\ G!OnlyRunningRowsAreHeld /\ HandlersKnowTheirCalls
  BY DEF IInv, Basis
<1>1. ASSUME NEW t \in Steps \ {"cleanup"}, Book(a)[t].status \in {"FAILED", "INCOMPLETE"}
      PROVE  Book(a)'[t] = Book(a)[t]
  <2>1. <<a, t>> \in StepKeys /\ rows[<<a, t>>].status \in {"FAILED", "INCOMPLETE"}
    BY <1>1 DEF Book, StepKeys
  <2>2. Guard!Settled(<<a, t>>)
    BY <1>1, <2>1, SettledMeans
  <2>. QED
    BY <2>1, <2>2, SettledStays DEF Book
<1>2. CASE \E gate \in Steps : Book(a)[gate] = AppFailure /\ s \in ApplicationGate[gate]
  <2>1. PICK gate \in Steps : Book(a)[gate] = AppFailure /\ s \in ApplicationGate[gate]
    BY <1>2
  <2>2. gate # "cleanup"
    BY <2>1, ElevenSteps DEF ApplicationGate
  <2>3. Book(a)'[gate] = AppFailure
    BY <1>1, <2>1, <2>2 DEF AppFailure
  <2>. QED
    BY <2>1, <2>3 DEF ShouldSkip
<1>3. CASE /\ s \notin {"assemble", "review", "report", "cleanup"}
           /\ HardFailureBeforeAssemble(Book(a))
  <2>1. PICK t \in Steps : /\ StepIndex[t] < StepIndex["assemble"]
                           /\ Book(a)[t].status = "INCOMPLETE" \/ Book(a)[t] = HardFailed
    BY <1>3 DEF HardFailureBeforeAssemble
  <2>2. t # "cleanup"
    BY <2>1, StepIndexes
  <2>3. Book(a)'[t] = Book(a)[t]
    BY <1>1, <2>1, <2>2 DEF HardFailed
  <2>. QED
    BY <1>3, <2>1, <2>3 DEF ShouldSkip, HardFailureBeforeAssemble
<1>4. CASE s = "review" /\ Book(a)["assemble"].status = "FAILED"
  <2>1. Book(a)'["assemble"] = Book(a)["assemble"]
    BY <1>1, <1>4, ElevenSteps
  <2>. QED
    BY <1>4, <2>1 DEF ShouldSkip
<1>. QED
  BY <1>2, <1>3, <1>4 DEF ShouldSkip

\* What a step that is skipped, or begun, has before it.
LEMMA SkippedByTheGates ==
    ASSUME PlannedInv, NEW h \in Handlers, NEW a \in Attempts, NEW s \in Steps, Skips(h, <<a, s>>)
    PROVE  ShouldSkip(Book(a), s)
  BY DEF Skips, PlannedInv, GoesByTheGates

LEMMA BegunByThePlan ==
    ASSUME PlannedInv, NEW h \in Handlers, NEW a \in Attempts, NEW s \in Steps,
           Begins(h, <<a, s>>), s # "cleanup"
    PROVE  Ready(<<a, s>>) /\ ~ShouldSkip(Book(a), s)
<1>1. Key(h) = <<a, s>> /\ handler[h].at = "admit" /\ Job(h).attempt = a /\ Job(h).step = s
        /\ ~Guard!Settled(<<a, s>>)
  BY DEF Begins, At, Key
<1>2. ~ShouldSkip(Book(a), s)
  BY <1>1 DEF PlannedInv, GoesByTheGates
<1>3. GoesForDue(h)
  BY DEF PlannedInv, WorldInv, IInv, StepsAreDue
<1>. QED
  BY <1>1, <1>2, <1>3 DEF GoesForDue, Due

\* A preview that the gates let through comes after tests and a build that passed.
LEMMA OpenGateMeansTested ==
    ASSUME TypeOK, RecordsAreResults, SkipsAreByTheGates, NEW a \in Attempts,
           Ready(<<a, "preview">>), ~ShouldSkip(Book(a), "preview")
    PROVE  Tested(a)
<1>1. {"detect", "test", "build"} \subseteq StepsBefore("preview")
  BY ElevenSteps, StepIndexes DEF StepsBefore
<1>2. ASSUME NEW t \in {"detect", "test", "build"}
      PROVE  /\ t \in Steps /\ t # "cleanup" /\ StepIndex[t] < StepIndex["assemble"]
             /\ "preview" \in ApplicationGate[t]
             /\ rows[<<a, t>>].status \in {"PASSED", "FAILED", "INCOMPLETE", "SKIPPED"}
             /\ Book(a)[t] = [status |-> rows[<<a, t>>].status, kind |-> kinds[<<a, t>>]]
  <2>1. t \in Steps /\ t # "cleanup" /\ StepIndex[t] < StepIndex["assemble"]
          /\ "preview" \in ApplicationGate[t]
    BY ElevenSteps, StepIndexes DEF ApplicationGate
  <2>2. Guard!Settled(<<a, t>>)
    BY <1>1 DEF Ready
  <2>. QED
    BY <2>1, <2>2, SettledMeans DEF Book
<1>3. ~HardFailureBeforeAssemble(Book(a))
  BY DEF ShouldSkip
<1>4. ASSUME NEW t \in {"detect", "test", "build"} PROVE Book(a)[t] # AppFailure
  BY <1>2 DEF ShouldSkip
<1>5. ASSUME NEW t \in {"detect", "test", "build"}, rows[<<a, t>>].status # "SKIPPED"
      PROVE  Book(a)[t] = Passed
  <2>1. rows[<<a, t>>].status \in {"PASSED", "FAILED", "INCOMPLETE"} /\ <<a, t>> \in StepKeys
    BY <1>2, <1>5 DEF StepKeys
  <2>2. Book(a)[t] \in StepResults
    BY <1>2, <2>1 DEF RecordsAreResults, RowIsResult
  <2>3. Book(a)[t] # HardFailed /\ Book(a)[t] # Incomplete
    BY <1>2, <1>3 DEF HardFailureBeforeAssemble, Incomplete
  <2>. QED
    BY <1>4, <2>2, <2>3 DEF StepResults
<1>6. ASSUME NEW t \in {"detect", "test", "build"}, rows[<<a, t>>].status = "SKIPPED" PROVE FALSE
  <2>1. ShouldSkip(Book(a), t)
    BY <1>2, <1>6 DEF SkipsAreByTheGates
  <2>2. PICK gate \in Steps : Book(a)[gate] = AppFailure /\ t \in ApplicationGate[gate]
    BY <1>3, <2>1 DEF ShouldSkip
  <2>3. gate \in {"detect", "test", "build"}
    BY <2>2, ElevenSteps DEF ApplicationGate
  <2>. QED
    BY <1>4, <2>2, <2>3
<1>. QED
  BY <1>5, <1>6 DEF Tested

\* Every step keeps it; the rows of older attempts stay as they are.
LEMMA SkipsStep ==
    ASSUME OutcomesInv, [Next]_vars
    PROVE  SkipsAreByTheGates'
<1>. IInv /\ TypeOK /\ G!OnlyRunningRowsAreHeld /\ HandlersKnowTheirCalls /\ SkipsAreByTheGates
       /\ handler \in [Handlers -> HandlerState] /\ PlannedInv
  BY DEF OutcomesInv, PlannedInv, WorldInv, IInv, Basis, TypeOK
<1>1. ASSUME NEW a \in Attempts, NEW s \in Steps, rows'[<<a, s>>].status = "SKIPPED"
      PROVE  ShouldSkip(Book(a)', s)
  <2>. <<a, s>> \in StepKeys
    BY DEF StepKeys
  <2>1. CASE rows[<<a, s>>].status = "SKIPPED"
    BY <2>1, GatesStayClosed DEF SkipsAreByTheGates
  <2>2. CASE rows[<<a, s>>].status # "SKIPPED"
    <3>1. Spared(<<a, s>>)
      BY <1>1, <2>2 DEF Spared
    <3>2. PICK h \in Handlers : Skips(h, <<a, s>>)
      BY <3>1, SparedByOne
    <3>. QED
      BY <3>2, SkippedByTheGates, GatesStayClosed
  <2>. QED
    BY <2>1, <2>2
<1>. QED
  BY <1>1 DEF SkipsAreByTheGates

LEMMA TestedStep ==
    ASSUME OutcomesInv, [Next]_vars
    PROVE  PreviewsAreTested'
<1>. /\ IInv /\ TypeOK /\ G!OnlyRunningRowsAreHeld /\ HandlersKnowTheirCalls
     /\ RecordsAreResults /\ SkipsAreByTheGates /\ PreviewsAreTested /\ PlannedInv
     /\ handler \in [Handlers -> HandlerState]
  BY DEF OutcomesInv, PlannedInv, WorldInv, IInv, Basis, TypeOK
<1>1. ASSUME NEW a \in Attempts, Tested(a) PROVE Tested(a)'
  <2>1. ASSUME NEW t \in {"detect", "test", "build"} PROVE Book(a)'[t] = Passed
    <3>1. t \in Steps /\ t # "cleanup" /\ <<a, t>> \in StepKeys
      BY ElevenSteps DEF StepKeys
    <3>2. rows[<<a, t>>].status = "PASSED"
      BY <1>1, <3>1 DEF Tested, Book, Passed
    <3>3. Guard!Settled(<<a, t>>)
      BY <3>1, <3>2, SettledMeans
    <3>4. Book(a)'[t] = Book(a)[t]
      BY <3>1, <3>3, SettledStays DEF Book
    <3>. QED
      BY <1>1, <3>4 DEF Tested
  <2>. QED
    BY <2>1 DEF Tested
<1>2. ASSUME NEW a \in Attempts, rows'[<<a, "preview">>].status \notin {"ABSENT", "SKIPPED"}
      PROVE  Tested(a)
  <2>. DEFINE k == <<a, "preview">>
  <2>. k \in StepKeys /\ "preview" \in Steps
    BY ElevenSteps DEF StepKeys
  <2>1. CASE SaysTheSame(k)
    BY <1>2, <2>1 DEF SaysTheSame, PreviewsAreTested
  <2>2. ASSUME NEW h \in Handlers, Begins(h, k) PROVE Tested(a)
    BY <2>2, BegunByThePlan, OpenGateMeansTested
  <2>3. ASSUME NEW h \in Handlers, Skips(h, k) PROVE Tested(a)
    BY <1>2, <2>3 DEF Skips
  <2>4. ASSUME NEW h \in Handlers, Records(h, k) \/ GivesBack(h, k) PROVE Tested(a)
    BY <2>4 DEF Records, GivesBack, PreviewsAreTested
  <2>. HIDE DEF k
  <2>. QED
    BY <2>1, <2>2, <2>3, <2>4, RowStep DEF RowMoves
<1>. QED
  BY <1>1, <1>2 DEF PreviewsAreTested

LEMMA ResultsComeStep ==
    ASSUME IInv, ResultsAreOfExecutors, [Next]_vars
    PROVE  ResultsAreOfExecutors'
<1>. TypeOK /\ G!OnlyRunningRowsAreHeld /\ HandlersKnowTheirCalls
  BY DEF IInv, Basis
<1>. /\ handler \in [Handlers -> HandlerState] /\ call \in [Handlers -> Guard!Call]
     /\ scenario' = scenario
  BY BoundsTyped DEF TypeOK, Guard!TypeOK
<1>1. ASSUME NEW k \in StepKeys PROVE FromExecutor(k)'
  <2>1. FromExecutor(k)
    BY DEF ResultsAreOfExecutors
  <2>2. CASE SaysTheSame(k)
    BY <2>1, <2>2 DEF SaysTheSame, FromExecutor
  <2>3. ASSUME NEW h \in Handlers, Records(h, k) PROVE FromExecutor(k)'
    <3>1. handler[h].result \in StepResults
      BY DEF HandlerState
    <3>2. [status |-> rows'[k].status, kind |-> kinds'[k]] = handler[h].result
      BY <2>3, <3>1 DEF Records, StepResults, Passed, AppFailure, HardFailed, Incomplete
    <3>3. handler[h].result \in scenario.results[k[2]]
      BY <2>3 DEF Records, ResultsAreOfExecutors, Key
    <3>. QED
      BY <3>2, <3>3 DEF FromExecutor
  <2>4. ASSUME NEW h \in Handlers, Begins(h, k) \/ Skips(h, k) \/ GivesBack(h, k)
        PROVE  FromExecutor(k)'
    BY <2>4 DEF Begins, Skips, GivesBack, FromExecutor
  <2>. QED
    BY RowStep, <2>2, <2>3, <2>4 DEF RowMoves
<1>2. ASSUME NEW g \in Handlers, call'[g].at = "persisting"
      PROVE  handler'[g].result \in scenario.results[handler'[g].job.step]
  <2>1. CASE Execute(g)
    <3>1. PICK r \in scenario.results[Job(g).step] : handler' = [handler EXCEPT ![g].result = r]
      BY <2>1 DEF Execute
    <3>2. handler'[g].result = r /\ handler'[g].job = handler[g].job
      BY <3>1 DEF HandlerState
    <3>. QED
      BY <3>1, <3>2 DEF Job
  <2>2. ASSUME call[g].at = "persisting", handler'[g].job = handler[g].job,
               handler'[g].result = handler[g].result
        PROVE  handler'[g].result \in scenario.results[handler'[g].job.step]
    BY <2>2 DEF ResultsAreOfExecutors, Job
  <2>3. CASE ~Execute(g)
    <3>1. KnowsItsCall(g)' /\ KnowsItsCall(g)
      BY CallsStep DEF HandlersKnowTheirCalls
    <3>2. handler'[g].at = "guard"
      BY <1>2, <3>1 DEF KnowsItsCall, At
    <3>3. CASE UNCHANGED handler[g] /\ UNCHANGED call[g].at
      BY <1>2, <2>2, <3>3
    <3>4. CASE Works(g)
      <4>1. Admit(g) \/ Persist(g)
        BY <2>3, <3>2, <3>4, Arrivals DEF ArrivesDuly
      <4>2. CASE Admit(g)
        <5>1. Guard!Admit(g, Key(g))
          BY <3>2, <4>2 DEF Admit, Goto, HandlerState
        <5>. QED
          BY <1>2, <5>1 DEF Guard!Admit, Guard!Leased
      <4>3. CASE Persist(g)
        <5>1. Guard!LeaseLost(g)
          BY <3>2, <4>3 DEF Persist, Goto, HandlerState
        <5>. QED
          BY <1>2, <5>1 DEF Guard!LeaseLost
      <4>. QED
        BY <4>1, <4>2, <4>3
    <3>5. CASE Crash(g)
      BY <3>2, <3>5 DEF Crash, IdleHandler
    <3>6. CASE Expire(g)
      BY <1>2, <2>2, <3>6 DEF Expire, guardVars, HandlerState
    <3>7. CASE Heartbeat(g)
      <4>1. call'[g] = call[g] \/ call'[g] = [call[g] EXCEPT !.lost = TRUE]
        BY <3>7 DEF Heartbeat, Guard!Heartbeat
      <4>. QED
        BY <1>2, <2>2, <3>7, <4>1 DEF Heartbeat, Guard!Call
    <3>8. CASE ~HandlerActions(g)
      BY <3>3, <3>8, OthersStandBy
    <3>. QED
      BY <2>3, <3>4, <3>5, <3>6, <3>7, <3>8 DEF HandlerActions
  <2>. QED
    BY <2>1, <2>3
<1>. QED
  BY <1>1, <1>2 DEF ResultsAreOfExecutors, Job

\* The steps a Run begins with behind it have passed.
LEMMA InitiallyFounded ==
    ASSUME Init, TypeOK
    PROVE  ResultsAreOfExecutors /\ SkipsAreByTheGates /\ PreviewsAreTested
<1>. DEFINE done == StepsBefore(scenario.first)
<1>1. scenario.first \in Steps
  BY WorkflowAssumption DEF Init
<1>2. ASSUME NEW a \in Attempts, NEW s \in Steps
      PROVE  /\ kinds[<<a, s>>] = "none"
             /\ rows[<<a, s>>].status = IF a = 1 /\ s \in done THEN "PASSED" ELSE "ABSENT"
             /\ Book(a)[s] = [status |-> rows[<<a, s>>].status, kind |-> "none"]
  BY DEF Init, StepKeys, Book
<1>3. ResultsAreOfExecutors
  <2>1. ASSUME NEW k \in StepKeys PROVE FromExecutor(k)
    <3>1. PICK a \in Attempts, s \in Steps : k = <<a, s>>
      BY DEF StepKeys
    <3>. QED
      BY <1>2, <3>1 DEF FromExecutor, Passed
  <2>2. \A h \in Handlers : call[h].at # "persisting"
    BY DEF Init
  <2>. QED
    BY <2>1, <2>2 DEF ResultsAreOfExecutors
<1>4. SkipsAreByTheGates
  BY <1>2 DEF SkipsAreByTheGates
<1>5. PreviewsAreTested
  <2>. SUFFICES ASSUME NEW a \in Attempts, rows[<<a, "preview">>].status \notin {"ABSENT", "SKIPPED"},
                       NEW t \in {"detect", "test", "build"}
                PROVE  Book(a)[t] = Passed
    BY DEF PreviewsAreTested, Tested
  <2>1. t \in Steps /\ "preview" \in Steps /\ StepIndex[t] < StepIndex["preview"]
    BY ElevenSteps, StepIndexes
  <2>2. a = 1 /\ "preview" \in done
    BY <1>2, <2>1
  <2>3. StepIndex["preview"] < StepIndex[scenario.first]
    BY <2>2 DEF StepsBefore
  <2>4. t \in done
    BY <1>1, <2>1, <2>3, StepIndexTyped DEF StepsBefore
  <2>. QED
    BY <1>2, <2>1, <2>2, <2>4 DEF Passed
<1>. QED
  BY <1>3, <1>4, <1>5

LEMMA OutcomesInvHolds == Spec => []OutcomesInv
<1>1. Init => ResultsAreOfExecutors /\ SkipsAreByTheGates /\ PreviewsAreTested
  BY InitiallyTyped, InitiallyFounded
<1>2. PlannedInv /\ ResultsAreOfExecutors /\ SkipsAreByTheGates /\ PreviewsAreTested /\ [Next]_vars
        => ResultsAreOfExecutors' /\ SkipsAreByTheGates' /\ PreviewsAreTested'
  <2>. SUFFICES ASSUME OutcomesInv, [Next]_vars
                PROVE  ResultsAreOfExecutors' /\ SkipsAreByTheGates' /\ PreviewsAreTested'
    BY DEF OutcomesInv
  <2>. QED
    BY ResultsComeStep, SkipsStep, TestedStep DEF OutcomesInv, PlannedInv, WorldInv
<1>3. OutcomesInv <=> PlannedInv /\ ResultsAreOfExecutors /\ SkipsAreByTheGates /\ PreviewsAreTested
  BY DEF OutcomesInv
<1>. QED
  BY <1>1, <1>2, <1>3, PlannedInvHolds, PTL DEF Spec

-----------------------------------------------------------------------------
\* Under concurrent handlers, redeliveries, crashes and retries too, a preview is only
\* ever deployed for a head whose profile was recognised and whose tests and build passed,
\* whatever the handler that deploys it had read.
THEOREM PreviewsOfTestedCode == Spec => []PreviewsAreOfTestedCode
<1>1. OutcomesInv => PreviewsAreOfTestedCode
  <2>. SUFFICES ASSUME OutcomesInv, Book(run.attempt)["preview"].status \in {"PASSED", "INCOMPLETE"},
                       NEW t \in {"detect", "test", "build"}
                PROVE  Book(run.attempt)[t] = Passed
    BY WalkTerms DEF PreviewsAreOfTestedCode, Walk!PreviewOnlyOfTestedCode
  <2>1. run.attempt \in Attempts
    BY DEF OutcomesInv, PlannedInv, WorldInv, IInv, Basis, TypeOK
  <2>2. rows[<<run.attempt, "preview">>].status \in {"PASSED", "INCOMPLETE"}
    BY ElevenSteps DEF Book
  <2>. QED
    BY <2>1, <2>2 DEF OutcomesInv, PreviewsAreTested, Tested
<1>. QED
  BY <1>1, OutcomesInvHolds, PTL

\* A Run passes only with every step passed, and is FAILED only with its input
\* assembled, its review done and its report made.
LEMMA OutcomesAreHonest == ASSUME OutcomesInv PROVE Walk!VerdictsAreHonest
<1>. DEFINE rec == Book(run.attempt)
<1>1. run.attempt \in Attempts /\ VerdictsFit /\ scenario \in Scenarios
  BY DEF OutcomesInv, PlannedInv, WorldInv, IInv, Basis, TypeOK
<1>2. run.status = "PASSED" => \A s \in Steps \ {"cleanup"} : rec[s] = Passed
  BY <1>1, StepsBeforeCleanup DEF VerdictsFit, Fits, Verdicts
<1>3. ASSUME run.status = "FAILED", NEW s \in {"assemble", "review", "report"}
      PROVE  rec[s] \in {Passed, AppFailure, Skipped} /\ s \in Steps /\ s # "cleanup"
  BY <1>1, <1>3, StepsBeforeCleanup, ElevenSteps DEF VerdictsFit, Fits, Verdicts
<1>4. ASSUME run.status = "FAILED", NEW s \in {"assemble", "review", "report"}
      PROVE  rec[s] # AppFailure
  <2>1. AppFailure \notin scenario.results[s]
    BY <1>1, AssemblingPasses, OnlySourceStepsFail DEF AppFailure, Passed
  <2>2. <<run.attempt, s>> \in StepKeys
    BY <1>1, <1>3, <1>4 DEF StepKeys
  <2>3. rec[s] = [status |-> rows[<<run.attempt, s>>].status, kind |-> kinds[<<run.attempt, s>>]]
    BY <1>3, <1>4 DEF Book
  <2>4. FromExecutor(<<run.attempt, s>>)
    BY <2>2 DEF OutcomesInv, ResultsAreOfExecutors
  <2>. QED
    BY <2>1, <2>3, <2>4 DEF FromExecutor, AppFailure, Passed
<1>5. ASSUME run.status = "FAILED", NEW s \in {"assemble", "review", "report"}
      PROVE  rec[s] # Skipped
  <2>1. rec["assemble"].status # "FAILED"
    BY <1>3, <1>4, <1>5 DEF Passed, AppFailure, Skipped
  <2>2. ~ShouldSkip(rec, s)
    <3>1. \A gate \in Steps : s \notin ApplicationGate[gate]
      BY ElevenSteps DEF ApplicationGate
    <3>. QED
      BY <2>1, <3>1 DEF ShouldSkip
  <2>3. rec[s].status = rows[<<run.attempt, s>>].status
    BY <1>3, <1>5 DEF Book
  <2>. QED
    BY <1>1, <1>3, <1>5, <2>2, <2>3 DEF OutcomesInv, SkipsAreByTheGates, Skipped
<1>. HIDE DEF rec
<1>6. run.status = "FAILED" => \A s \in {"assemble", "review", "report"} : rec[s] = Passed
  BY <1>3, <1>4, <1>5
<1>. QED
  BY <1>2, <1>6, WalkTerms DEF rec, Walk!VerdictsAreHonest

\* A verdict is given when every step before the cleanup has its result, PASSED and
\* FAILED only for the results that call for them: nothing that failed, was skipped or
\* stayed incomplete lets a Run pass, and what FAILED was reviewed. And none is given
\* without the agent's report, unless the Worker died holding it.
THEOREM VerdictsFounded == Spec => []VerdictsAreFounded
<1>1. OutcomesInv => VerdictsAreFounded
  <2>. SUFFICES ASSUME OutcomesInv PROVE VerdictsAreFounded
    OBVIOUS
  <2>. IInv
    BY DEF OutcomesInv, PlannedInv, WorldInv
  <2>. run.attempt \in Attempts /\ run.attempt \in Nat
    BY WorkflowAssumption DEF IInv, Basis, TypeOK
  <2>1. VerdictFollowsSteps
    BY StepsBeforeCleanup DEF IInv, VerdictsFit, VerdictFollowsSteps, Fits
  <2>2. VerdictHasItsReport
    BY DEF IInv, ReportsAreKept, SavesReport, VerdictHasItsReport
  <2>. QED
    BY <2>1, <2>2, OutcomesAreHonest DEF VerdictsAreFounded
<1>. QED
  BY <1>1, OutcomesInvHolds, PTL

-----------------------------------------------------------------------------
\* The fourth invariant: a Run is under way until it has its verdict or is cancelled, and
\* its phases follow each other, whatever handlers, faults and redeliveries there are.
Underway == CancellableStatuses

PhaseRank ==
    [p \in Underway |-> CASE p = "QUEUED"    -> 0
                          [] p = "PLANNING"  -> 1
                          [] p = "EXECUTING" -> 2
                          [] p = "ANALYZING" -> 3
                          [] p = "REPORTING" -> 4]

RankOf(s) == PhaseRank[PhaseForStep[s]]

ReportKey == <<run.attempt, "report">>

\* Five steps are never skipped.
Unskipped == {"detect", "assemble", "review", "report", "cleanup"}

SkipsAreSpare ==
    /\ \A k \in StepKeys : rows[k].status = "SKIPPED" => k[2] \notin Unskipped
    /\ \A h \in Handlers : At(h, "skip") => handler[h].target \notin Unskipped

\* The status of a Run keeps pace with its steps, and what a handler knows of it lags
\* behind only.
StatusKeepsPace ==
    run.status \in Underway =>
        \A s \in Steps \ {"cleanup"} :
            /\ rows[<<run.attempt, s>>].status \notin {"ABSENT", "SKIPPED"}
                 => RankOf(s) <= PhaseRank[run.status]
            /\ RankOf(s) < PhaseRank[run.status] => Guard!Settled(<<run.attempt, s>>)

HandlerKeepsPace(h) ==
    /\ handler[h].at \in {"list", "skip", "phase"}
         => /\ handler[h].snap \in Underway
            /\ PhaseRank[handler[h].snap] <= PhaseRank[run.status]
    /\ handler[h].at \in {"admit", "guard"} /\ Job(h).step # "cleanup"
         => RankOf(Job(h).step) <= PhaseRank[run.status]

HandlersKeepPace ==
    run.status \in Underway => \A h \in Handlers : Current(h) => HandlerKeepsPace(h)

\* A Run is made after its admission.
StatusIsInside == run.status # "RECEIVED"

\* Of a queued Run, and of one that was turned away, nothing is begun but the first step.
Idles == run.status \in {"QUEUED", "REJECTED_BY_CAPACITY"}

StaysIdle(h) ==
    /\ handler[h].at \in {"admit", "guard", "record"} => Job(h).step = "detect"
    /\ handler[h].at \notin {"setPending", "cleanup", "cancelList"}
    /\ handler[h].at \in {"list", "skip", "phase"}
         => handler[h].snap \in {"QUEUED", "REJECTED_BY_CAPACITY"}

RowsAreSpared ==
    \A s \in Steps \ {"detect"} : rows[<<run.attempt, s>>].status \in {"ABSENT", "SKIPPED"}

NothingToCleanUp ==
    run.cleanup \in {"NOT_SCHEDULED", "PENDING"} /\ (run.attempt = 1 => ~namespace)

HandlersStayIdle == \A h \in Handlers : Current(h) => StaysIdle(h)

LittleIsDone == Idles => RowsAreSpared /\ NothingToCleanUp /\ HandlersStayIdle

PaceInv ==
    /\ OutcomesInv /\ SkipsAreSpare /\ StatusIsInside
    /\ StatusKeepsPace /\ HandlersKeepPace /\ LittleIsDone

PacedStep == PaceInv /\ [Next]_vars

LEMMA PacedFacts ==
    ASSUME PacedStep
    PROVE  /\ TypeOK /\ [Next]_vars /\ IInv /\ Basis /\ WorldInv /\ PlannedInv /\ OutcomesInv
           /\ G!OnlyRunningRowsAreHeld /\ HandlersKnowTheirCalls
           /\ StepsAreDue /\ LaterAttemptsAreBlank
           /\ CleanupsAreRecorded
           /\ SkipsAreSpare /\ StatusIsInside /\ StatusKeepsPace /\ HandlersKeepPace
           /\ LittleIsDone
  BY DEF PacedStep, PaceInv, OutcomesInv, PlannedInv, WorldInv, IInv, Basis

\* No executor lets the assembling of the review's input fail.
LEMMA AssembleNeverFails ==
    ASSUME OutcomesInv, NEW a \in Attempts
    PROVE  rows[<<a, "assemble">>].status # "FAILED"
<1>1. <<a, "assemble">> \in StepKeys
  BY ElevenSteps DEF StepKeys
<1>2. FromExecutor(<<a, "assemble">>) /\ scenario \in Scenarios
  BY <1>1 DEF OutcomesInv, ResultsAreOfExecutors, PlannedInv, WorldInv, IInv, Basis, TypeOK
<1>. QED
  BY <1>2, AssemblingPasses DEF FromExecutor, Passed

-----------------------------------------------------------------------------
\* What the plan says of skips and phases.
LEMMA SkipsAreGated ==
    ASSUME NEW rec, NextStepAction(rec).action = "skip"
    PROVE  ShouldSkip(rec, NextStepAction(rec).step)
  BY DEF NextStepAction, NoAction

LEMMA NotSkipped ==
    ASSUME NEW rec, NEW s \in Steps, ShouldSkip(rec, s), rec["assemble"].status # "FAILED"
    PROVE  /\ s \notin {"assemble", "review", "report", "cleanup"}
           /\ s = "detect" => HardFailureBeforeAssemble(rec)
  BY ElevenSteps DEF ShouldSkip, ApplicationGate

LEMMA Phases ==
    /\ \A s \in {"detect", "fetch"} : PhaseForStep[s] = "PLANNING"
    /\ \A s \in {"analyze", "test", "build", "preview", "health"} : PhaseForStep[s] = "EXECUTING"
    /\ PhaseForStep["assemble"] = "ANALYZING"
    /\ \A s \in {"review", "report"} : PhaseForStep[s] = "REPORTING"
    /\ PhaseForStep["cleanup"] = NoPhase
  BY ElevenSteps DEF PhaseForStep

LEMMA Ranks ==
    /\ PhaseRank["QUEUED"] = 0 /\ PhaseRank["PLANNING"] = 1 /\ PhaseRank["EXECUTING"] = 2
    /\ PhaseRank["ANALYZING"] = 3 /\ PhaseRank["REPORTING"] = 4
    /\ Underway = {"QUEUED", "PLANNING", "EXECUTING", "ANALYZING", "REPORTING"}
  BY DEF PhaseRank, Underway, CancellableStatuses

LEMMA StepRanks ==
    /\ RankOf("detect") = 1 /\ RankOf("fetch") = 1
    /\ \A s \in {"analyze", "test", "build", "preview", "health"} : RankOf(s) = 2
    /\ RankOf("assemble") = 3 /\ RankOf("review") = 4 /\ RankOf("report") = 4
  BY Phases, Ranks DEF RankOf

\* The steps before the cleanup have a phase, and its rank is a number.
LEMMA RanksAreNumbers ==
    /\ \A p \in Underway : PhaseRank[p] \in Nat
    /\ \A s \in Steps \ {"cleanup"} : /\ PhaseForStep[s] \in Underway /\ PhaseForStep[s] # NoPhase
                                      /\ RankOf(s) \in Nat /\ RankOf(s) > 0
<1>1. \A p \in Underway : PhaseRank[p] \in Nat
  BY Ranks
<1>2. \A s \in Steps \ {"cleanup"} : PhaseForStep[s] \in Underway /\ PhaseForStep[s] # NoPhase
  BY Phases, Ranks, ElevenSteps DEF NoPhase
<1>3. \A s \in Steps \ {"cleanup"} : RankOf(s) \in Nat /\ RankOf(s) > 0
  BY StepRanks, ElevenSteps
<1>. QED
  BY <1>1, <1>2, <1>3

\* A step of an earlier phase is an earlier step.
LEMMA PhasesAscend ==
    ASSUME NEW s \in Steps \ {"cleanup"}, NEW t \in Steps \ {"cleanup"}, RankOf(s) < RankOf(t)
    PROVE  s \in StepsBefore(t)
  BY StepRanks, StepIndexes, ElevenSteps DEF StepsBefore

\* A Run whose status keeps pace may enter the phase of a step that is due and open.
LEMMA MayEnter ==
    ASSUME TypeOK, StatusKeepsPace, SkipsAreSpare, run.status \in Underway,
           NEW s \in Steps \ {"cleanup"}, Ready(<<run.attempt, s>>),
           ~Guard!Settled(<<run.attempt, s>>)
    PROVE  PhaseForStep[s] = run.status
              \/ ValidTransition(run.status, PhaseForStep[s], run.cleanup = "CLEANED")
<1>. run.attempt \in Attempts /\ \A t \in Steps : <<run.attempt, t>> \in StepKeys
  BY DEF TypeOK, StepKeys
<1>1. ASSUME NEW t \in Unskipped \ {"cleanup"}, t \in StepsBefore(s)
      PROVE  RankOf(t) <= PhaseRank[run.status]
  <2>1. t \in Steps /\ t # "cleanup"
    BY ElevenSteps DEF Unskipped
  <2>2. Guard!Settled(<<run.attempt, t>>)
    BY <1>1 DEF Ready
  <2>3. rows[<<run.attempt, t>>].status # "ABSENT"
    BY <2>1, <2>2, SettledMeans
  <2>4. rows[<<run.attempt, t>>].status # "SKIPPED"
    BY <1>1, <2>1 DEF SkipsAreSpare
  <2>. QED
    BY <2>1, <2>3, <2>4 DEF StatusKeepsPace
<1>2. ~(RankOf(s) < PhaseRank[run.status])
  BY DEF StatusKeepsPace
<1>3. s # "detect" => 1 <= PhaseRank[run.status]
  <2>1. s # "detect" => "detect" \in StepsBefore(s)
    BY ElevenSteps, StepIndexes DEF StepsBefore
  <2>. QED
    BY <1>1, <2>1, StepRanks DEF Unskipped
<1>4. s \in {"review", "report"} => 3 <= PhaseRank[run.status]
  <2>1. s \in {"review", "report"} => "assemble" \in StepsBefore(s)
    BY ElevenSteps, StepIndexes DEF StepsBefore
  <2>. QED
    BY <1>1, <2>1, StepRanks DEF Unskipped
<1>5. /\ Transitions["QUEUED"] = {"PLANNING", "CANCEL_REQUESTED"}
      /\ Transitions["PLANNING"] = {"EXECUTING", "ANALYZING", "INCOMPLETE", "CANCEL_REQUESTED"}
      /\ Transitions["EXECUTING"] = {"ANALYZING", "INCOMPLETE", "CANCEL_REQUESTED"}
      /\ Transitions["ANALYZING"] = {"REPORTING", "INCOMPLETE", "CANCEL_REQUESTED"}
  BY DEF Transitions, RunStatuses
<1>6. CASE s \in {"detect", "fetch"}
  BY <1>2, <1>3, <1>5, <1>6, Phases, Ranks, StepRanks DEF ValidTransition
<1>7. CASE s \in {"analyze", "test", "build", "preview", "health"}
  BY <1>2, <1>3, <1>5, <1>7, Phases, Ranks, StepRanks DEF ValidTransition
<1>8. CASE s = "assemble"
  BY <1>2, <1>3, <1>5, <1>8, Phases, Ranks, StepRanks DEF ValidTransition
<1>9. CASE s \in {"review", "report"}
  BY <1>2, <1>4, <1>5, <1>9, Phases, Ranks, StepRanks DEF ValidTransition
<1>. QED
  BY <1>6, <1>7, <1>8, <1>9, ElevenSteps

LEMMA StateTypes ==
    ASSUME TypeOK
    PROVE  /\ handler \in [Handlers -> HandlerState] /\ call \in [Handlers -> Guard!Call]
           /\ rows \in [StepKeys -> Guard!Row] /\ kinds \in [StepKeys -> FailureKinds]
           /\ run \in [status : RunStatuses, attempt : Attempts, cleanup : CleanupStatuses]
           /\ outbox \in [Attempts \X {"detect", "cleanup"} -> OutboxRow]
           /\ IsABag(jobs) /\ BagToSet(jobs) \subseteq Jobs
           /\ run.attempt \in Nat \ {0} /\ ReportKey \in StepKeys /\ CleanupKey \in StepKeys
           /\ \A h \in Handlers : /\ Job(h) \in Jobs /\ Key(h) \in StepKeys
                                  /\ Job(h).attempt \in Attempts /\ Job(h).step \in Steps
<1>1. run.attempt \in Nat \ {0}
  BY WorkflowAssumption DEF TypeOK
<1>2. ReportKey \in StepKeys /\ CleanupKey \in StepKeys
  BY ElevenSteps DEF TypeOK, ReportKey, CleanupKey, StepKeys
<1>3. \A h \in Handlers : Job(h) \in Jobs /\ Key(h) \in StepKeys
  BY KeyTyped DEF TypeOK, HandlerState, Job
<1>. QED
  BY <1>1, <1>2, <1>3 DEF TypeOK, Guard!TypeOK, OutboxRow, Jobs

-----------------------------------------------------------------------------
\* What happens to the Run.
LEMMA Paces ==
    ASSUME NEW from \in RunStatuses, NEW to \in Underway, to \in Transitions[from], from # "RECEIVED"
    PROVE  from \in Underway /\ PhaseRank[from] < PhaseRank[to]
<1>1. \A p \in RunStatuses \ (Underway \union {"RECEIVED"}) : Transitions[p] \intersect Underway = {}
  BY Ranks DEF Transitions, RunStatuses, Verdicts
<1>2. /\ Transitions["QUEUED"] = {"PLANNING", "CANCEL_REQUESTED"}
      /\ Transitions["PLANNING"] = {"EXECUTING", "ANALYZING", "INCOMPLETE", "CANCEL_REQUESTED"}
      /\ Transitions["EXECUTING"] = {"ANALYZING", "INCOMPLETE", "CANCEL_REQUESTED"}
      /\ Transitions["ANALYZING"] = {"REPORTING", "INCOMPLETE", "CANCEL_REQUESTED"}
      /\ Transitions["REPORTING"] = Verdicts
  BY DEF Transitions, RunStatuses
<1>3. from \in Underway
  BY <1>1
<1>. QED
  BY <1>2, <1>3, Ranks DEF Verdicts

LEMMA RunKeeps ==
    ASSUME PacedStep, run'.attempt = run.attempt
    PROVE  /\ run'.status \in Underway =>
                run.status \in Underway /\ PhaseRank[run.status] <= PhaseRank[run'.status]
           /\ run'.cleanup = "NOT_SCHEDULED" => run.cleanup = "NOT_SCHEDULED"
           /\ run'.status = "CANCEL_REQUESTED" => run.status \in Underway \union {"CANCEL_REQUESTED"}
           /\ Idles' => Idles
<1>. TypeOK /\ [Next]_vars /\ run.status # "RECEIVED"
  BY PacedFacts DEF StatusIsInside
<1>. run \in [status : RunStatuses, attempt : Attempts, cleanup : CleanupStatuses]
  BY DEF TypeOK
<1>. DEFINE Kept ==
       /\ run'.status \in Underway =>
            run.status \in Underway /\ PhaseRank[run.status] <= PhaseRank[run'.status]
       /\ run'.cleanup = "NOT_SCHEDULED" => run.cleanup = "NOT_SCHEDULED"
       /\ run'.status = "CANCEL_REQUESTED" => run.status \in Underway \union {"CANCEL_REQUESTED"}
       /\ Idles' => Idles
<1>0. \A p \in Underway : PhaseRank[p] \in Nat
  BY Ranks
<1>1. ASSUME NEW h \in Handlers, NEW to, Goes(h, to), to # "CANCEL_REQUESTED" PROVE Kept
  <2>1. to \in Transitions[run.status] /\ run' = [run EXCEPT !.status = to]
    BY <1>1 DEF Goes, MayMove, ValidTransition
  <2>2. to \in Underway => run.status \in Underway /\ PhaseRank[run.status] < PhaseRank[to]
    BY <2>1, Paces
  <2>3. to \in {"QUEUED", "REJECTED_BY_CAPACITY"} => run.status = "RECEIVED"
    BY <2>1 DEF Transitions, RunStatuses, Verdicts
  <2>. QED
    BY <1>0, <1>1, <2>1, <2>2, <2>3 DEF Idles
<1>2. ASSUME NEW h \in Handlers, Advances(h) PROVE Kept
  <2>1. PhaseForStep[Job(h).step] # "CANCEL_REQUESTED"
    BY Phases, StateTypes, ElevenSteps DEF NoPhase
  <2>. QED
    BY <1>1, <1>2, <2>1 DEF Advances
<1>3. ASSUME NEW h \in Handlers, SetsPending(h) \/ RecordsCleanup(h) PROVE Kept
  BY <1>0, <1>3 DEF SetsPending, RecordsCleanup, Idles
<1>4. ASSUME NEW h \in Handlers, GivesVerdict(h) \/ Confirms(h) PROVE Kept
  <2>1. handler[h].verdict # "CANCEL_REQUESTED"
    BY StateTypes DEF HandlerState, Verdicts
  <2>. QED
    BY <1>1, <1>4, <2>1 DEF GivesVerdict, Confirms
<1>5. IsCancelled => Kept
  BY Ranks DEF IsCancelled, Underway, Idles
<1>6. ~IsRetried
  BY StateTypes DEF IsRetried
<1>7. UNCHANGED run => Kept
  BY <1>0 DEF Idles
<1>8. IsTurnedAway => Kept
  BY Ranks DEF IsTurnedAway, Idles
<1>. HIDE DEF Kept
<1>9. Kept
  BY RunStep, <1>2, <1>3, <1>4, <1>5, <1>6, <1>7, <1>8 DEF RunMoves
<1>. QED
  BY <1>9 DEF Kept

\* A Run that has been turned away stays so.
LEMMA StaysAway == ASSUME PacedStep, TurnedAway PROVE TurnedAway'
<1>. TypeOK /\ [Next]_vars
     /\ run \in [status : RunStatuses, attempt : Attempts, cleanup : CleanupStatuses]
  BY PacedFacts, StateTypes
<1>1. Transitions["REJECTED_BY_CAPACITY"] = {}
  BY DEF Transitions, RunStatuses, Verdicts
<1>2. ASSUME NEW h \in Handlers, NEW to PROVE ~Goes(h, to)
  BY <1>1 DEF Goes, MayMove, ValidTransition, TurnedAway
<1>3. ASSUME NEW h \in Handlers, SetsPending(h) \/ RecordsCleanup(h) PROVE TurnedAway'
  BY <1>3 DEF SetsPending, RecordsCleanup, TurnedAway
<1>4. ~IsCancelled /\ ~IsTurnedAway /\ ~IsRetried
  BY DEF IsCancelled, IsTurnedAway, IsRetried, CancellableStatuses, CanRetry, TurnedAway
<1>5. UNCHANGED run => TurnedAway'
  BY DEF TurnedAway
<1>. QED
  BY RunStep, <1>2, <1>3, <1>4, <1>5 DEF RunMoves, Advances, GivesVerdict, Confirms

\* What a retry leaves behind is of earlier attempts.
LEMMA AfterRetry ==
    ASSUME PacedStep, run'.attempt # run.attempt
    PROVE  /\ IsRetried /\ run'.status = "QUEUED" /\ run'.cleanup = "NOT_SCHEDULED"
           /\ run'.attempt > run.attempt /\ UNCHANGED <<rows, handler>>
           /\ \A h \in Handlers : Job(h).attempt # run'.attempt
           /\ \A job \in BagToSet(jobs) : job.attempt # run'.attempt
           /\ \A s \in Steps : rows'[<<run'.attempt, s>>].status = "ABSENT"
<1>. TypeOK /\ [Next]_vars /\ LaterAttemptsAreBlank
  BY PacedFacts
<1>1. IsRetried /\ run'.attempt = run.attempt + 1 /\ run.attempt \in Nat
  BY AttemptGrows
<1>2. run'.attempt > run.attempt /\ run'.attempt \in Attempts
  BY <1>1, RunTyped
<1>3. run'.status = "QUEUED" /\ run'.cleanup = "NOT_SCHEDULED"
  BY <1>1 DEF IsRetried
<1>4. UNCHANGED rows
  BY <1>2, RunStep
<1>5. UNCHANGED handler
  <2>1. ASSUME NEW h \in Handlers, HandlerActions(h) PROVE run'.attempt = run.attempt
    BY <2>1, StateTypes
       DEF HandlerActions, Works, Receive, Redirect, List, Skip, Phase, SetPending, Admit, Execute,
           Persist, RecordStep, Finalize, Verdict, FinalizeCleanup, Confirm, Dispatch, CancelList,
           Complete, Fail, Heartbeat, Crash, Expire, Move, StoredAs
  <2>. QED
    BY <2>1, NextCases, <1>2
       DEF Publish, PublishUnmarked, LeaseExpires, Cancel, Retry, Sweep, vars
<1>6. \A h \in Handlers : Job(h).attempt # run'.attempt
  BY <1>1, <1>2 DEF LaterAttemptsAreBlank
<1>7. \A job \in BagToSet(jobs) : job.attempt # run'.attempt
  BY <1>1, <1>2 DEF LaterAttemptsAreBlank
<1>8. ASSUME NEW s \in Steps PROVE rows'[<<run'.attempt, s>>].status = "ABSENT"
  <2>1. <<run'.attempt, s>> \in StepKeys
    BY <1>2 DEF StepKeys
  <2>. QED
    BY <1>2, <1>4, <2>1 DEF LaterAttemptsAreBlank
<1>. QED
  BY <1>1, <1>2, <1>3, <1>4, <1>5, <1>6, <1>7, <1>8

\* A handler of the current attempt was one before.
LEMMA StaysCurrent ==
    ASSUME PacedStep, NEW h \in Handlers, handler'[h].job = handler[h].job, Current(h)'
    PROVE  run'.attempt = run.attempt /\ Current(h)
<1>1. Job(h)' = Job(h)
  BY DEF Job
<1>. QED
  BY <1>1, AfterRetry DEF Current, Job

\* A handler works, or it is abandoned, or its job expires.
HandlerMoves(g) ==
    \/ UNCHANGED handler[g] \/ Works(g)
    \/ handler'[g] = IdleHandler
    \/ handler'[g] = [handler[g] EXCEPT !.owned = FALSE]

LEMMA HandlersMove == ASSUME TypeOK, [Next]_vars, NEW g \in Handlers PROVE HandlerMoves(g)
  BY HandlerStep DEF HandlerMoves, TypeOK, Crash, Expire

\* The plan for the attempt of a handler, and what the handler makes of it.
Planned(h) == NextStepAction(Book(Job(h).attempt))

LEMMA Lists ==
    ASSUME PacedStep, NEW g \in Handlers, List(g)
    PROVE  /\ UNCHANGED <<run, rows, jobs, outbox>> /\ At(g, "list")
           /\ handler'[g].job = handler[g].job /\ handler'[g].snap = handler[g].snap
           /\ handler'[g].at \in {"done", "skip", "phase", "next", "failed"}
           /\ handler'[g].at = "done" => Planned(g).action = "none"
           /\ handler'[g].at = "skip" => Planned(g).action = "skip" /\ handler'[g].target = Planned(g).step
           /\ handler'[g].at = "phase" => Planned(g).action = "run" /\ Planned(g).step = Job(g).step
           /\ handler'[g].at = "failed" => /\ Planned(g).action = "run" /\ Planned(g).step # Job(g).step
                                           /\ rows[Key(g)].status \notin TerminalStepStatuses
<1>. TypeOK /\ handler \in [Handlers -> HandlerState] /\ Job(g).step \in Steps
  BY PacedFacts, StateTypes
<1>. DEFINE next == Planned(g)
            rec == Book(Job(g).attempt)
            place == AfterListing(g, rec, next)
<1>1. /\ UNCHANGED <<run, rows, jobs, outbox>> /\ At(g, "list")
      /\ handler'[g] = [handler[g] EXCEPT !.at = place,
                                          !.target = IF next.action = "skip" THEN next.step ELSE "detect"]
  BY DEF List, guardVars, Planned
<1>2. next.action \in {"none", "run", "skip"}
  BY NextStepIsDue DEF Planned
<1>3. rec[Job(g).step].status = rows[Key(g)].status
  BY DEF Book, Key
<1>. HIDE DEF next, rec
<1>4. CASE next.action = "none"
  <2>1. place = "done"
    BY <1>4 DEF AfterListing
  <2>. QED
    BY <1>1, <1>4, <2>1 DEF HandlerState, next
<1>5. CASE next.action = "skip"
  <2>1. place = "skip"
    BY <1>5 DEF AfterListing
  <2>. QED
    BY <1>1, <1>5, <2>1 DEF HandlerState, next
<1>6. CASE next.action = "run"
  <2>1. /\ place \in {"phase", "next", "failed"}
        /\ place = "phase" => next.step = Job(g).step
        /\ place = "failed" => next.step # Job(g).step
                               /\ rec[Job(g).step].status \notin TerminalStepStatuses
    BY <1>6 DEF AfterListing
  <2>. HIDE DEF place
  <2>. QED
    BY <1>1, <1>3, <1>6, <2>1 DEF HandlerState, next
<1>. QED
  BY <1>2, <1>4, <1>5, <1>6

-----------------------------------------------------------------------------
\* The plan skips none of the five.
LEMMA PlansToSkip ==
    ASSUME PacedStep, NEW a \in Attempts, NextStepAction(Book(a)).action = "skip"
    PROVE  NextStepAction(Book(a)).step \notin Unskipped
<1>. TypeOK /\ StepsAreDue /\ SkipsAreSpare /\ "assemble" \in Steps /\ "detect" \in Steps
  BY PacedFacts, ElevenSteps
<1>. DEFINE rec == Book(a)
            s == NextStepAction(rec).step
<1>1. ShouldSkip(rec, s) /\ s \in Steps
  BY SkipsAreGated, NextStepTyped
<1>2. rec["assemble"].status # "FAILED"
  BY PacedFacts, AssembleNeverFails DEF Book
<1>3. /\ s \notin {"assemble", "review", "report", "cleanup"}
      /\ s = "detect" => HardFailureBeforeAssemble(rec)
  <2>. HIDE DEF rec, s
  <2>. QED
    BY <1>1, <1>2, NotSkipped
<1>4. ~SettledIn(rec, s)
  <2>. HIDE DEF rec
  <2>. QED
    BY NextStepIsOpen DEF rec
<1>5. ASSUME s = "detect" PROVE FALSE
  <2>1. PICK t \in Steps : /\ StepIndex[t] < StepIndex["assemble"]
                           /\ rec[t].status = "INCOMPLETE" \/ rec[t] = HardFailed
    BY <1>3, <1>5 DEF HardFailureBeforeAssemble
  <2>2. <<a, t>> \in StepKeys /\ rows[<<a, t>>].status \in {"FAILED", "INCOMPLETE"}
    BY <2>1 DEF Book, HardFailed, StepKeys
  <2>3. t # "cleanup"
    BY <2>1, StepIndexes
  <2>4. Guard!Settled(<<a, t>>)
    BY <2>2, <2>3, SettledMeans
  <2>5. t # "detect"
    BY <1>4, <1>5, <2>4, SettledBook
  <2>6. Ready(<<a, t>>)
    BY <2>2, <2>3 DEF StepsAreDue, RowIsDue, Due
  <2>7. "detect" \in StepsBefore(t)
    BY <2>5, ElevenSteps, StepIndexes DEF StepsBefore
  <2>. QED
    BY <1>4, <1>5, <2>6, <2>7, SettledBook DEF Ready
<1>. QED
  BY <1>3, <1>5 DEF Unskipped

LEMMA SparesStep == ASSUME PacedStep PROVE SkipsAreSpare'
<1>. TypeOK /\ [Next]_vars /\ SkipsAreSpare /\ HandlersKnowTheirCalls
  BY PacedFacts
<1>. handler \in [Handlers -> HandlerState]
  BY StateTypes
<1>0. \A r \in StepResults : r.status \in {"PASSED", "FAILED", "INCOMPLETE"}
  BY DEF StepResults, Passed, AppFailure, HardFailed, Incomplete
<1>1. ASSUME NEW k \in StepKeys, rows'[k].status = "SKIPPED" PROVE k[2] \notin Unskipped
  <2>1. CASE SaysTheSame(k)
    BY <1>1, <2>1 DEF SaysTheSame, SkipsAreSpare
  <2>2. ASSUME NEW h \in Handlers, Skips(h, k) PROVE k[2] \notin Unskipped
    BY <2>2 DEF Skips, SkipsAreSpare
  <2>3. ASSUME NEW h \in Handlers PROVE ~Begins(h, k) /\ ~Records(h, k) /\ ~GivesBack(h, k)
    BY <1>0, <1>1 DEF Begins, Records, GivesBack, HandlerState
  <2>. QED
    BY PacedFacts, RowStep, <2>1, <2>2, <2>3 DEF RowMoves
<1>2. ASSUME NEW g \in Handlers, handler'[g].at = "skip" PROVE handler'[g].target \notin Unskipped
  <2>1. CASE handler[g].at = "skip" /\ handler'[g].target = handler[g].target
    BY <2>1 DEF SkipsAreSpare, At
  <2>2. CASE Works(g)
    <3>1. List(g)
      BY <1>2, <2>2, Arrivals DEF ArrivesDuly
    <3>. QED
      BY <1>2, <3>1, Lists, PlansToSkip, StateTypes DEF Planned
  <2>3. handler'[g] # IdleHandler
    BY <1>2 DEF IdleHandler
  <2>. QED
    BY <1>2, <2>1, <2>2, <2>3, HandlersMove DEF HandlerMoves, HandlerState
<1>. QED
  BY <1>1, <1>2 DEF SkipsAreSpare, At

\* A Run enters a phase by the handler of one of its steps.
LEMMA EntersPhase ==
    ASSUME PacedStep, run'.attempt = run.attempt, run'.status \in Underway, run'.status # run.status
    PROVE  \E h \in Handlers : Advances(h) /\ run'.status = PhaseForStep[Job(h).step]
<1>. TypeOK /\ [Next]_vars /\ run \in [status : RunStatuses, attempt : Attempts, cleanup : CleanupStatuses]
  BY PacedFacts, StateTypes
<1>1. ASSUME NEW h \in Handlers, NEW to, Goes(h, to) PROVE run'.status = to
  BY <1>1 DEF Goes
<1>2. ASSUME NEW h \in Handlers PROVE ~SetsPending(h) /\ ~RecordsCleanup(h)
  BY DEF SetsPending, RecordsCleanup
<1>3. ASSUME NEW h \in Handlers PROVE ~GivesVerdict(h) /\ ~Confirms(h)
  BY <1>1, StateTypes, Ranks DEF GivesVerdict, Confirms, HandlerState, Verdicts
<1>4. ~IsCancelled /\ ~IsTurnedAway /\ ~IsRetried
  <2>1. run.attempt \in Nat
    BY StateTypes
  <2>2. ~IsCancelled /\ ~IsTurnedAway
    BY Ranks DEF IsCancelled, IsTurnedAway
  <2>. QED
    BY <2>1, <2>2 DEF IsRetried
<1>5. \E h \in Handlers : Advances(h)
  BY RunStep, <1>2, <1>3, <1>4 DEF RunMoves
<1>. QED
  BY <1>1, <1>5 DEF Advances

LEMMA InsideStep == ASSUME PacedStep PROVE StatusIsInside'
<1>. TypeOK /\ [Next]_vars /\ StatusIsInside /\ handler \in [Handlers -> HandlerState]
     /\ run \in [status : RunStatuses, attempt : Attempts, cleanup : CleanupStatuses]
  BY PacedFacts, StateTypes
<1>1. ASSUME NEW h \in Handlers, NEW to \in RunStatuses \ {"RECEIVED"}, Goes(h, to)
      PROVE  StatusIsInside'
  BY <1>1 DEF Goes, StatusIsInside
<1>2. ASSUME NEW h \in Handlers, Advances(h) PROVE StatusIsInside'
  <2>1. PhaseForStep[Job(h).step] \in {"PLANNING", "EXECUTING", "ANALYZING", "REPORTING"}
    BY <1>2, StateTypes, Phases, ElevenSteps DEF Advances
  <2>. QED
    BY <1>1, <1>2, <2>1 DEF Advances, RunStatuses
<1>3. ASSUME NEW h \in Handlers, GivesVerdict(h) \/ Confirms(h) PROVE StatusIsInside'
  <2>1. handler[h].verdict \in Verdicts
    BY DEF HandlerState
  <2>. QED
    BY <1>1, <1>3, <2>1 DEF GivesVerdict, Confirms, Verdicts, RunStatuses
<1>4. ASSUME NEW h \in Handlers, SetsPending(h) \/ RecordsCleanup(h) PROVE StatusIsInside'
  BY <1>4 DEF SetsPending, RecordsCleanup, StatusIsInside
<1>5. IsCancelled => StatusIsInside'
  BY DEF IsCancelled, StatusIsInside
<1>6. IsRetried => StatusIsInside'
  BY DEF IsRetried, StatusIsInside
<1>7. UNCHANGED run => StatusIsInside'
  BY DEF StatusIsInside
<1>8. IsTurnedAway => StatusIsInside'
  BY DEF IsTurnedAway, StatusIsInside
<1>. QED
  BY RunStep, <1>2, <1>3, <1>4, <1>5, <1>6, <1>7, <1>8 DEF RunMoves

LEMMA PaceStep == ASSUME PacedStep PROVE StatusKeepsPace'
<1>. TypeOK /\ [Next]_vars /\ StatusKeepsPace /\ HandlersKeepPace /\ StepsAreDue
  BY PacedFacts
<1>. SUFFICES ASSUME run'.status \in Underway, NEW s \in Steps \ {"cleanup"}
              PROVE  /\ rows'[<<run'.attempt, s>>].status \notin {"ABSENT", "SKIPPED"}
                          => RankOf(s) <= PhaseRank[run'.status]
                     /\ RankOf(s) < PhaseRank[run'.status] => Guard!Settled(<<run.attempt, s>>)'
  BY DEF StatusKeepsPace
<1>1. CASE run'.attempt # run.attempt
  <2>1. run'.status = "QUEUED" /\ rows'[<<run'.attempt, s>>].status = "ABSENT"
    BY <1>1, AfterRetry
  <2>2. ~(RankOf(s) < PhaseRank[run'.status])
    BY <2>1, Ranks, RanksAreNumbers
  <2>. QED
    BY <2>1, <2>2
<1>2. CASE run'.attempt = run.attempt
  <2>1. PICK k \in StepKeys : k = <<run.attempt, s>>
    BY StateTypes DEF StepKeys
  <2>2. run.status \in Underway /\ PhaseRank[run.status] <= PhaseRank[run'.status]
    BY <1>2, RunKeeps
  <2>3. /\ rows[k].status \notin {"ABSENT", "SKIPPED"} => RankOf(s) <= PhaseRank[run.status]
        /\ RankOf(s) < PhaseRank[run.status] => Guard!Settled(k)
    BY <2>1, <2>2 DEF StatusKeepsPace
  <2>4. ASSUME rows'[k].status \notin {"ABSENT", "SKIPPED"} PROVE RankOf(s) <= PhaseRank[run.status]
    <3>1. CASE SaysTheSame(k)
      BY <2>3, <2>4, <3>1 DEF SaysTheSame
    <3>2. ASSUME NEW h \in Handlers, Begins(h, k) \/ Records(h, k) PROVE RankOf(s) <= PhaseRank[run.status]
      <4>1. handler[h].at \in {"admit", "guard"} /\ Key(h) = k
        BY <3>2 DEF Begins, Records, At
      <4>2. Current(h) /\ Job(h).step = s
        BY <2>1, <4>1 DEF Key, Current
      <4>3. HandlerKeepsPace(h)
        BY <2>2, <4>2 DEF HandlersKeepPace
      <4>. QED
        BY <4>1, <4>2, <4>3 DEF HandlerKeepsPace
    <3>3. ASSUME NEW h \in Handlers, GivesBack(h, k) PROVE RankOf(s) <= PhaseRank[run.status]
      BY <2>3, <3>3 DEF GivesBack
    <3>4. ASSUME NEW h \in Handlers PROVE ~Skips(h, k)
      BY <2>4 DEF Skips
    <3>. QED
      BY PacedFacts, RowStep, <3>1, <3>2, <3>3, <3>4 DEF RowMoves
  <2>5. ASSUME RankOf(s) < PhaseRank[run'.status] PROVE Guard!Settled(k)'
    <3>1. CASE run'.status = run.status
      BY <2>3, <2>5, <3>1, PacedFacts, SettledStays
    <3>2. CASE run'.status # run.status
      <4>1. PICK h \in Handlers : Advances(h) /\ run'.status = PhaseForStep[Job(h).step]
        BY <1>2, <3>2, EntersPhase
      <4>2. Job(h).step \in Steps \ {"cleanup"} /\ Current(h) /\ At(h, "phase")
        BY <4>1, StateTypes, Phases DEF Advances, Goes, MayMove
      <4>3. RankOf(s) < RankOf(Job(h).step)
        BY <2>5, <4>1 DEF RankOf
      <4>4. s \in StepsBefore(Job(h).step)
        BY <4>2, <4>3, PhasesAscend
      <4>5. Ready(Key(h))
        BY <4>2 DEF StepsAreDue, GoesForDue, Due, Key, At
      <4>6. Guard!Settled(k)
        BY <2>1, <4>2, <4>4, <4>5 DEF Ready, Key, Current
      <4>. QED
        BY <4>6, PacedFacts, SettledStays
    <3>. QED
      BY <3>1, <3>2
  <2>6. RankOf(s) \in Nat /\ PhaseRank[run.status] \in Nat /\ PhaseRank[run'.status] \in Nat
    BY <2>2, RanksAreNumbers
  <2>7. rows'[k].status \notin {"ABSENT", "SKIPPED"} => RankOf(s) <= PhaseRank[run'.status]
    BY <2>2, <2>4, <2>6
  <2>. QED
    BY <1>2, <2>1, <2>5, <2>7
<1>. QED
  BY <1>1, <1>2

LEMMA HandlersPaceStep == ASSUME PacedStep PROVE HandlersKeepPace'
<1>. TypeOK /\ [Next]_vars /\ HandlersKeepPace
  BY PacedFacts
<1>. handler \in [Handlers -> HandlerState]
  BY StateTypes
<1>. SUFFICES ASSUME run'.status \in Underway, NEW g \in Handlers, Current(g)'
              PROVE  HandlerKeepsPace(g)'
  BY DEF HandlersKeepPace
<1>. DEFINE to == handler'[g].at
            Keeping == /\ to \in {"list", "skip", "phase"} =>
                            /\ handler'[g].snap \in Underway
                            /\ PhaseRank[handler'[g].snap] <= PhaseRank[run'.status]
                       /\ to \in {"admit", "guard"} /\ handler'[g].job.step # "cleanup" =>
                            RankOf(handler'[g].job.step) <= PhaseRank[run'.status]
<1>0. Keeping => HandlerKeepsPace(g)'
  BY DEF HandlerKeepsPace, Job
<1>1. CASE Receive(g)
  <2>1. PICK job : /\ handler'[g] = [IdleHandler EXCEPT !.at = Opening(job), !.job = job,
                                                        !.owned = TRUE, !.snap = run.status]
                   /\ UNCHANGED run
    BY <1>1 DEF Receive
  <2>2. /\ handler'[g].at \in {"done", "list", "cancelList", "redirect"}
        /\ handler'[g].snap = run.status
    BY <2>1 DEF IdleHandler, Opening
  <2>. QED
    BY <1>0, <2>1, <2>2, RanksAreNumbers
<1>2. CASE handler'[g] = IdleHandler
  BY <1>0, <1>2 DEF IdleHandler
<1>3. CASE handler'[g].job = handler[g].job /\ ~Receive(g)
  <2>1. /\ run'.attempt = run.attempt /\ Current(g) /\ HandlerKeepsPace(g)
        /\ run.status \in Underway /\ PhaseRank[run.status] <= PhaseRank[run'.status]
    BY <1>3, StaysCurrent, RunKeeps DEF HandlersKeepPace
  <2>2. PhaseRank[run.status] \in Nat /\ PhaseRank[run'.status] \in Nat
    BY <2>1, RanksAreNumbers
  <2>3. ASSUME handler'[g].snap = handler[g].snap, handler[g].at \in {"list", "skip", "phase"}
        PROVE  /\ handler'[g].snap \in Underway
               /\ PhaseRank[handler'[g].snap] <= PhaseRank[run'.status]
    <3>1. handler[g].snap \in Underway /\ PhaseRank[handler[g].snap] <= PhaseRank[run.status]
      BY <2>1, <2>3 DEF HandlerKeepsPace
    <3>2. PhaseRank[handler[g].snap] \in Nat
      BY <3>1, RanksAreNumbers
    <3>. QED
      BY <2>1, <2>2, <2>3, <3>1, <3>2
  <2>4. ASSUME handler[g].at \in {"admit", "guard"}, Job(g).step # "cleanup"
        PROVE  RankOf(Job(g).step) <= PhaseRank[run'.status]
    <3>1. RankOf(Job(g).step) <= PhaseRank[run.status] /\ RankOf(Job(g).step) \in Nat
      BY <2>1, <2>4, StateTypes, RanksAreNumbers DEF HandlerKeepsPace
    <3>. QED
      BY <2>1, <2>2, <3>1
  <2>5. CASE UNCHANGED handler[g] \/ handler'[g] = [handler[g] EXCEPT !.owned = FALSE]
    <3>1. /\ handler'[g].at = handler[g].at /\ handler'[g].snap = handler[g].snap
          /\ handler'[g].job = handler[g].job
      BY <2>5 DEF HandlerState
    <3>. QED
      BY <1>0, <2>3, <2>4, <3>1 DEF Job
  <2>6. CASE Works(g)
    <3>1. ArrivesDuly(g)
      BY <2>6, Arrivals
    <3>2. CASE to = "list"
      <4>1. At(g, "skip") /\ handler'[g].snap = handler[g].snap
        BY <1>3, <3>1, <3>2 DEF ArrivesDuly, Skip, Goto, HandlerState
      <4>. QED
        BY <1>0, <2>3, <3>2, <4>1 DEF At
    <3>3. CASE to \in {"skip", "phase"}
      <4>0. List(g)
        BY <3>1, <3>3 DEF ArrivesDuly
      <4>1. At(g, "list") /\ handler'[g].snap = handler[g].snap
        BY <4>0, Lists DEF HandlerState
      <4>. QED
        BY <1>0, <2>3, <3>3, <4>1 DEF At
    <3>4. CASE to = "guard"
      <4>1. handler[g].at \in {"admit", "guard"}
        BY <3>1, <3>4 DEF ArrivesDuly, Admit, Execute, Persist, At
      <4>. QED
        BY <1>0, <1>3, <2>4, <3>4, <4>1 DEF Job
    <3>5. CASE to = "admit" /\ Phase(g) /\ Job(g).step # "cleanup"
      <4>. DEFINE target == PhaseForStep[Job(g).step]
      <4>1. Job(g).step \in Steps \ {"cleanup"} /\ target # NoPhase /\ target \in Underway
        BY <3>5, StateTypes, RanksAreNumbers
      <4>2. \/ target = handler[g].snap /\ UNCHANGED run
            \/ Goes(g, target)
        <5>1. ~IsTurnedAway
          BY StateTypes, Ranks DEF IsTurnedAway
        <5>. QED
          BY <3>5, <4>1, <5>1, Stores DEF Phase, Goto, HandlerState
      <4>3. PhaseRank[target] <= PhaseRank[run'.status]
        <5>1. CASE target = handler[g].snap /\ UNCHANGED run
          BY <2>1, <3>5, <5>1 DEF HandlerKeepsPace, Phase, At
        <5>2. CASE Goes(g, target)
          <6>1. run'.status = target
            BY <5>2, StateTypes DEF Goes
          <6>. QED
            BY <2>2, <6>1
        <5>. QED
          BY <4>2, <5>1, <5>2
      <4>. QED
        BY <1>0, <1>3, <3>5, <4>3 DEF RankOf, Job
    <3>6. to = "admit" /\ Job(g).step # "cleanup" => Phase(g)
      <4>1. GoesByTheGates(g)
        BY PacedFacts DEF PlannedInv
      <4>. QED
        BY <3>1, <4>1 DEF ArrivesDuly, SetPending, GoesByTheGates
    <3>. QED
      BY <1>0, <1>3, <3>2, <3>3, <3>4, <3>5, <3>6 DEF Job
  <2>7. CASE handler'[g] = IdleHandler
    BY <1>2, <2>7
  <2>. QED
    BY <2>5, <2>6, <2>7, HandlersMove DEF HandlerMoves
<1>4. Receive(g) \/ handler'[g] = IdleHandler \/ handler'[g].job = handler[g].job
  BY HandlersMove, Arrivals DEF HandlerMoves, ArrivesDuly, HandlerState
<1>. QED
  BY <1>1, <1>2, <1>3, <1>4

-----------------------------------------------------------------------------
\* Of a queued Run no step is due but the first, and the cleanup of an idle one is not.
LEMMA OnlyTheFirstIsReady ==
    ASSUME PacedStep, Idles, NEW s \in Steps, Due(<<run.attempt, s>>),
           run.status = "QUEUED" \/ s = "cleanup"
    PROVE  s = "detect"
<1>. TypeOK /\ SkipsAreSpare /\ StatusKeepsPace /\ RowsAreSpared
  BY PacedFacts DEF LittleIsDone
<1>. run.attempt \in Attempts /\ \A t \in Steps : <<run.attempt, t>> \in StepKeys
  BY StateTypes DEF StepKeys
<1>1. Ready(<<run.attempt, s>>)
  BY DEF Due, Cancelling, Idles
<1>2. ASSUME s = "cleanup" PROVE FALSE
  <2>1. "assemble" \in Steps \ {"detect"} /\ "assemble" \in StepsBefore("cleanup")
    BY ElevenSteps, StepsBeforeCleanup
  <2>2. Guard!Settled(<<run.attempt, "assemble">>)
    BY <1>1, <1>2, <2>1 DEF Ready
  <2>3. rows[<<run.attempt, "assemble">>].status \in {"ABSENT", "SKIPPED"}
    BY <2>1 DEF RowsAreSpared
  <2>4. rows[<<run.attempt, "assemble">>].status # "SKIPPED"
    BY <2>1 DEF SkipsAreSpare, Unskipped
  <2>. QED
    BY <2>1, <2>2, <2>3, <2>4, SettledMeans
<1>3. ASSUME run.status = "QUEUED", s # "detect" PROVE FALSE
  <2>1. "detect" \in Steps \ {"cleanup"} /\ "detect" \in StepsBefore(s)
    BY <1>3, ElevenSteps, StepIndexes DEF StepsBefore
  <2>2. Guard!Settled(<<run.attempt, "detect">>)
    BY <1>1, <2>1 DEF Ready
  <2>3. rows[<<run.attempt, "detect">>].status # "ABSENT"
    BY <2>1, <2>2, SettledMeans
  <2>4. rows[<<run.attempt, "detect">>].status # "SKIPPED"
    BY <2>1 DEF SkipsAreSpare, Unskipped
  <2>5. RankOf("detect") <= PhaseRank[run.status]
    BY <1>3, <2>1, <2>3, <2>4, Ranks DEF StatusKeepsPace
  <2>. QED
    BY <1>3, <2>5, StepRanks, Ranks
<1>. QED
  BY <1>2, <1>3

\* The rows of the other steps stay as they are, or are skipped.
LEMMA SparedStep ==
    ASSUME PacedStep, Idles, run'.attempt = run.attempt
    PROVE  RowsAreSpared'
<1>. TypeOK /\ RowsAreSpared /\ HandlersStayIdle /\ G!OnlyRunningRowsAreHeld
     /\ HandlersKnowTheirCalls /\ [Next]_vars
  BY PacedFacts DEF LittleIsDone
<1>. SUFFICES ASSUME NEW s \in Steps \ {"detect"}
              PROVE  rows'[<<run.attempt, s>>].status \in {"ABSENT", "SKIPPED"}
  BY DEF RowsAreSpared
<1>1. PICK k \in StepKeys : k = <<run.attempt, s>>
  BY StateTypes DEF StepKeys
<1>2. rows[k].status \in {"ABSENT", "SKIPPED"}
  BY <1>1 DEF RowsAreSpared
<1>3. ASSUME NEW h \in Handlers PROVE ~Begins(h, k) /\ ~Records(h, k) /\ ~GivesBack(h, k)
  <2>1. Key(h) = k => Current(h) /\ Job(h).step # "detect"
    BY <1>1 DEF Key, Current
  <2>. QED
    BY <2>1 DEF Begins, Records, GivesBack, HandlersStayIdle, StaysIdle, At
<1>4. SaysTheSame(k) \/ \E h \in Handlers : Skips(h, k)
  BY <1>3, RowStep DEF RowMoves
<1>. QED
  BY <1>1, <1>2, <1>4 DEF SaysTheSame, Skips

\* Nor does its cleanup come to anything, and a first attempt has no namespace.
LEMMA NothingStep ==
    ASSUME PacedStep, Idles, run'.attempt = run.attempt, Idles'
    PROVE  NothingToCleanUp'
<1>. TypeOK /\ NothingToCleanUp /\ HandlersStayIdle /\ LaterAttemptsAreBlank /\ [Next]_vars
     /\ run \in [status : RunStatuses, attempt : Attempts, cleanup : CleanupStatuses]
  BY PacedFacts, StateTypes DEF LittleIsDone
<1>1. run'.cleanup \in {run.cleanup, "PENDING"}
  <2>1. ASSUME NEW h \in Handlers PROVE ~SetsPending(h) /\ ~RecordsCleanup(h)
    BY DEF SetsPending, RecordsCleanup, HandlersStayIdle, StaysIdle, At
  <2>2. ASSUME NEW h \in Handlers, Advances(h) \/ GivesVerdict(h) \/ Confirms(h)
        PROVE  run'.cleanup = run.cleanup
    BY <2>2 DEF Advances, GivesVerdict, Confirms, Goes
  <2>3. ~IsCancelled
    BY DEF IsCancelled, Idles
  <2>4. ~IsRetried
    BY StateTypes DEF IsRetried
  <2>5. IsTurnedAway => run'.cleanup \in {run.cleanup, "PENDING"}
    BY DEF IsTurnedAway
  <2>. QED
    BY RunStep, <2>1, <2>2, <2>3, <2>4, <2>5 DEF RunMoves
<1>2. ASSUME run.attempt = 1 PROVE ~namespace'
  <2>1. ~namespace
    BY <1>2 DEF NothingToCleanUp
  <2>2. ASSUME NEW h \in Handlers, Execute(h) PROVE ~namespace'
    <3>1. Current(h)
      <4>1. Job(h).attempt \in Nat \ {0}
        BY StateTypes, WorkflowAssumption
      <4>2. Job(h).attempt <= 1
        BY <1>2 DEF LaterAttemptsAreBlank
      <4>. QED
        BY <1>2, <4>1, <4>2 DEF Current
    <3>2. Job(h).step = "detect"
      BY <2>2, <3>1 DEF Execute, At, HandlersStayIdle, StaysIdle
    <3>. QED
      BY <2>1, <2>2, <3>2 DEF Execute, NamespaceAfter, NamespaceSteps
  <2>3. ASSUME NEW h \in Handlers, HandlerActions(h), ~Execute(h) PROVE UNCHANGED namespace
    BY <2>3
       DEF HandlerActions, Works, Receive, Redirect, List, Skip, Phase, SetPending, Admit, Persist,
           RecordStep, Finalize, Verdict, FinalizeCleanup, Confirm, Dispatch, CancelList,
           Complete, Fail, Heartbeat, Crash, Expire, worldVars
  <2>. QED
    BY <2>1, <2>2, <2>3, NextCases
       DEF Publish, PublishUnmarked, LeaseExpires, Cancel, Retry, Sweep, vars, worldVars
<1>. QED
  BY <1>1, <1>2 DEF NothingToCleanUp

\* A handler of an idle Run that moves on is at its first step, or at none.
LEMMA IdleWorks ==
    ASSUME PacedStep, Idles, Idles', run'.attempt = run.attempt, NEW g \in Handlers, Works(g),
           ~Receive(g), Current(g), StaysIdle(g)
    PROVE  StaysIdle(g)'
<1>. TypeOK /\ [Next]_vars /\ handler \in [Handlers -> HandlerState] /\ ArrivesDuly(g)
     /\ Job(g).step \in Steps /\ Key(g) = <<run.attempt, Job(g).step>>
     /\ StepsAreDue /\ CleanupsAreRecorded
  BY PacedFacts, StateTypes, Arrivals DEF Key, Current
<1>. DEFINE to == handler'[g].at
            snap == handler'[g].snap
<1>1. CASE to = "idle"
  BY <1>1 DEF StaysIdle
<1>2. CASE to # "idle"
  <2>0. handler'[g].job = handler[g].job
    BY <1>2 DEF ArrivesDuly
  <2>1. to \in {"list", "skip", "phase"} => snap \in {"QUEUED", "REJECTED_BY_CAPACITY"}
    <3>1. to = "list" => At(g, "skip") /\ snap = handler[g].snap
      BY DEF ArrivesDuly, Skip, Goto, HandlerState
    <3>2. to \in {"skip", "phase"} => At(g, "list") /\ snap = handler[g].snap
      BY Lists DEF ArrivesDuly
    <3>. QED
      BY <3>1, <3>2 DEF StaysIdle, At
  <2>2. ASSUME to \in {"admit", "setPending"}, Phase(g) PROVE to = "admit" /\ Job(g).step = "detect"
    <3>. DEFINE target == PhaseForStep[Job(g).step]
    <3>1. Due(<<run.attempt, Job(g).step>>) /\ At(g, "phase")
      BY <2>2 DEF Phase, StepsAreDue, GoesForDue, At
    <3>2. Job(g).step # "cleanup"
      BY <3>1, OnlyTheFirstIsReady, ElevenSteps
    <3>3. target \in {"PLANNING", "EXECUTING", "ANALYZING", "REPORTING"} /\ target # NoPhase
      BY <3>2, Phases, ElevenSteps DEF NoPhase
    <3>4. handler[g].snap # target
      BY <3>1, <3>3 DEF StaysIdle, At
    <3>5. to = "admit" /\ MayMove(g, target)
      <4>. HIDE DEF target
      <4>. QED
        BY <2>2, <3>3, <3>4 DEF Phase, Goto, HandlerState, Move, target
    <3>6. run.status = "QUEUED"
      <4>1. Transitions["REJECTED_BY_CAPACITY"] = {}
        BY DEF Transitions, RunStatuses, Verdicts
      <4>. QED
        BY <3>5, <4>1 DEF MayMove, ValidTransition, Idles
    <3>. QED
      BY <3>1, <3>5, <3>6, OnlyTheFirstIsReady
  <2>3. to \in {"admit", "guard", "record"} => Job(g).step = "detect"
    <3>1. to = "admit" => Phase(g)
      BY DEF ArrivesDuly, SetPending, StaysIdle, At
    <3>2. to \in {"guard", "record"} => handler[g].at \in {"admit", "guard"}
      BY DEF ArrivesDuly, Admit, Execute, Persist, At
    <3>. QED
      BY <2>2, <3>1, <3>2 DEF StaysIdle
  <2>4. to # "setPending"
    <3>1. to = "setPending" => Phase(g)
      BY DEF ArrivesDuly, CancelList, StaysIdle, At
    <3>. QED
      BY <2>2, <3>1
  <2>5. to # "cleanup"
    <3>1. ASSUME RecordStep(g) PROVE Job(g).step = "detect" /\ handler[g].path # "cancel"
      <4>1. Job(g).step = "detect"
        BY <3>1 DEF RecordStep, At, StaysIdle
      <4>. QED
        BY <4>1 DEF CleanupsAreRecorded, CleanupIsRecorded
    <3>2. RecordStep(g) => to \in {"failed", "refresh"}
      BY <3>1 DEF RecordStep, Goto, HandlerState, AfterRecording
    <3>. QED
      BY <3>2 DEF ArrivesDuly
  <2>6. to # "cancelList"
    BY DEF ArrivesDuly
  <2>. QED
    BY <2>0, <2>1, <2>3, <2>4, <2>5, <2>6 DEF StaysIdle, Job
<1>. QED
  BY <1>1, <1>2

LEMMA LittleStep == ASSUME PacedStep PROVE LittleIsDone'
<1>. TypeOK /\ [Next]_vars /\ LittleIsDone /\ handler \in [Handlers -> HandlerState]
  BY PacedFacts, StateTypes
<1>. SUFFICES ASSUME Idles' PROVE (RowsAreSpared /\ NothingToCleanUp /\ HandlersStayIdle)'
  BY DEF LittleIsDone
<1>1. CASE run'.attempt # run.attempt
  <2>1. RowsAreSpared'
    BY <1>1, AfterRetry DEF RowsAreSpared
  <2>2. NothingToCleanUp'
    <3>1. run'.attempt # 1
      BY <1>1, AfterRetry, StateTypes
    <3>. QED
      BY <1>1, <3>1, AfterRetry DEF NothingToCleanUp
  <2>3. HandlersStayIdle'
    BY <1>1, AfterRetry DEF HandlersStayIdle, Current, Job
  <2>. QED
    BY <2>1, <2>2, <2>3
<1>2. CASE run'.attempt = run.attempt
  <2>0. Idles /\ HandlersStayIdle
    BY <1>2, RunKeeps DEF LittleIsDone
  <2>1. ASSUME NEW g \in Handlers, Current(g)' PROVE StaysIdle(g)'
    <3>1. CASE Receive(g)
      <4>1. PICK job : /\ handler'[g] = [IdleHandler EXCEPT !.at = Opening(job), !.job = job,
                                                            !.owned = TRUE, !.snap = run.status]
                       /\ UNCHANGED run
        BY <3>1 DEF Receive
      <4>2. /\ handler'[g].at \in {"done", "list"}
            /\ handler'[g].snap = run.status
        BY <2>0, <4>1 DEF IdleHandler, Opening, Idles
      <4>. QED
        BY <2>0, <4>2 DEF StaysIdle, Idles
    <3>2. CASE handler'[g] = IdleHandler
      BY <3>2 DEF StaysIdle, IdleHandler
    <3>3. CASE handler'[g].job = handler[g].job /\ ~Receive(g)
      <4>1. Current(g) /\ StaysIdle(g)
        BY <2>0, <2>1, <3>3, StaysCurrent DEF HandlersStayIdle
      <4>2. CASE Works(g)
        BY <1>2, <2>0, <3>3, <4>1, <4>2, IdleWorks
      <4>3. CASE UNCHANGED handler[g] \/ handler'[g] = [handler[g] EXCEPT !.owned = FALSE]
        <5>1. /\ handler'[g].at = handler[g].at /\ handler'[g].snap = handler[g].snap
              /\ handler'[g].job = handler[g].job
          BY <4>3 DEF HandlerState
        <5>. QED
          BY <4>1, <5>1 DEF StaysIdle, Job
      <4>. QED
        BY <3>2, <4>2, <4>3, HandlersMove DEF HandlerMoves
    <3>4. Receive(g) \/ handler'[g] = IdleHandler \/ handler'[g].job = handler[g].job
      BY HandlersMove, Arrivals DEF HandlerMoves, ArrivesDuly, HandlerState
    <3>. QED
      BY <3>1, <3>2, <3>3, <3>4
  <2>. QED
    BY <1>2, <2>0, <2>1, SparedStep, NothingStep DEF HandlersStayIdle
<1>. QED
  BY <1>1, <1>2

-----------------------------------------------------------------------------
\* The fourth invariant holds from the start.
LEMMA InitialPhase ==
    ASSUME Init, TypeOK
    PROVE  LET done == StepsBefore(scenario.first) IN
           /\ scenario.first \in Steps \ {"cleanup"} /\ run.attempt = 1
           /\ done = {} => run.status = "QUEUED"
           /\ done # {} => \E p \in Steps \ {"cleanup"} :
                              /\ run.status = PhaseForStep[p]
                              /\ StepIndex[p] = StepIndex[scenario.first] - 1
<1>. DEFINE done == StepsBefore(scenario.first)
            before == WorkflowSteps[StepIndex[scenario.first] - 1]
<1>1. scenario.first \in Steps \ {"cleanup"}
  BY WorkflowAssumption DEF Init
<1>2. done # {} => /\ before \in Steps \ {"cleanup"}
                   /\ StepIndex[before] = StepIndex[scenario.first] - 1
  BY <1>1, ElevenSteps, StepIndexes DEF WorkflowSteps, StepsBefore
<1>3. /\ run.attempt = 1
      /\ done = {} => run.status = "QUEUED"
      /\ done # {} => run.status = PhaseForStep[before]
  BY DEF Init
<1>. HIDE DEF before
<1>. QED
  BY <1>1, <1>2, <1>3

\* What is there in the beginning.
LEMMA InTheBeginning ==
    ASSUME Init, TypeOK
    PROVE  /\ run.attempt = 1 /\ run.cleanup = "NOT_SCHEDULED" /\ run.status \in Underway
           /\ \A h \in Handlers : handler[h] = IdleHandler /\ call[h].at = "idle" /\ ~call[h].lost
           /\ \A s \in Steps : rows[<<1, s>>].status
                = IF s \in StepsBefore(scenario.first) THEN "PASSED" ELSE "ABSENT"
           /\ \A k \in StepKeys : rows[k].status \in {"PASSED", "ABSENT"}
           /\ \A job \in BagToSet(jobs) : job = JobFor(1, scenario.first)
           /\ \A k \in DOMAIN outbox : outbox[k].status = "PENDING" => k = <<1, "detect">>
           /\ rows[CleanupKey].status = "ABSENT" /\ rows[ReportKey].status = "ABSENT"
<1>. DEFINE done == StepsBefore(scenario.first)
<1>1. scenario.first \in Steps \ {"cleanup"} /\ run.attempt = 1 /\ run.status \in Underway
  <2>1. \A p \in Steps \ {"cleanup"} : PhaseForStep[p] \in Underway
    BY RanksAreNumbers
  <2>. QED
    BY <2>1, InitialPhase, Ranks
<1>2. ASSUME NEW k \in StepKeys
      PROVE  rows[k].status = IF k[1] = 1 /\ k[2] \in done THEN "PASSED" ELSE "ABSENT"
  BY DEF Init
<1>3. ASSUME NEW s \in Steps PROVE rows[<<1, s>>].status = IF s \in done THEN "PASSED" ELSE "ABSENT"
  <2>1. <<1, s>> \in StepKeys
    BY WorkflowAssumption DEF StepKeys
  <2>. QED
    BY <1>2, <2>1
<1>4. "cleanup" \in Steps \ done /\ "report" \in Steps \ done
  BY <1>1, ElevenSteps, StepIndexes DEF StepsBefore
<1>5. rows[CleanupKey].status = "ABSENT" /\ rows[ReportKey].status = "ABSENT"
  BY <1>1, <1>3, <1>4 DEF CleanupKey, ReportKey
<1>6. ASSUME NEW job \in BagToSet(jobs) PROVE job = JobFor(1, scenario.first)
  BY SmallBags DEF Init
<1>7. ASSUME NEW k \in DOMAIN outbox, outbox[k].status = "PENDING" PROVE k = <<1, "detect">>
  BY <1>7 DEF Init, NoRow
<1>8. /\ run.cleanup = "NOT_SCHEDULED"
      /\ \A h \in Handlers : handler[h] = IdleHandler /\ call[h].at = "idle" /\ ~call[h].lost
  BY DEF Init
<1>. QED
  BY <1>1, <1>2, <1>3, <1>5, <1>6, <1>7, <1>8

LEMMA InitiallyInPace == ASSUME Init, TypeOK PROVE StatusKeepsPace
<1>. DEFINE done == StepsBefore(scenario.first)
<1>0. scenario.first \in Steps
  BY InitialPhase
<1>. SUFFICES ASSUME NEW s \in Steps \ {"cleanup"}
              PROVE  /\ s \in done => RankOf(s) <= PhaseRank[run.status]
                     /\ RankOf(s) < PhaseRank[run.status] => s \in done
  <2>1. \A t \in done : Guard!Settled(<<1, t>>)
    <3>1. \A t \in done : rows[<<1, t>>].status = "PASSED"
      BY InTheBeginning DEF StepsBefore
    <3>. QED
      BY <3>1 DEF Guard!Settled, Guard!Stands, Guard!Results
  <2>. QED
    BY <2>1, InTheBeginning DEF StatusKeepsPace
<1>1. RankOf(s) \in Nat
  BY RanksAreNumbers
<1>2. CASE done = {}
  <2>1. PhaseRank[run.status] = 0
    BY <1>2, InitialPhase, Ranks
  <2>. QED
    BY <1>1, <1>2, <2>1
<1>3. CASE done # {}
  <2>1. PICK p \in Steps \ {"cleanup"} : /\ run.status = PhaseForStep[p]
                                         /\ StepIndex[p] = StepIndex[scenario.first] - 1
    BY <1>3, InitialPhase
  <2>2. PhaseRank[run.status] = RankOf(p) /\ RankOf(p) \in Nat
    BY <2>1, RanksAreNumbers DEF RankOf
  <2>3. StepIndex[s] \in Nat /\ StepIndex[p] \in Nat /\ StepIndex[scenario.first] \in Nat
    BY <1>0, StepIndexTyped
  <2>4. RankOf(p) < RankOf(s) => StepIndex[p] < StepIndex[s]
    BY PhasesAscend DEF StepsBefore
  <2>5. RankOf(s) < RankOf(p) => StepIndex[s] < StepIndex[p]
    BY PhasesAscend DEF StepsBefore
  <2>6. s \in done <=> StepIndex[s] < StepIndex[scenario.first]
    BY DEF StepsBefore
  <2>. HIDE DEF done
  <2>. QED
    BY <1>1, <2>1, <2>2, <2>3, <2>4, <2>5, <2>6
<1>. QED
  BY <1>2, <1>3

LEMMA InitiallyLittle == ASSUME Init, TypeOK PROVE LittleIsDone
<1>. SUFFICES ASSUME Idles PROVE RowsAreSpared /\ NothingToCleanUp /\ HandlersStayIdle
  BY DEF LittleIsDone
<1>1. StepsBefore(scenario.first) = {}
  <2>1. \A p \in Steps \ {"cleanup"} : PhaseForStep[p] \notin {"QUEUED", "REJECTED_BY_CAPACITY"}
    BY Phases, ElevenSteps
  <2>. QED
    BY <2>1, InitialPhase DEF Idles
<1>2. RowsAreSpared
  BY <1>1, InTheBeginning DEF RowsAreSpared
<1>3. NothingToCleanUp
  <2>1. ~namespace
    BY <1>1 DEF Init
  <2>. QED
    BY <2>1, InTheBeginning DEF NothingToCleanUp
<1>4. HandlersStayIdle
  BY InTheBeginning DEF HandlersStayIdle, StaysIdle, IdleHandler
<1>. QED
  BY <1>2, <1>3, <1>4

LEMMA PaceInvHolds == Spec => []PaceInv
<1>. DEFINE Paced == SkipsAreSpare /\ StatusIsInside /\ StatusKeepsPace /\ HandlersKeepPace /\ LittleIsDone
<1>1. Init => Paced
  <2>. SUFFICES ASSUME Init, TypeOK PROVE Paced
    BY InitiallyTyped
  <2>1. \A h \in Handlers : handler[h].at = "idle"
    BY InTheBeginning DEF IdleHandler
  <2>2. SkipsAreSpare
    BY <2>1, InTheBeginning DEF SkipsAreSpare, At
  <2>3. StatusIsInside
    BY InTheBeginning, Ranks DEF StatusIsInside
  <2>4. HandlersKeepPace
    BY <2>1 DEF HandlersKeepPace, HandlerKeepsPace
  <2>. QED
    BY <2>2, <2>3, <2>4, InitiallyInPace, InitiallyLittle
<1>2. OutcomesInv /\ Paced /\ [Next]_vars => Paced'
  BY SparesStep, InsideStep, PaceStep, HandlersPaceStep, LittleStep DEF PacedStep, PaceInv
<1>3. PaceInv <=> OutcomesInv /\ Paced
  BY DEF PaceInv
<1>. QED
  BY <1>1, <1>2, <1>3, OutcomesInvHolds, PTL DEF Spec

\* A Run that the database turns away stops where it is: whatever jobs come, its handlers
\* execute no step but the first, no cleanup of it ends, and in the first attempt it has
\* no namespace.
THEOREM RejectedStop == Spec => []RejectedRunsStop
<1>1. PaceInv => RejectedRunsStop
  BY DEF PaceInv, LittleIsDone, Idles, RowsAreSpared, NothingToCleanUp, RejectedRunsStop, TurnedAway
<1>. QED
  BY <1>1, PaceInvHolds, PTL

\* No stale handler, crash or redelivery takes a Run to where transitionRun would refuse
\* its next step: while a user could cancel it, the step that the records ask for next
\* runs in a phase that the Run may enter.
THEOREM PhasesAreOpen == Spec => []PhasesStayOpen
<1>1. PaceInv => PhasesStayOpen
  <2>. DEFINE rec == Book(run.attempt)
              next == NextStepAction(rec)
  <2>. SUFFICES ASSUME PaceInv, run.status \in Underway, next.action = "run", next.step # "cleanup"
                PROVE  \/ PhaseForStep[next.step] = run.status
                       \/ ValidTransition(run.status, PhaseForStep[next.step], run.cleanup = "CLEANED")
    BY WalkTerms, WalkPhases DEF PhasesStayOpen, Underway, Walk!NextPhaseIsLegal, Walk!EnterPhase
  <2>1. TypeOK /\ StatusKeepsPace /\ SkipsAreSpare /\ run.attempt \in Attempts
    BY DEF PaceInv, OutcomesInv, PlannedInv, WorldInv, IInv, Basis, TypeOK
  <2>2. PICK s \in Steps \ {"cleanup"} : next.step = s
    BY NextStepTyped
  <2>3. ~SettledIn(rec, s)
    <3>. HIDE DEF rec
    <3>. QED
      BY <2>2, NextStepIsOpen
  <2>4. ~Guard!Settled(<<run.attempt, s>>)
    BY <2>1, <2>3, SettledBook
  <2>5. Ready(<<run.attempt, s>>)
    <3>1. \A t \in StepsBefore(s) : SettledIn(rec, t)
      <4>. HIDE DEF rec
      <4>. QED
        BY <2>2, NextStepIsDue
    <3>. QED
      BY <2>1, <3>1, BookSettled DEF Ready, StepsBefore
  <2>. QED
    BY <2>1, <2>2, <2>4, <2>5, MayEnter
<1>. QED
  BY <1>1, PaceInvHolds, PTL

-----------------------------------------------------------------------------
\* The lifecycle speaks of the same steps and statuses.
LEMMA SameVocabulary ==
    /\ Lifecycle!Steps = Steps /\ Lifecycle!Verdicts = Verdicts
    /\ Lifecycle!PhaseForStep = PhaseForStep /\ Lifecycle!NoPhase = NoPhase
    /\ Lifecycle!CancellableStatuses = CancellableStatuses
    /\ Lifecycle!WorkflowSteps = WorkflowSteps /\ Lifecycle!StepIndex = StepIndex
    /\ \A s : Lifecycle!StepsBefore(s) = StepsBefore(s)
    /\ \A from, to, b : Lifecycle!ValidTransition(from, to, b) <=> ValidTransition(from, to, b)
    /\ \A s, c, b : Lifecycle!CanRetry(s, c, b) <=> CanRetry(s, c, b)
<1>1. Lifecycle!WorkflowSteps = WorkflowSteps /\ Lifecycle!Steps = Steps
  BY DEF Lifecycle!WorkflowSteps, WorkflowSteps, Lifecycle!Steps, Steps
<1>2. Lifecycle!StepIndex = StepIndex
  BY <1>1 DEF Lifecycle!StepIndex, StepIndex
<1>3. Lifecycle!PhaseForStep = PhaseForStep /\ Lifecycle!NoPhase = NoPhase
  BY <1>1 DEF Lifecycle!PhaseForStep, PhaseForStep, Lifecycle!NoPhase, NoPhase
<1>4. \A s : Lifecycle!StepsBefore(s) = StepsBefore(s)
  BY <1>1, <1>2 DEF Lifecycle!StepsBefore, StepsBefore
<1>5. Lifecycle!Verdicts = Verdicts /\ Lifecycle!CancellableStatuses = CancellableStatuses
  BY DEF Lifecycle!Verdicts, Verdicts, Lifecycle!CancellableStatuses, CancellableStatuses
<1>6. Lifecycle!Transitions = Transitions
  BY <1>5 DEF Lifecycle!Transitions, Transitions, Lifecycle!RunStatuses, RunStatuses
<1>7. \A from, to, b : Lifecycle!ValidTransition(from, to, b) <=> ValidTransition(from, to, b)
  BY <1>6 DEF Lifecycle!ValidTransition, ValidTransition
<1>8. \A s, c, b : Lifecycle!CanRetry(s, c, b) <=> CanRetry(s, c, b)
  BY DEF Lifecycle!CanRetry, CanRetry
<1>. QED
  BY <1>1, <1>2, <1>3, <1>4, <1>5, <1>7, <1>8

\* The steps of an attempt whose results stand.
Standing(a) == {s \in Steps : Guard!Settled(<<a, s>>)}

\* While the Run's own row is as it was, at most one more step of its attempt comes to
\* stand, and that one was due.
LEMMA OneMoreStands ==
    ASSUME PacedStep, LittleIsDone', UNCHANGED run
    PROVE  \/ Standing(run.attempt)' = Standing(run.attempt)
           \/ \E s \in Steps : Lifecycle!Settle(s)
<1>. TypeOK /\ [Next]_vars /\ G!OnlyRunningRowsAreHeld /\ HandlersKnowTheirCalls /\ StepsAreDue
     /\ SkipsAreSpare' /\ TypeOK'
  BY PacedFacts, SparesStep, TypeStep
<1>1. PICK a \in Attempts : a = run.attempt /\ a = run'.attempt
  BY DEF TypeOK
<1>2. ASSUME NEW s \in Steps, <<a, s>> \in StepKeys, Guard!Settled(<<a, s>>)
      PROVE  Guard!Settled(<<a, s>>)'
  BY <1>2, SettledStays
<1>3. ASSUME NEW s \in Steps, ~Guard!Settled(<<a, s>>), Guard!Settled(<<a, s>>)'
      PROVE  Due(<<a, s>>)
  <2>. <<a, s>> \in StepKeys
    BY DEF StepKeys
  <2>1. rows'[<<a, s>>].status \notin {"RUNNING", "PENDING"} /\ ~SaysTheSame(<<a, s>>)
    BY <1>3 DEF Guard!Settled, Guard!Stands, Guard!Results, SaysTheSame
  <2>2. PICK h \in Handlers : Skips(h, <<a, s>>) \/ Records(h, <<a, s>>)
    BY <2>1, RowStep DEF RowMoves, Begins, GivesBack
  <2>3. CASE Skips(h, <<a, s>>)
    BY <2>3 DEF Skips, StepsAreDue, GoesForDue, Due
  <2>4. CASE Records(h, <<a, s>>)
    BY <2>4 DEF Records, StepsAreDue, RowIsDue
  <2>. QED
    BY <2>2, <2>3, <2>4
<1>4. ASSUME NEW s \in Steps, NEW t \in Steps,
             ~Guard!Settled(<<a, s>>), Guard!Settled(<<a, s>>)',
             ~Guard!Settled(<<a, t>>), Guard!Settled(<<a, t>>)'
      PROVE  s = t
  <2>1. <<a, s>> \in StepKeys /\ <<a, t>> \in StepKeys
    BY DEF StepKeys
  <2>2. rows'[<<a, s>>] # rows[<<a, s>>] /\ rows'[<<a, t>>] # rows[<<a, t>>]
    BY <1>4 DEF Guard!Settled
  <2>3. \/ UNCHANGED rows
        \/ \E k \in StepKeys : \A j \in StepKeys \ {k} : rows'[j] = rows[j]
    BY GuardTypes, GuardStep, GuardConstants, G!OneRowChanges DEF TypeOK
  <2>4. <<a, s>> = <<a, t>>
    BY <2>1, <2>2, <2>3
  <2>. QED
    BY <2>4
<1>5. \A s \in Steps : <<a, s>> \in StepKeys
  BY DEF StepKeys
<1>6. Standing(a) \subseteq Standing(a)'
  BY <1>2, <1>5 DEF Standing
<1>7. CASE Standing(a)' # Standing(a)
  <2>1. PICK s \in Steps : ~Guard!Settled(<<a, s>>) /\ Guard!Settled(<<a, s>>)'
    BY <1>6, <1>7 DEF Standing
  <2>2. Standing(a)' = Standing(a) \union {s} /\ s \notin Standing(a)
    BY <1>4, <1>6, <2>1 DEF Standing
  <2>3. \/ StepsBefore(s) \subseteq Standing(a)
        \/ s = "cleanup" /\ run.status \in {"CANCEL_REQUESTED", "CANCELLED"}
    BY <1>3, <2>1 DEF Due, Ready, Cancelling, StepsBefore, Standing
  <2>4. Standing(run.attempt)' = Standing(run.attempt) \union {s}
    BY <1>1, <2>2 DEF Standing
  <2>5. run.status = "REJECTED_BY_CAPACITY" => s \in StepsBefore("assemble")
    <3>. SUFFICES ASSUME run.status = "REJECTED_BY_CAPACITY", s # "detect"
                  PROVE  s \in StepsBefore("assemble")
      BY ElevenSteps, StepIndexes DEF StepsBefore
    <3>1. rows'[<<a, s>>].status \in {"ABSENT", "SKIPPED"}
      BY <1>1 DEF LittleIsDone, Idles, RowsAreSpared
    <3>2. rows'[<<a, s>>].status = "SKIPPED"
      BY <2>1, <3>1 DEF Guard!Settled, Guard!Stands, Guard!Results
    <3>3. s \notin Unskipped
      BY <1>5, <3>2 DEF SkipsAreSpare
    <3>. QED
      BY <3>3, ElevenSteps, StepIndexes DEF Unskipped, StepsBefore
  <2>6. Lifecycle!Settle(s)
    BY <1>1, <2>2, <2>3, <2>4, <2>5, SameVocabulary DEF Lifecycle!Settle, Standing
  <2>. QED
    BY <2>6
<1>8. CASE Standing(a)' = Standing(a)
  BY <1>1, <1>8 DEF Standing
<1>. QED
  BY <1>7, <1>8

\* What is written to the Run's row is what its lifecycle allows.
LEMMA LifecycleMoves ==
    ASSUME PacedStep, RunMoves, UNCHANGED rows
    PROVE  Lifecycle!Next
<1>. /\ TypeOK /\ [Next]_vars /\ StepsAreDue /\ VerdictsFit /\ CleanupsAreRecorded
     /\ LaterAttemptsAreBlank /\ LittleIsDone
     /\ run \in [status : RunStatuses, attempt : Attempts, cleanup : CleanupStatuses]
     /\ handler \in [Handlers -> HandlerState]
  BY PacedFacts, StateTypes DEF IInv
<1>0. run'.attempt = run.attempt => Standing(run.attempt)' = Standing(run.attempt)
  BY DEF Standing, Guard!Settled
<1>1. ASSUME NEW h \in Handlers, Advances(h) PROVE Lifecycle!Next
  <2>. DEFINE s == Job(h).step
  <2>1. s \in Steps /\ Current(h) /\ PhaseForStep[s] # NoPhase
    BY <1>1 DEF Advances, Goes, MayMove, HandlerState, Jobs, Job
  <2>2. run' = [run EXCEPT !.status = PhaseForStep[s]]
    BY <1>1 DEF Advances, Goes
  <2>3. PhaseForStep[s] # "CANCELLED" /\ s # "cleanup"
    BY <2>1, ElevenSteps DEF PhaseForStep, NoPhase
  <2>4. ValidTransition(run.status, PhaseForStep[s], FALSE)
    BY <1>1, <2>3 DEF Advances, Goes, MayMove, ValidTransition
  <2>5. StepsBefore(s) \subseteq Standing(run.attempt)
    <3>1. Due(Key(h)) /\ Key(h) = <<run.attempt, s>>
      BY <1>1, <2>1 DEF Advances, StepsAreDue, GoesForDue, At, Key, Current
    <3>. QED
      BY <2>3, <3>1 DEF Due, Ready, StepsBefore, Standing
  <2>6. Lifecycle!Enter(s)
    BY <1>0, <2>1, <2>2, <2>4, <2>5, SameVocabulary DEF Lifecycle!Enter, Standing
  <2>. QED
    BY <2>1, <2>6, SameVocabulary DEF Lifecycle!Next
<1>2. ASSUME NEW h \in Handlers, SetsPending(h) PROVE Lifecycle!Next
  <2>1. run' = [run EXCEPT !.cleanup = "PENDING"]
    BY <1>2 DEF SetsPending
  <2>0. run.status # "REJECTED_BY_CAPACITY"
    BY <1>2 DEF SetsPending, At, LittleIsDone, Idles, HandlersStayIdle, StaysIdle
  <2>2. Lifecycle!RecordCleanup("PENDING")
    BY <1>0, <2>0, <2>1 DEF Lifecycle!RecordCleanup, Standing
  <2>. QED
    BY <2>2 DEF Lifecycle!Next
<1>3. ASSUME NEW h \in Handlers, GivesVerdict(h) PROVE Lifecycle!Next
  <2>1. PICK verdict \in Verdicts : verdict = handler[h].verdict
    BY DEF HandlerState
  <2>2. /\ run' = [run EXCEPT !.status = verdict]
        /\ ValidTransition(run.status, verdict, FALSE)
        /\ Job(h).attempt = run.attempt
    BY <1>3, <2>1 DEF GivesVerdict, Goes, MayMove, Current, ValidTransition, Verdicts
  <2>3. StepsBefore("cleanup") \subseteq Standing(run.attempt)
    <3>1. Fits(verdict, Book(run.attempt))
      BY <1>3, <2>1, <2>2 DEF GivesVerdict, VerdictsFit, VerdictFits
    <3>2. ASSUME NEW s \in StepsBefore("cleanup") PROVE Guard!Settled(<<run.attempt, s>>)
      <4>1. s \in Steps /\ s # "cleanup"
        BY StepsBeforeCleanup
      <4>2. SettledIn(Book(run.attempt), s)
        BY <3>1, <4>1 DEF Fits, SettledIn, SettledForRetry
      <4>. QED
        BY <4>1, <4>2, BookSettled
    <3>. QED
      BY <3>2, StepsBeforeCleanup DEF Standing
  <2>4. Lifecycle!Conclude(verdict)
    BY <1>0, <2>2, <2>3, SameVocabulary DEF Lifecycle!Conclude, Standing
  <2>. QED
    BY <2>4, SameVocabulary DEF Lifecycle!Next
<1>4. ASSUME NEW h \in Handlers, RecordsCleanup(h) PROVE Lifecycle!Next
  <2>1. PICK outcome \in {"CLEANED", "FAILED"} :
          /\ run' = [run EXCEPT !.cleanup = outcome]
          /\ outcome = "CLEANED" => CleanupSucceeded(h)
    BY <1>4 DEF RecordsCleanup
  <2>2. outcome = "CLEANED" => "cleanup" \in Standing(run.attempt)
    <3>1. outcome = "CLEANED" => rows[<<run.attempt, "cleanup">>].status = "PASSED"
      BY <1>4, <2>1
         DEF RecordsCleanup, CleanupsAreRecorded, CleanupIsRecorded, Current, Key, At
    <3>. QED
      BY <3>1, ElevenSteps DEF Standing, Guard!Settled, Guard!Stands, Guard!Results
  <2>0. run.status # "REJECTED_BY_CAPACITY"
    BY <1>4 DEF RecordsCleanup, At, LittleIsDone, Idles, HandlersStayIdle, StaysIdle
  <2>3. Lifecycle!RecordCleanup(outcome)
    BY <1>0, <2>0, <2>1, <2>2 DEF Lifecycle!RecordCleanup, Standing
  <2>. QED
    BY <2>3 DEF Lifecycle!Next
<1>5. ASSUME NEW h \in Handlers, Confirms(h) PROVE Lifecycle!Next
  <2>1. /\ run' = [run EXCEPT !.status = "CANCELLED"]
        /\ ValidTransition(run.status, "CANCELLED", run.cleanup = "CLEANED")
    BY <1>5 DEF Confirms, Goes, MayMove
  <2>2. Lifecycle!ConfirmCancel
    BY <1>0, <2>1, SameVocabulary DEF Lifecycle!ConfirmCancel, Standing
  <2>. QED
    BY <2>2 DEF Lifecycle!Next
<1>6. ASSUME IsCancelled PROVE Lifecycle!Next
  <2>1. Lifecycle!RequestCancel
    BY <1>0, <1>6, SameVocabulary DEF IsCancelled, Lifecycle!RequestCancel, Standing
  <2>. QED
    BY <2>1 DEF Lifecycle!Next
<1>7. ASSUME IsRetried PROVE Lifecycle!Next
  <2>1. Standing(run.attempt)' = {}
    <3>1. PICK b \in Attempts : b = run.attempt + 1 /\ run'.attempt = b
      BY <1>7 DEF IsRetried
    <3>2. b > run.attempt
      BY <3>1, AttemptGrows
    <3>3. ASSUME NEW s \in Steps PROVE ~Guard!Settled(<<b, s>>)'
      <4>1. rows[<<b, s>>].status = "ABSENT"
        BY <3>2 DEF LaterAttemptsAreBlank, StepKeys
      <4>. QED
        BY <4>1 DEF Guard!Settled, Guard!Stands, Guard!Results
    <3>. QED
      BY <3>1, <3>3 DEF Standing
  <2>2. Lifecycle!NextAttempt
    BY <1>7, <2>1, SameVocabulary DEF IsRetried, Lifecycle!NextAttempt, Standing
  <2>. QED
    BY <2>2 DEF Lifecycle!Next
<1>8. ASSUME IsTurnedAway PROVE Lifecycle!Next
  <2>1. Lifecycle!TurnAway
    BY <1>0, <1>8 DEF IsTurnedAway, Lifecycle!TurnAway, Standing
  <2>. QED
    BY <2>1 DEF Lifecycle!Next
<1>. QED
  BY <1>1, <1>2, <1>3, <1>4, <1>5, <1>6, <1>7, <1>8 DEF RunMoves

\* The workflow implements the lifecycle: each status the Run shows is entered when its
\* steps are done, in the order promised, however the work on it is interleaved.
THEOREM ImplementsLifecycle == Spec => LifecycleSpec
<1>1. Init => Lifecycle!Init
  <2>. SUFFICES ASSUME Init PROVE Lifecycle!Init
    OBVIOUS
  <2>. DEFINE done == StepsBefore(scenario.first)
  <2>0. scenario.first \in Steps /\ done \subseteq Steps
    BY WorkflowAssumption DEF Init, StepsBefore
  <2>1. run.attempt = 1 /\ run.cleanup = "NOT_SCHEDULED"
        /\ run.status = IF done = {} THEN "QUEUED"
                        ELSE PhaseForStep[WorkflowSteps[StepIndex[scenario.first] - 1]]
    BY DEF Init
  <2>2. ASSUME NEW s \in Steps PROVE Guard!Settled(<<1, s>>) <=> s \in done
    <3>1. rows[<<1, s>>].status = IF s \in done THEN "PASSED" ELSE "ABSENT"
      BY WorkflowAssumption DEF Init, StepKeys
    <3>. QED
      BY <3>1 DEF Guard!Settled, Guard!Stands, Guard!Results
  <2>3. Standing(run.attempt) = done
    BY <2>0, <2>1, <2>2 DEF Standing
  <2>. QED
    BY <2>0, <2>1, <2>3, SameVocabulary DEF Lifecycle!Init, Standing
<1>2. PaceInv /\ [Next]_vars => [Lifecycle!Next]_(Lifecycle!vars)
  <2>. SUFFICES ASSUME PacedStep PROVE Lifecycle!Next \/ UNCHANGED Lifecycle!vars
    BY DEF PacedStep
  <2>0. TypeOK /\ [Next]_vars /\ LittleIsDone'
    BY PacedFacts, LittleStep
  <2>1. CASE UNCHANGED run
    <3>1. CASE Standing(run.attempt)' = Standing(run.attempt)
      BY <2>1, <3>1 DEF Lifecycle!vars, Standing
    <3>2. CASE \E s \in Steps : Lifecycle!Settle(s)
      BY <3>2, SameVocabulary DEF Lifecycle!Next
    <3>. QED
      BY <2>0, <2>1, <3>1, <3>2, OneMoreStands
  <2>2. CASE RunMoves /\ UNCHANGED rows
    BY <2>2, LifecycleMoves
  <2>. QED
    BY <2>0, <2>1, <2>2, RunStep
<1>. QED
  BY <1>1, <1>2, PaceInvHolds, PTL DEF Spec, LifecycleSpec, Lifecycle!Spec

-----------------------------------------------------------------------------
\* The fifth invariant is about what carries a Run on while no Worker dies, no job expires
\* under its handler and no lease is lost.
\* Handlers own their jobs, know of no lost lease, and work on every row that is RUNNING.
HandlersLive ==
    \A h \in Handlers : /\ ~At(h, "idle") => handler[h].owned
                        /\ ~call[h].lost /\ call[h].at # "releasing"

RowsAreWorkedOn ==
    \A k \in StepKeys :
        /\ rows[k].status # "PENDING"
        /\ rows[k].status = "RUNNING" => \E h \in Handlers : At(h, "guard") /\ Key(h) = k

\* Nothing is sent or delivered before its time.
EverythingIsDue ==
    /\ \A job \in BagToSet(jobs) : Due(<<job.attempt, job.step>>)
    /\ \A h \in Handlers : /\ Due(Key(h))
                           /\ At(h, "redirect") => Cancelling(Job(h).attempt)
    /\ \A k \in DOMAIN outbox : outbox[k].status = "PENDING" => Due(k)

\* A cleanup is announced before it begins, and by a cancellation.
CleanupIsAnnounced ==
    /\ run.status \in {"CANCEL_REQUESTED", "CANCELLED"} => run.cleanup # "NOT_SCHEDULED"
    /\ run.cleanup = "NOT_SCHEDULED" => rows[CleanupKey].status = "ABSENT"
    /\ \A h \in Handlers :
         /\ At(h, "setPending") => Job(h).step = "cleanup"
         /\ Key(h) = CleanupKey /\ handler[h].at \in {"admit", "guard", "record", "cleanup", "confirm"}
              => run.cleanup # "NOT_SCHEDULED"

\* The report is executed under a job that may still be delivered again: should the
\* user cancel meanwhile, that delivery is the one that finds the cancellation.
ReportIsFresh(h) ==
    /\ rows[ReportKey].status = "ABSENT" /\ handler[h].at \in {"list", "phase", "admit"}
         => Job(h).left = 1
    /\ At(h, "guard") => Job(h).left = 1

ReportsHaveARetry ==
    /\ \A h \in Handlers : At(h, "skip") => Job(h).step # "report"
    /\ run.status \in Underway /\ rows[ReportKey].status = "ABSENT" =>
         /\ \A job \in BagToSet(jobs) :
                job.attempt = run.attempt /\ job.step = "report" => job.left = 1
         /\ \A h \in Handlers : Key(h) = ReportKey =>
                /\ ~At(h, "failed")
                /\ handler[h].at \in {"list", "phase"} => handler[h].snap = "REPORTING"
    /\ run.status \in Underway \union {"CANCEL_REQUESTED"} =>
         \A h \in Handlers : Key(h) = ReportKey => ReportIsFresh(h)

\* What is about to be delivered for the current attempt.
Delivered ==
    \/ \E k \in DOMAIN outbox : k[1] = run.attempt /\ outbox[k].status = "PENDING"
    \/ \E job \in BagToSet(jobs) : job.attempt = run.attempt

\* A Run that waits for its report or for its cleanup is carried on: by a delivery, or by
\* a handler that will take its next step or send for it.
Waiting ==
    \/ run.status \in Underway /\ ~Guard!Settled(ReportKey)
    \/ run.status \in Verdicts /\ run.cleanup = "NOT_SCHEDULED"

CanEnter(h) ==
    LET phase == PhaseForStep[Job(h).step] IN
    phase \in {NoPhase, handler[h].snap} \/ MayMove(h, phase)

Carries(h) ==
    /\ Current(h)
    /\ \/ /\ handler[h].at \in {"list", "skip"}
          /\ run.status \in Verdicts \/ handler[h].snap = run.status
       \/ At(h, "phase") /\ CanEnter(h)
       \/ At(h, "setPending") /\ run.status \in Verdicts
       \/ handler[h].at \in {"admit", "guard"} /\ Job(h).step # "cleanup"
       \/ /\ At(h, "record") /\ Job(h).step # "cleanup"
          /\ Job(h).step # "report" \/ run.status \in Verdicts
       \/ At(h, "finalize") /\ run.status \in Verdicts
       \/ handler[h].at \in {"refresh", "next"}

RunIsCarried == Waiting => Delivered \/ \E h \in Handlers : Carries(h)

\* A report that stands is about to become the verdict.
Concludes(h) == Key(h) = ReportKey /\ handler[h].at \in {"record", "finalize", "verdict"}

ReportIsUsed ==
    run.status \in Underway /\ Guard!Settled(ReportKey) => \E h \in Handlers : Concludes(h)

\* A cleanup that is PENDING is carried out, or a cancellation will see to it.
CleansUp(h) == Key(h) = CleanupKey /\ handler[h].at \in {"admit", "guard", "record", "cleanup"}

CleanupIsCarried ==
    run.cleanup = "PENDING" /\ run.status # "CANCEL_REQUESTED" => \E h \in Handlers : CleansUp(h)

CarriesCancel(h) ==
    /\ Current(h)
    /\ \/ handler[h].at \in {"redirect", "cancelList", "setPending", "refresh", "cleanup"}
       \/ At(h, "admit") /\ Job(h).step = "cleanup"
       \/ handler[h].at \in {"guard", "record"} /\ Job(h).step # "report"
       \/ At(h, "confirm") /\ run.cleanup = "CLEANED"
       \/ /\ handler[h].at \in {"guard", "record", "finalize", "verdict", "failed"}
          /\ Job(h).step = "report" /\ Job(h).left = 1

CancelIsCarried ==
    run.status = "CANCEL_REQUESTED" /\ run.cleanup # "FAILED"
        => Delivered \/ \E h \in Handlers : CarriesCancel(h)

Auxiliaries ==
    /\ HandlersLive /\ RowsAreWorkedOn /\ EverythingIsDue
    /\ CleanupIsAnnounced /\ ReportsHaveARetry

CarriedInv ==
    Undisturbed /\ ~TurnedAway =>
        /\ Auxiliaries
        /\ RunIsCarried /\ ReportIsUsed /\ CleanupIsCarried /\ CancelIsCarried

-----------------------------------------------------------------------------
\* What the plan says of open steps.
LEMMA SomethingIsOpen ==
    ASSUME NEW rec, NEW s \in Steps, ~SettledIn(rec, s)
    PROVE  NextStepAction(rec).action # "none" /\ NextStepAction(rec) # NoAction
  BY DEF NextStepAction, SettledIn, NoAction

-----------------------------------------------------------------------------
\* A step in which nothing is disturbed and the Run is not turned away, from a state of
\* the invariant.
CalmStep ==
    /\ PaceInv /\ Auxiliaries
    /\ Undisturbed /\ Undisturbed' /\ ~TurnedAway /\ ~TurnedAway'
    /\ [Next]_vars

LEMMA CalmFacts ==
    ASSUME CalmStep
    PROVE  /\ PacedStep /\ TypeOK /\ [Next]_vars /\ IInv /\ Basis
           /\ G!OnlyRunningRowsAreHeld /\ HandlersKnowTheirCalls
           /\ StepsAreDue /\ LaterAttemptsAreBlank /\ VerdictsFit /\ CleanupsAreRecorded
           /\ PastStepsAreSettled /\ LeasesHold
           /\ HandlersLive /\ RowsAreWorkedOn /\ EverythingIsDue /\ SkipsAreSpare /\ StatusIsInside
           /\ StatusKeepsPace /\ HandlersKeepPace /\ CleanupIsAnnounced /\ ReportsHaveARetry
           /\ ~TurnedAway /\ ~TurnedAway'
  BY DEF CalmStep, PacedStep, PaceInv, OutcomesInv, PlannedInv, WorldInv, IInv, Basis, Auxiliaries

\* The Run goes where it is written to go.
LEMMA CalmMoves ==
    ASSUME CalmStep
    PROVE  /\ ~IsTurnedAway
           /\ \A h \in Handlers : \A to : Move(h, to) => Goes(h, to)
           /\ Cancel => IsCancelled \/ (run.status = "CANCEL_REQUESTED" /\ UNCHANGED run)
<1>. TypeOK /\ run \in [status : RunStatuses, attempt : Attempts, cleanup : CleanupStatuses]
  BY CalmFacts, StateTypes
<1>1. ~IsTurnedAway
  BY DEF IsTurnedAway, CalmStep, TurnedAway
<1>2. ASSUME NEW h \in Handlers, NEW to, Move(h, to) PROVE Goes(h, to)
  BY <1>1, <1>2, Stores
<1>3. Cancel => IsCancelled \/ (run.status = "CANCEL_REQUESTED" /\ UNCHANGED run)
  BY <1>1, StoresCancelled DEF Cancel
<1>. QED
  BY <1>1, <1>2, <1>3

\* Handlers do not die, and jobs do not expire.
LEMMA NoFaults ==
    ASSUME CalmStep, NEW h \in Handlers
    PROVE  ~Crash(h) /\ ~Expire(h) /\ (UNCHANGED handler[h] \/ Works(h))
<1>1. spent \in [Events -> Nat] /\ {"crash", "expiry", "lease"} \subseteq Events
  BY CalmFacts DEF TypeOK, Events
<1>2. ASSUME NEW e \in {"crash", "expiry", "lease"} PROVE ~Spend(e)
  BY <1>1 DEF CalmStep, Undisturbed, Spend
<1>3. ~Crash(h) /\ ~Expire(h)
  BY <1>2 DEF Crash, Expire
<1>. QED
  BY <1>3, CalmFacts, HandlerStep

\* A handler at the guard goes on executing, or records its result.
Executes(h) ==
    /\ Execute(h) /\ UNCHANGED rows
    /\ \E r \in StepResults : handler'[h] = [handler[h] EXCEPT !.result = r]

Finishes(h) ==
    /\ call[h].at = "persisting"
    /\ handler'[h] = [handler[h] EXCEPT !.at = "record", !.ran = TRUE]
    /\ rows' = [rows EXCEPT ![Key(h)] = Guard!RowSettledBy(h)]
    /\ call' = [call EXCEPT ![h].at = "idle"]
    /\ call[h].result = handler[h].result.status

LEMMA AtGuard ==
    ASSUME CalmStep, NEW h \in Handlers, Works(h), At(h, "guard")
    PROVE  Executes(h) \/ Finishes(h)
<1>. TypeOK /\ handler \in [Handlers -> HandlerState] /\ KnowsItsCall(h)
  BY CalmFacts, StateTypes DEF HandlersKnowTheirCalls
<1>0. HasTheLease(h) /\ call[h].key = Key(h) /\ call[h].at # "releasing"
  BY CalmFacts DEF CalmStep, Undisturbed, LeasesHold, KnowsItsCall, HandlersLive
<1>1. CASE Execute(h)
  <2>1. PICK r \in scenario.results[Job(h).step] :
          Guard!OperationReturns(h, r.status) /\ handler' = [handler EXCEPT ![h].result = r]
    BY <1>1 DEF Execute
  <2>2. r \in StepResults
    BY WorkflowAssumption DEF TypeOK, HandlerState, Jobs, Job
  <2>3. handler'[h] = [handler[h] EXCEPT !.result = r] /\ UNCHANGED rows
    BY <2>1 DEF Guard!OperationReturns
  <2>. QED
    BY <1>1, <2>2, <2>3 DEF Executes
<1>2. CASE Persist(h)
  <2>1. ~Guard!LeaseLost(h) /\ ~Guard!Release(h)
    BY <1>0 DEF Guard!LeaseLost, Guard!Release, Guard!Fenced, Guard!Holds, HasTheLease
  <2>2. Guard!Persist(h) /\ handler' = [handler EXCEPT ![h].at = "record", ![h].ran = TRUE]
    BY <1>2, <2>1 DEF Persist
  <2>. QED
    BY <1>0, <2>2 DEF Guard!Persist, Finishes, KnowsItsCall
<1>. QED
  BY <1>1, <1>2
     DEF Works, Receive, Redirect, List, Skip, Phase, SetPending, Admit, RecordStep, Finalize,
         Verdict, FinalizeCleanup, Confirm, Dispatch, CancelList, Complete, Fail, At

-----------------------------------------------------------------------------
LEMMA LiveStep == ASSUME CalmStep PROVE HandlersLive'
<1>. TypeOK /\ [Next]_vars /\ HandlersLive /\ HandlersKnowTheirCalls
  BY CalmFacts
<1>. handler \in [Handlers -> HandlerState] /\ call \in [Handlers -> Guard!Call]
  BY StateTypes
<1>. SUFFICES ASSUME NEW g \in Handlers
              PROVE  /\ handler'[g].at # "idle" => handler'[g].owned
                     /\ ~call'[g].lost /\ call'[g].at # "releasing"
  BY DEF HandlersLive, At
<1>0. ~call[g].lost /\ call[g].at # "releasing"
  BY DEF HandlersLive
<1>1. handler'[g].at # "idle" => handler'[g].owned
  <2>1. CASE Works(g) /\ ~At(g, "idle")
    <3>1. ~Receive(g) /\ ~List(g) => handler'[g].owned = handler[g].owned \/ handler'[g] = IdleHandler
      BY <2>1
         DEF Works, Redirect, Skip, Phase, SetPending, Admit, Execute, Persist, RecordStep,
             Finalize, Verdict, FinalizeCleanup, Confirm, Dispatch, CancelList, Complete, Fail,
             Goto, HandlerState
    <3>2. List(g) => handler'[g].owned = handler[g].owned
      BY DEF List
    <3>3. ~Receive(g)
      BY <2>1 DEF Receive
    <3>. QED
      BY <2>1, <3>1, <3>2, <3>3 DEF HandlersLive, IdleHandler
  <2>2. CASE Receive(g)
    BY <2>2 DEF Receive, IdleHandler
  <2>3. CASE UNCHANGED handler[g]
    BY <2>3 DEF HandlersLive, At
  <2>4. Works(g) /\ At(g, "idle") => Receive(g)
    BY DEF Works, Redirect, List, Skip, Phase, SetPending, Admit, Execute, Persist, RecordStep,
           Finalize, Verdict, FinalizeCleanup, Confirm, Dispatch, CancelList, Complete, Fail, At
  <2>. QED
    BY <2>1, <2>2, <2>3, <2>4, NoFaults
<1>2. ~call'[g].lost /\ call'[g].at # "releasing"
  <2>1. CASE UNCHANGED call[g]
    BY <1>0, <2>1
  <2>2. CASE Admit(g)
    BY <1>0, <2>2
       DEF Admit, Guard!AlreadyTerminal, Guard!Busy, Guard!vars, Guard!Admit, Guard!Leased, Guard!Call
  <2>3. CASE Execute(g)
    <3>1. PICK r : Guard!OperationReturns(g, r.status)
      BY <2>3 DEF Execute
    <3>. QED
      BY <1>0, <3>1 DEF Guard!OperationReturns, Guard!Call
  <2>4. CASE Persist(g)
    <3>1. Finishes(g) \/ Executes(g)
      BY <2>4, AtGuard DEF Works, Persist
    <3>2. ~Executes(g)
      BY <2>4 DEF Executes, Execute, Persist, Guard!OperationReturns, Guard!Persist,
                  Guard!LeaseLost, Guard!Release
    <3>. QED
      BY <1>0, <3>1, <3>2 DEF Finishes, Guard!Call
  <2>5. CASE Heartbeat(g)
    <3>1. call[g].key = Key(g) /\ HasTheLease(g)
      BY <2>5, CalmFacts
         DEF Heartbeat, HandlersKnowTheirCalls, KnowsItsCall, CalmStep, Undisturbed, LeasesHold
    <3>2. UNCHANGED call
      BY <2>5, <3>1 DEF Heartbeat, Guard!Heartbeat, Guard!Holds, HasTheLease
    <3>. QED
      BY <2>1, <3>2
  <2>6. CASE Works(g) /\ ~Admit(g) /\ ~Execute(g) /\ ~Persist(g)
    BY <2>1, <2>6, CallUnchanged
  <2>. QED
    BY <2>1, <2>2, <2>3, <2>4, <2>5, <2>6, NoFaults, OthersStandBy DEF HandlerActions
<1>. QED
  BY <1>1, <1>2

LEMMA WorkedOnStep == ASSUME CalmStep PROVE RowsAreWorkedOn'
<1>. TypeOK /\ [Next]_vars /\ RowsAreWorkedOn /\ HandlersLive
  BY CalmFacts
<1>. SUFFICES ASSUME NEW k \in StepKeys
              PROVE  /\ rows'[k].status # "PENDING"
                     /\ rows'[k].status = "RUNNING" =>
                          \E h \in Handlers : handler'[h].at = "guard" /\ Key(h)' = k
  BY DEF RowsAreWorkedOn, At
<1>0. rows[k].status # "PENDING"
  BY DEF RowsAreWorkedOn
<1>1. CASE SaysTheSame(k)
  <2>1. SUFFICES ASSUME rows'[k].status = "RUNNING"
                 PROVE  \E h \in Handlers : handler'[h].at = "guard" /\ Key(h)' = k
    BY <1>0, <1>1 DEF SaysTheSame
  <2>2. PICK h \in Handlers : At(h, "guard") /\ Key(h) = k
    BY <1>1, <2>1 DEF SaysTheSame, RowsAreWorkedOn
  <2>3. CASE UNCHANGED handler[h]
    BY <2>2, <2>3 DEF At, Key, Job
  <2>4. CASE Executes(h)
    BY <2>2, <2>4, StateTypes DEF Executes, At, Key, Job, HandlerState
  <2>5. CASE Finishes(h)
    <3>1. rows'[k].status = handler[h].result.status
      BY <2>2, <2>5, StateTypes DEF Finishes, Guard!RowSettledBy
    <3>2. handler[h].result.status # "RUNNING"
      BY StateTypes DEF HandlerState, StepResults, Passed, AppFailure, HardFailed, Incomplete
    <3>. QED
      BY <2>1, <3>1, <3>2
  <2>. QED
    BY <2>2, <2>3, <2>4, <2>5, NoFaults, AtGuard
<1>2. ASSUME NEW h \in Handlers, Begins(h, k)
      PROVE  rows'[k].status # "PENDING" /\ handler'[h].at = "guard" /\ Key(h)' = k
  BY <1>2, StateTypes DEF Begins, Key, Job, HandlerState
<1>3. ASSUME NEW h \in Handlers, Skips(h, k) \/ Records(h, k)
      PROVE  rows'[k].status \notin {"PENDING", "RUNNING"}
  BY <1>3, StateTypes
     DEF Skips, Records, HandlerState, StepResults, Passed, AppFailure, HardFailed, Incomplete
<1>4. ASSUME NEW h \in Handlers PROVE ~GivesBack(h, k)
  BY DEF GivesBack, HandlersLive
<1>. QED
  BY CalmFacts, RowStep, <1>1, <1>2, <1>3, <1>4 DEF RowMoves

-----------------------------------------------------------------------------
\* How a job comes into the queue: it is sent for, delivered again, or published.
SentFor(job, h) ==
    \/ Redirect(h) /\ job = JobFor(Job(h).attempt, "cleanup")
    \/ /\ Dispatch(h) /\ At(h, "refresh") /\ run.status = "CANCEL_REQUESTED"
       /\ job = JobFor(Job(h).attempt, "cleanup")
    \/ /\ Dispatch(h) /\ NextStepAction(Book(Job(h).attempt)).action # "none"
       /\ job = JobFor(Job(h).attempt, NextStepAction(Book(Job(h).attempt)).step)

DeliveredAgain(job, h) ==
    /\ Fail(h) /\ handler[h].owned /\ Job(h).left > 0
    /\ job = [Job(h) EXCEPT !.left = @ - 1]

JobComes(job) ==
    \/ job \in BagToSet(jobs)
    \/ \E h \in Handlers : SentFor(job, h) \/ DeliveredAgain(job, h)
    \/ \E k \in DOMAIN outbox : outbox[k].status = "PENDING" /\ job = JobFor(k[1], k[2])

LEMMA NoActionMeans == \A rec : NextStepAction(rec) # NoAction <=> NextStepAction(rec).action # "none"
  BY DEF NextStepAction, NoAction

LEMMA JobsCome ==
    ASSUME CalmStep, NEW job \in BagToSet(jobs')
    PROVE  JobComes(job)
<1>. TypeOK /\ [Next]_vars /\ IsABag(jobs)
  BY CalmFacts, StateTypes
<1>1. ASSUME NEW new, jobs' = jobs (+) SetToBag({new}) PROVE job \in BagToSet(jobs) \/ job = new
  <2>1. BagToSet(jobs (+) SetToBag({new})) = BagToSet(jobs) \union {new}
    BY BagWithOneMore
  <2>. QED
    BY <1>1, <2>1
<1>2. ASSUME UNCHANGED jobs PROVE JobComes(job)
  BY <1>2 DEF JobComes
<1>3. ASSUME NEW h \in Handlers, NEW s, Send(Job(h).attempt, s), SentFor(JobFor(Job(h).attempt, s), h)
      PROVE  JobComes(job)
  BY <1>1, <1>3 DEF Send, JobComes
<1>4. ASSUME NEW k \in DOMAIN outbox, outbox[k].status = "PENDING", Send(k[1], k[2])
      PROVE  JobComes(job)
  BY <1>1, <1>4 DEF Send, JobComes
<1>5. ASSUME NEW h \in Handlers, Works(h) PROVE JobComes(job)
  <2>1. CASE Receive(h)
    <3>1. PICK old : jobs' = jobs (-) SetToBag({old})
      BY <2>1 DEF Receive
    <3>. QED
      BY <3>1, BagWithOneLess DEF JobComes
  <2>2. CASE Redirect(h)
    BY <1>3, <2>2 DEF Redirect, SentFor
  <2>3. CASE Dispatch(h)
    <3>. DEFINE next == NextStepAction(Book(Job(h).attempt))
    <3>1. CASE At(h, "refresh") /\ run.status = "CANCEL_REQUESTED" /\ Send(Job(h).attempt, "cleanup")
      BY <1>3, <2>3, <3>1 DEF SentFor
    <3>2. CASE next # NoAction /\ Send(Job(h).attempt, next.step)
      <4>1. next.action # "none"
        BY <3>2, NoActionMeans
      <4>. QED
        BY <1>3, <2>3, <3>2, <4>1 DEF SentFor
    <3>. QED
      BY <1>2, <2>3, <3>1, <3>2 DEF Dispatch
  <2>4. CASE Fail(h)
    <3>1. CASE handler[h].owned /\ handler[h].job.left > 0
      <4>1. jobs' = jobs (+) SetToBag({[handler[h].job EXCEPT !.left = @ - 1]})
        BY <2>4, <3>1 DEF Fail, Redelivered
      <4>. QED
        BY <1>1, <2>4, <3>1, <4>1 DEF DeliveredAgain, Job, JobComes
    <3>2. CASE ~(handler[h].owned /\ handler[h].job.left > 0)
      BY <2>4, <3>2, BagWithNoMore DEF Fail, Redelivered, JobComes
    <3>. QED
      BY <3>1, <3>2
  <2>. QED
    BY <1>2, <1>5, <2>1, <2>2, <2>3, <2>4
       DEF Works, List, Skip, Phase, SetPending, Admit, Execute, Persist, RecordStep, Finalize,
           Verdict, FinalizeCleanup, Confirm, CancelList, Complete
<1>6. ASSUME NEW h \in Handlers, HandlerActions(h) PROVE JobComes(job)
  BY <1>2, <1>5, <1>6, NoFaults DEF HandlerActions, Heartbeat
<1>7. ASSUME NEW k \in DOMAIN outbox, Publish(k) \/ PublishUnmarked(k) PROVE JobComes(job)
  BY <1>4, <1>7 DEF Publish, PublishUnmarked
<1>. QED
  BY NextCases, <1>2, <1>6, <1>7 DEF LeaseExpires, Cancel, Retry, Sweep, vars

\* How a row of the outbox comes to be PENDING.
LEMMA RowsPend ==
    ASSUME CalmStep, NEW k \in DOMAIN outbox, outbox'[k].status = "PENDING"
    PROVE  \/ outbox[k].status = "PENDING"
           \/ Cancel /\ k = CleanupKey
           \/ Retry /\ k[2] = "detect"
           \/ Sweep /\ k = CleanupKey
<1>. /\ TypeOK /\ [Next]_vars
     /\ outbox \in [Attempts \X {"detect", "cleanup"} -> OutboxRow]
  BY CalmFacts, StateTypes
<1>. k \in Attempts \X {"detect", "cleanup"}
  OBVIOUS
<1>1. CASE Cancel
  BY <1>1 DEF Cancel, CleanupKey, OutboxRow
<1>2. CASE Retry
  BY <1>2 DEF Retry, OutboxRow
<1>3. CASE Sweep
  BY <1>3 DEF Sweep, CleanupKey, OutboxRow
<1>4. ASSUME NEW j \in DOMAIN outbox, Publish(j) \/ PublishUnmarked(j) PROVE outbox[k].status = "PENDING"
  BY <1>4 DEF Publish, PublishUnmarked, OutboxRow
<1>5. ASSUME NEW h \in Handlers, HandlerActions(h) PROVE UNCHANGED outbox
  BY <1>5
     DEF HandlerActions, Works, Receive, Redirect, List, Skip, Phase, SetPending, Admit, Execute,
         Persist, RecordStep, Finalize, Verdict, FinalizeCleanup, Confirm, Dispatch, CancelList,
         Complete, Fail, Heartbeat, Crash, Expire
<1>. QED
  BY NextCases, <1>1, <1>2, <1>3, <1>4, <1>5 DEF LeaseExpires, vars

\* The first step is always due; when an attempt is over, so is its cleanup.
LEMMA DetectIsDue == \A a : Due(<<a, "detect">>)
  BY StepIndexes, ElevenSteps, StepIndexTyped DEF Due, Ready, StepsBefore

LEMMA CleanupIsDue ==
    ASSUME CalmStep, run.status \in Verdicts \union {"CANCEL_REQUESTED", "CANCELLED"}
    PROVE  Due(CleanupKey)
<1>. TypeOK /\ VerdictsFit /\ run.attempt \in Attempts
  BY CalmFacts DEF TypeOK
<1>1. CASE run.status \in Verdicts
  <2>1. ASSUME NEW s \in StepsBefore("cleanup") PROVE Guard!Settled(<<run.attempt, s>>)
    <3>1. s \in Steps /\ s # "cleanup" /\ <<run.attempt, s>> \in StepKeys
      BY StepsBeforeCleanup DEF StepKeys
    <3>2. rows[<<run.attempt, s>>].status \in TerminalStepStatuses
      BY <1>1, <3>1 DEF VerdictsFit, Fits, Book
    <3>3. rows[<<run.attempt, s>>].status \in Guard!RowStatuses
      BY <3>1 DEF TypeOK, Guard!TypeOK, Guard!Row
    <3>. QED
      BY <3>1, <3>2, <3>3, SettledMeans DEF TerminalStepStatuses, Guard!RowStatuses, Guard!Results
  <2>. QED
    BY <2>1 DEF Due, Ready, CleanupKey
<1>2. CASE run.status \in {"CANCEL_REQUESTED", "CANCELLED"}
  BY <1>2 DEF Due, Cancelling, CleanupKey
<1>. QED
  BY <1>1, <1>2

\* The step that the plan asks for is due.
LEMMA NextIsDue ==
    ASSUME CalmStep, NEW a \in Attempts, NextStepAction(Book(a)).action # "none"
    PROVE  Due(<<a, NextStepAction(Book(a)).step>>)
<1>. TypeOK /\ StepsAreDue
  BY CalmFacts
<1>. DEFINE rec == Book(a)
            next == NextStepAction(rec)
<1>1. CASE next.step = "cleanup" /\ rec["cleanup"].status \in {"FAILED", "INCOMPLETE"}
  <2>1. <<a, "cleanup">> \in StepKeys /\ rows[<<a, "cleanup">>].status # "ABSENT"
    BY <1>1, ElevenSteps DEF Book, StepKeys
  <2>. QED
    BY <1>1, <2>1 DEF StepsAreDue, RowIsDue
<1>2. CASE \A s \in StepsBefore(next.step) : SettledIn(rec, s)
  <2>1. \A s \in StepsBefore(next.step) : Guard!Settled(<<a, s>>)
    BY <1>2, BookSettled DEF StepsBefore
  <2>. QED
    BY <2>1 DEF Due, Ready
<1>3. \/ next.step = "cleanup" /\ rec["cleanup"].status \in {"FAILED", "INCOMPLETE"}
      \/ \A s \in StepsBefore(next.step) : SettledIn(rec, s)
  <2>1. next.action \in {"run", "skip"}
    BY NextStepIsDue
  <2>. HIDE DEF rec
  <2>. QED
    BY <2>1, NextStepIsDue
<1>. QED
  BY <1>1, <1>2, <1>3

\* What is due stays due.
LEMMA DueKept == ASSUME CalmStep, NEW k \in StepKeys, Due(k) PROVE Due(k)'
  BY CalmFacts, DueStays

\* How a handler comes to stand at the other places.
ArrivesLately(g) ==
    LET to == handler'[g].at IN
    /\ to = "redirect" => Receive(g)
    /\ to = "next" => List(g)
    /\ to = "confirm" => FinalizeCleanup(g)
    /\ to = "refresh" => RecordStep(g) \/ Finalize(g) \/ Verdict(g) \/ Confirm(g)
    /\ to = "failed" => \/ List(g) \/ Skip(g) \/ Phase(g) \/ SetPending(g) \/ Admit(g) \/ Persist(g)
                        \/ RecordStep(g) \/ Verdict(g) \/ FinalizeCleanup(g) \/ Confirm(g)

LEMMA LateArrivals == ASSUME CalmStep, NEW g \in Handlers, Works(g) PROVE ArrivesLately(g)
<1>. PacedStep
  BY CalmFacts
<1>. handler \in [Handlers -> HandlerState]
  BY CalmFacts, StateTypes
<1>. USE DEF ArrivesLately, HandlerState
<1>1. CASE Receive(g)
  <2>1. PICK job : handler' = [handler EXCEPT ![g] =
                        [IdleHandler EXCEPT !.at = Opening(job), !.job = job,
                                            !.owned = TRUE, !.snap = run.status]]
    BY <1>1 DEF Receive
  <2>2. handler'[g].at = Opening(job)
    BY <2>1 DEF IdleHandler
  <2>. QED
    BY <1>1, <2>2 DEF Opening
<1>2. CASE List(g)
  BY <1>2, Lists
<1>3. CASE Complete(g) \/ Fail(g)
  BY <1>3 DEF Complete, Fail, IdleHandler
<1>4. CASE RecordStep(g)
  BY <1>4 DEF RecordStep, AfterRecording, Goto
<1>5. CASE Phase(g) \/ Skip(g) \/ SetPending(g) \/ Redirect(g)
  BY <1>5 DEF Redirect, Skip, Phase, SetPending, Goto
<1>6. CASE Admit(g) \/ Persist(g)
  BY <1>6 DEF Admit, Persist, Goto, At
<1>7. CASE Execute(g)
  BY <1>7 DEF Execute, At
<1>8. CASE Finalize(g) \/ Verdict(g) \/ FinalizeCleanup(g) \/ Confirm(g)
  BY <1>8 DEF Finalize, Verdict, FinalizeCleanup, Confirm, Goto
<1>9. CASE Dispatch(g) \/ CancelList(g)
  BY <1>9 DEF Dispatch, CancelList, Goto
<1>. HIDE DEF ArrivesLately
<1>. QED
  BY <1>1, <1>2, <1>3, <1>4, <1>5, <1>6, <1>7, <1>8, <1>9 DEF Works

LEMMA Receives ==
    ASSUME CalmStep, NEW g \in Handlers, Receive(g)
    PROVE  \E job \in BagToSet(jobs) :
             /\ jobs' = jobs (-) SetToBag({job})
             /\ handler'[g] = [IdleHandler EXCEPT !.at = Opening(job), !.job = job,
                                                  !.owned = TRUE, !.snap = run.status]
             /\ job \in Jobs /\ <<job.attempt, job.step>> \in StepKeys
             /\ Due(<<job.attempt, job.step>>)
             /\ UNCHANGED <<run, rows, outbox>>
<1>. TypeOK /\ handler \in [Handlers -> HandlerState] /\ EverythingIsDue
  BY CalmFacts, StateTypes
<1>1. PICK job \in BagToSet(jobs) :
        /\ jobs' = jobs (-) SetToBag({job})
        /\ handler' = [handler EXCEPT ![g] =
                         [IdleHandler EXCEPT !.at = Opening(job), !.job = job,
                                             !.owned = TRUE, !.snap = run.status]]
  BY DEF Receive
<1>2. job \in Jobs
  BY DEF TypeOK
<1>3. <<job.attempt, job.step>> \in StepKeys
  BY <1>2 DEF Jobs, StepKeys
<1>4. UNCHANGED <<run, rows, outbox>>
  BY DEF Receive, guardVars
<1>. QED
  BY <1>1, <1>2, <1>3, <1>4 DEF EverythingIsDue

LEMMA EverythingDueStep == ASSUME CalmStep PROVE EverythingIsDue'
<1>. /\ TypeOK /\ [Next]_vars /\ EverythingIsDue /\ PastStepsAreSettled /\ LaterAttemptsAreBlank
     /\ StatusIsInside
  BY CalmFacts
<1>. /\ handler \in [Handlers -> HandlerState]
     /\ outbox \in [Attempts \X {"detect", "cleanup"} -> OutboxRow]
     /\ run.attempt \in Attempts /\ Attempts \subseteq Nat
     /\ "detect" \in Steps /\ "cleanup" \in Steps
  BY StateTypes, WorkflowAssumption, ElevenSteps
<1>0. TypeOK'
  BY TypeStep
<1>1. ASSUME NEW job \in BagToSet(jobs') PROVE Due(<<job.attempt, job.step>>)'
  <2>1. PICK k \in StepKeys : k = <<job.attempt, job.step>>
    BY <1>0 DEF TypeOK, Jobs, StepKeys
  <2>2. ASSUME NEW h \in Handlers, SentFor(job, h) PROVE Due(k)
    <3>0. Job(h).attempt \in Attempts
      BY StateTypes
    <3>1. CASE Redirect(h) /\ job = JobFor(Job(h).attempt, "cleanup")
      <4>1. Cancelling(Job(h).attempt)
        BY <3>1 DEF Redirect, EverythingIsDue
      <4>. QED
        BY <2>1, <3>1, <4>1 DEF Due, JobFor
    <3>2. CASE run.status = "CANCEL_REQUESTED" /\ job = JobFor(Job(h).attempt, "cleanup")
      <4>1. CASE Job(h).attempt = run.attempt
        BY <2>1, <3>2, <4>1 DEF Due, JobFor, Cancelling
      <4>2. CASE Job(h).attempt # run.attempt
        <5>0. Job(h).attempt \in Nat /\ run.attempt \in Nat
          BY <3>0
        <5>1. Job(h).attempt < run.attempt
          BY <4>2, <5>0 DEF LaterAttemptsAreBlank
        <5>2. ASSUME NEW s \in StepsBefore("cleanup")
              PROVE  Guard!Settled(<<Job(h).attempt, s>>)
          BY <3>0, <5>1, StepsBeforeCleanup DEF PastStepsAreSettled, StepKeys
        <5>. QED
          BY <2>1, <3>2, <5>2 DEF Due, JobFor, Ready
      <4>. QED
        BY <4>1, <4>2
    <3>3. CASE /\ NextStepAction(Book(Job(h).attempt)).action # "none"
               /\ job = JobFor(Job(h).attempt, NextStepAction(Book(Job(h).attempt)).step)
      BY <2>1, <3>0, <3>3, NextIsDue DEF JobFor
    <3>. QED
      BY <2>2, <3>1, <3>2, <3>3 DEF SentFor
  <2>3. ASSUME NEW h \in Handlers, DeliveredAgain(job, h) PROVE Due(k)
    <3>1. job.attempt = Job(h).attempt /\ job.step = Job(h).step
      BY <2>3, StateTypes DEF DeliveredAgain, Jobs
    <3>. QED
      BY <2>1, <3>1 DEF EverythingIsDue, Key
  <2>4. ASSUME NEW j \in DOMAIN outbox, outbox[j].status = "PENDING", job = JobFor(j[1], j[2])
        PROVE  Due(k)
    <3>1. j = <<j[1], j[2]>>
      OBVIOUS
    <3>. QED
      BY <2>1, <2>4, <3>1 DEF EverythingIsDue, JobFor
  <2>5. job \in BagToSet(jobs) => Due(k)
    BY <2>1 DEF EverythingIsDue
  <2>6. Due(k)
    BY <2>2, <2>3, <2>4, <2>5, JobsCome DEF JobComes
  <2>. QED
    BY <2>1, <2>6, DueKept
<1>2. ASSUME NEW g \in Handlers
      PROVE  Due(Key(g))' /\ (handler'[g].at = "redirect" => Cancelling(Job(g).attempt)')
  <2>. Key(g) \in StepKeys /\ Due(Key(g))
    BY StateTypes DEF EverythingIsDue
  <2>1. CASE UNCHANGED handler[g]
    <3>1. Key(g)' = Key(g) /\ Job(g)' = Job(g)
      BY <2>1 DEF Key, Job
    <3>2. PICK k \in StepKeys, a \in Attempts : k = Key(g) /\ a = Job(g).attempt
      BY StateTypes
    <3>3. Due(k)' /\ (Cancelling(a) => Cancelling(a)')
      BY <3>2, DueKept, CancellingStays
    <3>. QED
      BY <2>1, <3>1, <3>2, <3>3 DEF EverythingIsDue, At
  <2>2. CASE Receive(g)
    <3>1. PICK job \in BagToSet(jobs) :
            /\ handler'[g] = [IdleHandler EXCEPT !.at = Opening(job), !.job = job,
                                                 !.owned = TRUE, !.snap = run.status]
            /\ job \in Jobs /\ <<job.attempt, job.step>> \in StepKeys
            /\ Due(<<job.attempt, job.step>>) /\ UNCHANGED run
      BY <2>2, Receives
    <3>2. handler'[g].at = Opening(job) /\ handler'[g].job = job
      BY <3>1 DEF IdleHandler
    <3>3. Opening(job) = "redirect" => Cancelling(job.attempt)'
      BY <3>1 DEF Opening, Cancelling
    <3>4. PICK k \in StepKeys : k = <<job.attempt, job.step>>
      BY <3>1
    <3>5. Due(k)'
      BY <3>1, <3>4, DueKept
    <3>. QED
      BY <3>2, <3>3, <3>4, <3>5 DEF Key, Job
  <2>3. CASE Works(g) /\ ~Receive(g)
    <3>1. handler'[g].at # "redirect"
      BY <2>3, LateArrivals DEF ArrivesLately
    <3>2. CASE handler'[g].job = handler[g].job
      <4>1. PICK k \in StepKeys : k = Key(g) /\ k = Key(g)'
        BY <3>2 DEF Key, Job
      <4>. QED
        BY <3>1, <4>1, DueKept
    <3>3. CASE handler'[g] = IdleHandler
      <4>1. PICK k \in StepKeys : k = <<1, "detect">>
        BY WorkflowAssumption DEF StepKeys
      <4>2. Due(k)'
        BY <4>1, DetectIsDue, DueKept
      <4>3. Key(g)' = k
        BY <3>3, <4>1 DEF Key, Job, IdleHandler
      <4>. QED
        BY <3>1, <4>2, <4>3
    <3>. QED
      BY <2>3, <3>2, <3>3, Arrivals DEF ArrivesDuly
  <2>. QED
    BY <2>1, <2>2, <2>3, NoFaults
<1>3. ASSUME NEW k \in DOMAIN outbox', outbox'[k].status = "PENDING" PROVE Due(k)'
  <2>0. k \in Attempts \X {"detect", "cleanup"} /\ k \in DOMAIN outbox
    BY <1>0 DEF TypeOK
  <2>1. k \in StepKeys /\ k = <<k[1], k[2]>>
    BY <2>0 DEF StepKeys
  <2>2. CASE outbox[k].status = "PENDING"
    BY <2>0, <2>1, <2>2, DueKept DEF EverythingIsDue
  <2>3. CASE Cancel /\ k = CleanupKey
    <3>1. run'.status = "CANCEL_REQUESTED" /\ run'.attempt = run.attempt
      BY <2>3, StateTypes, CalmMoves DEF IsCancelled
    <3>. QED
      BY <2>1, <2>3, <3>1 DEF Due, Cancelling, CleanupKey
  <2>4. CASE k[2] = "detect"
    BY <2>1, <2>4, DetectIsDue, DueKept
  <2>5. CASE Sweep /\ k = CleanupKey
    <3>1. run.status \in Verdicts \union {"CANCEL_REQUESTED", "CANCELLED"}
      BY <2>5 DEF Sweep, SweptStatuses, TerminalRunStatuses, Verdicts
    <3>. QED
      BY <2>1, <2>5, <3>1, CleanupIsDue, DueKept
  <2>. QED
    BY <1>3, <2>0, <2>2, <2>3, <2>4, <2>5, RowsPend
<1>. QED
  BY <1>1, <1>2, <1>3 DEF EverythingIsDue, At

-----------------------------------------------------------------------------
LEMMA AnnouncedStep == ASSUME CalmStep PROVE CleanupIsAnnounced'
<1>. PacedStep
  BY CalmFacts
<1>. TypeOK /\ [Next]_vars /\ CleanupIsAnnounced /\ SkipsAreSpare /\ HandlersLive /\ StepsAreDue
  BY CalmFacts
<1>. /\ run \in [status : RunStatuses, attempt : Attempts, cleanup : CleanupStatuses]
     /\ handler \in [Handlers -> HandlerState] /\ CleanupKey \in StepKeys
  BY StateTypes
<1>. DEFINE Announced ==
       run'.status \in {"CANCEL_REQUESTED", "CANCELLED"} => run'.cleanup # "NOT_SCHEDULED"
<1>1. Announced
  <2>1. ASSUME NEW h \in Handlers, Advances(h) PROVE Announced
    <3>1. run'.status = PhaseForStep[Job(h).step] /\ PhaseForStep[Job(h).step] # NoPhase
      BY <2>1 DEF Advances, Goes
    <3>. QED
      BY <3>1, StateTypes, RanksAreNumbers, Phases, Ranks
  <2>2. ASSUME NEW h \in Handlers, GivesVerdict(h) PROVE Announced
    BY <2>2 DEF GivesVerdict, Goes, HandlerState, Verdicts
  <2>3. ASSUME NEW h \in Handlers, SetsPending(h) \/ RecordsCleanup(h) PROVE Announced
    BY <2>3 DEF SetsPending, RecordsCleanup, CleanupIsAnnounced
  <2>4. ASSUME NEW h \in Handlers, Confirms(h) PROVE Announced
    BY <2>4 DEF Confirms, Goes, CleanupIsAnnounced
  <2>5. IsCancelled => Announced
    BY DEF IsCancelled
  <2>6. IsRetried => Announced
    BY DEF IsRetried
  <2>7. UNCHANGED run => Announced
    BY DEF CleanupIsAnnounced
  <2>. HIDE DEF Announced
  <2>. QED
    BY RunStep, CalmMoves, <2>1, <2>2, <2>3, <2>4, <2>5, <2>6, <2>7 DEF RunMoves
<1>2. ASSUME run'.cleanup = "NOT_SCHEDULED", run'.attempt = run.attempt
      PROVE  /\ run.cleanup = "NOT_SCHEDULED" /\ CleanupKey' = CleanupKey
             /\ rows[CleanupKey].status = "ABSENT"
             /\ \A h \in Handlers :
                   Key(h) = CleanupKey
                     => handler[h].at \notin {"admit", "guard", "record", "cleanup", "confirm"}
  BY <1>2, RunKeeps DEF CleanupIsAnnounced, CleanupKey
<1>3. ASSUME run'.cleanup = "NOT_SCHEDULED" PROVE rows'[CleanupKey'].status = "ABSENT"
  <2>1. CASE run'.attempt # run.attempt
    BY <2>1, AfterRetry, ElevenSteps DEF CleanupKey
  <2>2. CASE run'.attempt = run.attempt
    <3>1. ASSUME NEW h \in Handlers
          PROVE  /\ ~Begins(h, CleanupKey) /\ ~Skips(h, CleanupKey)
                 /\ ~Records(h, CleanupKey) /\ ~GivesBack(h, CleanupKey)
      <4>1. ~Begins(h, CleanupKey) /\ ~Records(h, CleanupKey) /\ ~GivesBack(h, CleanupKey)
        BY <1>2, <1>3, <2>2 DEF Begins, Records, GivesBack, At
      <4>2. ~Skips(h, CleanupKey)
        BY DEF Skips, SkipsAreSpare, Unskipped, CleanupKey
      <4>. QED
        BY <4>1, <4>2
    <3>2. SaysTheSame(CleanupKey)
      BY <3>1, CalmFacts, RowStep DEF RowMoves
    <3>. QED
      BY <1>2, <1>3, <2>2, <3>2 DEF SaysTheSame
  <2>. QED
    BY <2>1, <2>2
<1>4. ASSUME NEW g \in Handlers, handler'[g].at = "setPending" PROVE handler'[g].job.step = "cleanup"
  <2>1. CASE UNCHANGED handler[g]
    BY <1>4, <2>1 DEF CleanupIsAnnounced, At, Job
  <2>2. CASE Phase(g)
    BY <1>4, <2>2 DEF Phase, Goto, HandlerState, Job
  <2>3. CASE CancelList(g)
    BY <1>4, <2>3 DEF CancelList, StepsAreDue, GoesForDue, HandlerState, Job, At, Goto
  <2>. QED
    BY <1>4, <2>1, <2>2, <2>3, NoFaults, Arrivals DEF ArrivesDuly
<1>5. ASSUME NEW g \in Handlers, Key(g)' = CleanupKey', run'.cleanup = "NOT_SCHEDULED",
             handler'[g].at \in {"admit", "guard", "record", "cleanup", "confirm"}
      PROVE  FALSE
  <2>1. run'.attempt = run.attempt /\ ~(UNCHANGED handler[g])
    <3>1. CASE run'.attempt # run.attempt
      BY <1>5, <3>1, AfterRetry DEF Key, CleanupKey, Job
    <3>2. CASE run'.attempt = run.attempt /\ UNCHANGED handler[g]
      BY <1>2, <1>5, <3>2 DEF Key, Job
    <3>. QED
      BY <3>1, <3>2
  <2>2. Works(g) /\ ArrivesDuly(g) /\ ArrivesLately(g)
    BY <2>1, NoFaults, Arrivals, LateArrivals
  <2>3. ~Receive(g)
    <3>1. ASSUME Receive(g) PROVE handler'[g].at \in {"done", "list", "cancelList", "redirect"}
      <4>1. PICK job : handler'[g] = [IdleHandler EXCEPT !.at = Opening(job), !.job = job,
                                                         !.owned = TRUE, !.snap = run.status]
        BY <3>1, Receives
      <4>. QED
        BY <4>1 DEF Opening, IdleHandler
    <3>. QED
      BY <1>5, <3>1
  <2>4. handler'[g].job = handler[g].job /\ Key(g) = CleanupKey
    BY <1>2, <1>5, <2>1, <2>2, <2>3 DEF ArrivesDuly, Key, Job
  <2>5. handler[g].at \notin {"admit", "guard", "record", "cleanup", "confirm"}
    BY <1>2, <1>5, <2>1, <2>4
  <2>6. ~SetPending(g)
    <3>1. Current(g)
      BY <2>4 DEF Key, CleanupKey, Current
    <3>. QED
      BY <1>5, <3>1 DEF SetPending
  <2>7. Phase(g) => handler'[g].at # "admit"
    BY <2>4, Phases DEF Phase, Key, CleanupKey, Goto, HandlerState
  <2>. QED
    BY <1>5, <2>2, <2>5, <2>6, <2>7
       DEF ArrivesDuly, ArrivesLately, Admit, Execute, Persist, RecordStep, FinalizeCleanup, At
<1>. QED
  BY <1>1, <1>3, <1>4, <1>5 DEF CleanupIsAnnounced, At, Job

-----------------------------------------------------------------------------
\* A row that is RUNNING has its handler, whose lease is live.
LEMMA HasHolder ==
    ASSUME CalmStep, NEW k \in StepKeys, rows[k].status = "RUNNING"
    PROVE  /\ \E h \in Handlers : At(h, "guard") /\ Key(h) = k
           /\ ~Guard!Free(k)
<1>1. PICK h \in Handlers : At(h, "guard") /\ Key(h) = k
  BY CalmFacts DEF RowsAreWorkedOn
<1>2. HasTheLease(h)
  BY <1>1, CalmFacts DEF LeasesHold, CalmStep, Undisturbed
<1>. QED
  BY <1>1, <1>2 DEF HasTheLease, Guard!Free

\* A step that is admitted has not been tried before, unless it is the cleanup.
LEMMA AdmitsTheFirst ==
    ASSUME CalmStep, NEW k \in StepKeys, k[2] # "cleanup", ~Guard!Settled(k)
    PROVE  rows[k].status \in {"ABSENT", "RUNNING"}
<1>1. rows[k].status \in Guard!RowStatuses /\ k = <<k[1], k[2]>> /\ k[2] \in Steps /\ k[1] \in Attempts
  BY CalmFacts DEF TypeOK, Guard!TypeOK, Guard!Row, StepKeys
<1>2. rows[k].status # "PENDING"
  BY CalmFacts DEF RowsAreWorkedOn
<1>. QED
  BY <1>1, <1>2, SettledMeans DEF Guard!RowStatuses, Guard!Results

\* The first open step of an attempt that is not being cancelled is the next.
LEMMA OpenStepIsNext ==
    ASSUME CalmStep, NEW a \in Attempts, NEW s \in Steps \ {"cleanup"}, ~Cancelling(a),
           Ready(<<a, s>>), ~Guard!Settled(<<a, s>>)
    PROVE  /\ NextStepAction(Book(a)).step = s
           /\ NextStepAction(Book(a)).action \in {"run", "skip"}
           /\ s \in Unskipped => NextStepAction(Book(a)).action = "run"
<1>. PacedStep
  BY CalmFacts
<1>. TypeOK /\ StepsAreDue
  BY CalmFacts
<1>. DEFINE rec == Book(a)
<1>1. ~SettledIn(rec, s) /\ \A t \in StepsBefore(s) : SettledIn(rec, t)
  BY SettledBook DEF Ready, StepsBefore
<1>2. rec["cleanup"].status \notin {"FAILED", "INCOMPLETE"}
  <2>1. SUFFICES ASSUME rec["cleanup"].status # "ABSENT" PROVE FALSE
    OBVIOUS
  <2>2. <<a, "cleanup">> \in StepKeys /\ rows[<<a, "cleanup">>].status # "ABSENT"
    BY <2>1, ElevenSteps DEF Book, StepKeys
  <2>3. Ready(<<a, "cleanup">>)
    BY <2>2 DEF StepsAreDue, RowIsDue, Due
  <2>. QED
    BY <2>3, ReadyMeans
<1>3. NextStepAction(rec) = [action |-> IF ShouldSkip(rec, s) THEN "skip" ELSE "run", step |-> s]
  <2>. HIDE DEF rec
  <2>. QED
    BY <1>1, <1>2, NextStepIsFirst
<1>4. NextStepAction(rec).step = s /\ NextStepAction(rec).action \in {"run", "skip"}
  BY <1>3
<1>. QED
  BY <1>4, PlansToSkip

LEMMA RetriesStep == ASSUME CalmStep PROVE ReportsHaveARetry'
<1>. PacedStep
  BY CalmFacts
<1>. /\ TypeOK /\ [Next]_vars /\ ReportsHaveARetry /\ StepsAreDue /\ EverythingIsDue
     /\ StatusKeepsPace /\ SkipsAreSpare /\ CleanupIsAnnounced /\ VerdictsFit
  BY CalmFacts
<1>. /\ handler \in [Handlers -> HandlerState] /\ ReportKey \in StepKeys
     /\ "report" \in Steps /\ run.attempt \in Attempts
  BY StateTypes, ElevenSteps
<1>0. "CANCEL_REQUESTED" \notin Underway /\ "CANCELLED" \notin Underway
  BY Ranks
<1>1. ASSUME NEW g \in Handlers, handler'[g].at = "skip" PROVE handler'[g].job.step # "report"
  <2>1. CASE UNCHANGED handler[g]
    BY <1>1, <2>1 DEF ReportsHaveARetry, At, Job
  <2>2. CASE Works(g)
    <3>1. List(g)
      BY <1>1, <2>2, Arrivals DEF ArrivesDuly
    <3>2. Planned(g).action = "skip" /\ handler'[g].job = handler[g].job
      BY <1>1, <3>1, Lists
    <3>3. SUFFICES ASSUME Job(g).step = "report" PROVE FALSE
      BY <3>2 DEF Job
    <3>4. PICK a \in Attempts : a = Job(g).attempt
      BY StateTypes
    <3>. DEFINE s == NextStepAction(Book(a)).step
    <3>5. s \in Steps /\ s \notin Unskipped /\ ~Guard!Settled(<<a, s>>)
      <4>1. NextStepAction(Book(a)).action = "skip"
        BY <3>2, <3>4 DEF Planned
      <4>2. ~SettledIn(Book(a), s)
        BY <4>1, NextStepIsOpen
      <4>. QED
        BY <4>1, <4>2, PlansToSkip, NextStepTyped, SettledBook
    <3>. HIDE DEF s
    <3>6. Ready(<<a, "report">>)
      BY <3>3, <3>4 DEF EverythingIsDue, Due, Key
    <3>7. s \in StepsBefore("report")
      BY <3>5, StepsBeforeCleanup DEF Unskipped
    <3>. QED
      BY <3>5, <3>6, <3>7 DEF Ready
  <2>. QED
    BY <2>1, <2>2, NoFaults
<1>2. ASSUME run'.attempt = run.attempt, rows'[ReportKey].status = "ABSENT"
      PROVE  rows[ReportKey].status = "ABSENT"
  <2>1. ASSUME NEW h \in Handlers
        PROVE  /\ ~Begins(h, ReportKey) /\ ~Skips(h, ReportKey)
               /\ ~Records(h, ReportKey) /\ ~GivesBack(h, ReportKey)
    <3>1. handler[h].result.status # "ABSENT"
      BY DEF HandlerState, StepResults, Passed, AppFailure, HardFailed, Incomplete
    <3>. QED
      BY <1>2, <3>1 DEF Begins, Skips, Records, GivesBack
  <2>. QED
    BY <1>2, <2>1, CalmFacts, RowStep DEF RowMoves, SaysTheSame
<1>3. ASSUME NEW g \in Handlers, run.status \in Underway, Key(g) = ReportKey, ~Guard!Settled(ReportKey)
      PROVE  /\ ~Cancelling(Job(g).attempt) /\ Job(g).attempt = run.attempt /\ Job(g).step = "report"
             /\ Ready(<<run.attempt, "report">>)
             /\ Planned(g).action = "run" /\ Planned(g).step = "report"
  <2>1. Job(g).attempt = run.attempt /\ Job(g).step = "report" /\ ~Cancelling(run.attempt)
    BY <1>0, <1>3 DEF Key, ReportKey, Cancelling
  <2>2. Ready(ReportKey)
    BY <1>3 DEF EverythingIsDue, Due, ReportKey
  <2>. QED
    BY <1>3, <2>1, <2>2, OpenStepIsNext DEF Planned, Unskipped, ReportKey
<1>4. ASSUME Ready(ReportKey), run.status \in Underway PROVE run.status = "REPORTING"
  <2>1. Guard!Settled(<<run.attempt, "review">>) /\ "review" \in Steps
    BY <1>4, StepsBeforeCleanup, ElevenSteps DEF Ready, ReportKey
  <2>2. rows[<<run.attempt, "review">>].status \notin {"ABSENT", "SKIPPED"}
    <3>1. <<run.attempt, "review">> \in StepKeys
      BY <2>1 DEF StepKeys
    <3>. QED
      BY <2>1, <3>1, SettledMeans DEF SkipsAreSpare, Unskipped
  <2>3. 4 <= PhaseRank[run.status]
    BY <1>4, <2>1, <2>2, StepRanks DEF StatusKeepsPace
  <2>. QED
    BY <1>4, <2>3, Ranks
<1>. HIDE DEF Underway
<1>5. ASSUME run'.status \in Underway, rows'[ReportKey'].status = "ABSENT"
      PROVE  /\ \A job \in BagToSet(jobs') :
                    job.attempt = run'.attempt /\ job.step = "report" => job.left = 1
             /\ \A h \in Handlers : Key(h)' = ReportKey' =>
                    /\ handler'[h].at # "failed"
                    /\ handler'[h].at \in {"list", "phase"} => handler'[h].snap = "REPORTING"
  <2>1. ASSUME run'.attempt = run.attempt
        PROVE  /\ ReportKey' = ReportKey /\ run.status \in Underway
               /\ rows[ReportKey].status = "ABSENT" /\ ~Guard!Settled(ReportKey)
    <3>1. ReportKey' = ReportKey
      BY <2>1 DEF ReportKey
    <3>2. rows[ReportKey].status = "ABSENT"
      BY <1>2, <1>5, <2>1, <3>1
    <3>. QED
      BY <1>5, <2>1, <3>1, <3>2, RunKeeps DEF Guard!Settled, Guard!Stands, Guard!Results
  <2>2. ASSUME NEW job \in BagToSet(jobs'), job.attempt = run'.attempt, job.step = "report"
        PROVE  job.left = 1
    <3>1. CASE job \in BagToSet(jobs)
      <4>1. run'.attempt = run.attempt
        BY <2>2, <3>1, AfterRetry
      <4>. QED
        BY <2>1, <2>2, <3>1, <4>1 DEF ReportsHaveARetry
    <3>2. ASSUME NEW h \in Handlers, SentFor(job, h) PROVE job.left = 1
      BY <3>2 DEF SentFor, JobFor, MaxDeliveryRetries
    <3>3. ASSUME NEW h \in Handlers, DeliveredAgain(job, h) PROVE FALSE
      <4>1. job.attempt = Job(h).attempt /\ job.step = Job(h).step /\ At(h, "failed")
        BY <3>3, StateTypes DEF DeliveredAgain, Jobs, Fail
      <4>2. run'.attempt = run.attempt
        BY <2>2, <4>1, AfterRetry
      <4>3. Key(h) = ReportKey
        BY <2>2, <4>1, <4>2 DEF Key, ReportKey
      <4>. QED
        BY <2>1, <4>1, <4>2, <4>3 DEF ReportsHaveARetry
    <3>4. ASSUME NEW k \in DOMAIN outbox, job = JobFor(k[1], k[2]) PROVE FALSE
      BY <2>2, <3>4, StateTypes DEF JobFor
    <3>. QED
      BY JobsCome, <3>1, <3>2, <3>3, <3>4 DEF JobComes
  <2>3. ASSUME NEW g \in Handlers, Key(g)' = ReportKey'
        PROVE  /\ handler'[g].at # "failed"
               /\ handler'[g].at \in {"list", "phase"} => handler'[g].snap = "REPORTING"
    <3>1. CASE Receive(g)
      <4>1. PICK job \in BagToSet(jobs) :
              /\ handler'[g] = [IdleHandler EXCEPT !.at = Opening(job), !.job = job,
                                                   !.owned = TRUE, !.snap = run.status]
              /\ Due(<<job.attempt, job.step>>) /\ UNCHANGED run
        BY <3>1, Receives
      <4>2. handler'[g].at = Opening(job) /\ handler'[g].job = job /\ handler'[g].snap = run.status
        BY <4>1 DEF IdleHandler
      <4>3. <<job.attempt, job.step>> = ReportKey /\ run.status \in Underway
        BY <2>1, <2>3, <4>1, <4>2 DEF Key, Job
      <4>4. Ready(ReportKey)
        BY <4>1, <4>3 DEF Due, ReportKey
      <4>. QED
        BY <1>4, <4>2, <4>3, <4>4 DEF Opening
    <3>2. CASE ~Receive(g)
      <4>1. run'.attempt = run.attempt
        BY <2>3, AfterRetry DEF Key, ReportKey, Job
      <4>2. CASE UNCHANGED handler[g]
        BY <2>1, <2>3, <4>1, <4>2 DEF ReportsHaveARetry, Key, Job, At
      <4>3. CASE Works(g) /\ handler'[g].job = handler[g].job
        <5>1. /\ Key(g) = ReportKey /\ Job(g).step = "report"
              /\ Planned(g).action = "run" /\ Planned(g).step = "report"
              /\ ~At(g, "failed")
              /\ handler[g].at \in {"list", "phase"} => handler[g].snap = "REPORTING"
          <6>1. Key(g) = ReportKey
            BY <2>1, <2>3, <4>1, <4>3 DEF Key, Job
          <6>. QED
            BY <1>3, <2>1, <4>1, <6>1 DEF ReportsHaveARetry
        <5>2. ArrivesDuly(g) /\ ArrivesLately(g)
          BY <4>3, Arrivals, LateArrivals
        <5>3. ~Skip(g) /\ ~SetPending(g)
          BY <5>1 DEF Skip, SetPending, ReportsHaveARetry, CleanupIsAnnounced
        <5>4. handler'[g].at = "list" => FALSE
          BY <3>2, <5>2, <5>3 DEF ArrivesDuly
        <5>5. handler'[g].at = "phase" => handler'[g].snap = "REPORTING"
          <6>1. handler'[g].at = "phase" => List(g)
            BY <5>2 DEF ArrivesDuly
          <6>. QED
            BY <5>1, <6>1, Lists DEF At
        <5>6. ASSUME handler'[g].at = "failed" PROVE FALSE
          <6>1. ~List(g)
            BY <5>1, <5>6, Lists
          <6>2. ~Phase(g)
            BY <5>1, <5>6, Phases DEF Phase, Goto, HandlerState, At
          <6>3. ~Admit(g)
            <7>1. ~Guard!Busy(g, Key(g))
              BY <2>1, <4>1, <5>1 DEF Guard!Busy, Guard!Free
            <7>. QED
              BY <5>6, <7>1 DEF Admit, Goto, HandlerState
          <6>4. ~Persist(g)
            <7>1. SUFFICES ASSUME Persist(g) PROVE FALSE
              OBVIOUS
            <7>2. Executes(g) \/ Finishes(g)
              BY <4>3, <7>1, AtGuard DEF Persist
            <7>. QED
              BY <5>6, <7>1, <7>2 DEF Executes, Finishes, Persist, HandlerState, At
          <6>5. ~RecordStep(g) /\ ~Verdict(g)
            <7>1. ~RecordStep(g)
              BY <2>1, <4>1, <5>1 DEF RecordStep, VerdictsFit, VerdictFits
            <7>2. ASSUME Verdict(g) PROVE FALSE
              <8>1. Fits(handler[g].verdict, Book(Job(g).attempt)) /\ Job(g).attempt = run.attempt
                BY <5>1, <7>2 DEF Verdict, VerdictsFit, VerdictFits, Key, ReportKey
              <8>2. "report" \in StepsBefore("cleanup")
                BY StepsBeforeCleanup
              <8>3. rows[ReportKey].status \in TerminalStepStatuses
                BY <8>1, <8>2 DEF Fits, Book, ReportKey
              <8>. QED
                BY <2>1, <4>1, <8>3 DEF TerminalStepStatuses
            <7>. QED
              BY <7>1, <7>2
          <6>6. ~FinalizeCleanup(g)
            BY <5>1, CalmFacts DEF FinalizeCleanup, CleanupsAreRecorded, CleanupIsRecorded
          <6>7. ~Confirm(g)
            BY <1>0, <2>1, <4>1, <5>6 DEF Confirm, Goto, HandlerState
          <6>. QED
            BY <5>2, <5>3, <5>6, <6>1, <6>2, <6>3, <6>4, <6>5, <6>6, <6>7 DEF ArrivesLately
        <5>. QED
          BY <5>4, <5>5, <5>6
      <4>4. CASE handler'[g] = IdleHandler
        BY <4>4 DEF IdleHandler
      <4>. QED
        BY <3>2, <4>2, <4>3, <4>4, NoFaults, Arrivals DEF ArrivesDuly
    <3>. QED
      BY <3>1, <3>2
  <2>. QED
    BY <2>2, <2>3
<1>6. ASSUME run'.status \in Underway \union {"CANCEL_REQUESTED"},
             NEW g \in Handlers, Key(g)' = ReportKey'
      PROVE  ReportIsFresh(g)'
  <2>. SUFFICES /\ rows'[ReportKey'].status = "ABSENT" /\ handler'[g].at \in {"list", "phase", "admit"}
                     => handler'[g].job.left = 1
                /\ handler'[g].at = "guard" => handler'[g].job.left = 1
    BY DEF ReportIsFresh, At, Job
  <2>1. CASE Receive(g)
    <3>1. PICK job \in BagToSet(jobs) :
            /\ handler'[g] = [IdleHandler EXCEPT !.at = Opening(job), !.job = job,
                                                 !.owned = TRUE, !.snap = run.status]
            /\ UNCHANGED <<run, rows>>
      BY <2>1, Receives
    <3>2. handler'[g].at = Opening(job) /\ handler'[g].job = job
      BY <3>1 DEF IdleHandler
    <3>3. job.attempt = run.attempt /\ job.step = "report" /\ ReportKey' = ReportKey
      BY <1>6, <3>1, <3>2 DEF Key, Job, ReportKey
    <3>4. Opening(job) \in {"list", "redirect"} /\ (Opening(job) = "list" => run.status \in Underway)
      BY <1>6, <3>1, <3>3 DEF Opening
    <3>. QED
      BY <3>1, <3>2, <3>3, <3>4 DEF ReportsHaveARetry
  <2>2. CASE handler'[g] = IdleHandler
    BY <2>2 DEF IdleHandler
  <2>3. CASE handler'[g].job = handler[g].job /\ ~Receive(g)
    <3>1. run'.attempt = run.attempt
      BY <1>6, <2>3, AfterRetry DEF Key, ReportKey, Job
    <3>2. ReportKey' = ReportKey /\ Key(g) = ReportKey /\ Job(g).step = "report"
      BY <1>6, <2>3, <3>1 DEF ReportKey, Key, Job
    <3>3. ReportIsFresh(g)
      BY <1>6, <3>1, <3>2, RunKeeps DEF ReportsHaveARetry
    <3>4. rows'[ReportKey'].status = "ABSENT" => rows[ReportKey].status = "ABSENT"
      BY <1>2, <3>1, <3>2
    <3>5. CASE UNCHANGED handler[g]
      BY <3>3, <3>4, <3>5 DEF ReportIsFresh, At, Job
    <3>6. CASE Works(g)
      <4>1. ArrivesDuly(g)
        BY <3>6, Arrivals
      <4>2. ~Skip(g) /\ ~SetPending(g)
        BY <3>2 DEF Skip, SetPending, ReportsHaveARetry, CleanupIsAnnounced
      <4>3. handler'[g].at # "list"
        BY <2>3, <4>1, <4>2 DEF ArrivesDuly
      <4>4. handler'[g].at \in {"phase", "admit"} => handler[g].at \in {"list", "phase"}
        BY <4>1, <4>2 DEF ArrivesDuly, List, Phase, At
      <4>5. ASSUME handler'[g].at = "guard" PROVE Job(g).left = 1
        <5>1. CASE At(g, "guard")
          BY <3>3, <5>1 DEF ReportIsFresh
        <5>2. CASE ~At(g, "guard")
          <6>1. Admit(g)
            BY <4>1, <4>5, <5>2 DEF ArrivesDuly, Execute, Persist
          <6>2. Guard!Admit(g, Key(g)) /\ At(g, "admit")
            BY <4>5, <6>1 DEF Admit, Goto, HandlerState
          <6>3. rows[ReportKey].status = "ABSENT"
            BY <3>2, <6>2, AdmitsTheFirst, HasHolder DEF Guard!Admit, Guard!Leased, Guard!Free, ReportKey
          <6>. QED
            BY <3>3, <6>2, <6>3 DEF ReportIsFresh, At
        <5>. QED
          BY <5>1, <5>2
      <4>. QED
        BY <2>3, <3>3, <3>4, <4>3, <4>4, <4>5 DEF ReportIsFresh, Job
    <3>. QED
      BY <3>5, <3>6, NoFaults
  <2>. QED
    BY <2>1, <2>2, <2>3, NoFaults, Arrivals DEF ArrivesDuly
<1>. QED
  BY <1>1, <1>5, <1>6 DEF ReportsHaveARetry, At, Job

-----------------------------------------------------------------------------
\* What handlers know of the Run, and of each other's steps, is kept by a calm step.
LEMMA AuxiliariesStep == ASSUME CalmStep PROVE Auxiliaries'
  BY LiveStep, WorkedOnStep, EverythingDueStep, SparesStep, PaceStep, HandlersPaceStep,
     AnnouncedStep, RetriesStep DEF Auxiliaries

\* Where a handler stands says what it does next.
ActsByItsPlace(h) ==
    /\ At(h, "idle") => Receive(h)
    /\ At(h, "redirect") => Redirect(h)
    /\ At(h, "list") => List(h)
    /\ At(h, "skip") => Skip(h)
    /\ At(h, "phase") => Phase(h)
    /\ At(h, "setPending") => SetPending(h)
    /\ At(h, "admit") => Admit(h)
    /\ At(h, "record") => RecordStep(h)
    /\ At(h, "finalize") => Finalize(h)
    /\ At(h, "verdict") => Verdict(h)
    /\ At(h, "cleanup") => FinalizeCleanup(h)
    /\ At(h, "confirm") => Confirm(h)
    /\ At(h, "refresh") \/ At(h, "next") => Dispatch(h)
    /\ At(h, "cancelList") => CancelList(h)
    /\ At(h, "done") => Complete(h)
    /\ At(h, "failed") => Fail(h)

LEMMA Acts == ASSUME NEW h \in Handlers, Works(h) PROVE ActsByItsPlace(h)
<1>. DEFINE Possible ==
       \/ At(h, "idle") /\ Receive(h)
       \/ At(h, "redirect") /\ Redirect(h)
       \/ At(h, "list") /\ List(h)
       \/ At(h, "skip") /\ Skip(h)
       \/ At(h, "phase") /\ Phase(h)
       \/ At(h, "setPending") /\ SetPending(h)
       \/ At(h, "admit") /\ Admit(h)
       \/ At(h, "guard") /\ (Execute(h) \/ Persist(h))
       \/ At(h, "record") /\ RecordStep(h)
       \/ At(h, "finalize") /\ Finalize(h)
       \/ At(h, "verdict") /\ Verdict(h)
       \/ At(h, "cleanup") /\ FinalizeCleanup(h)
       \/ At(h, "confirm") /\ Confirm(h)
       \/ At(h, "refresh") /\ Dispatch(h)
       \/ At(h, "next") /\ Dispatch(h)
       \/ At(h, "cancelList") /\ CancelList(h)
       \/ At(h, "done") /\ Complete(h)
       \/ At(h, "failed") /\ Fail(h)
<1>1. /\ Receive(h) => At(h, "idle")
      /\ Redirect(h) => At(h, "redirect")
      /\ List(h) => At(h, "list")
      /\ Skip(h) => At(h, "skip")
      /\ Phase(h) => At(h, "phase")
      /\ SetPending(h) => At(h, "setPending")
  BY DEF Receive, Redirect, List, Skip, Phase, SetPending
<1>2. /\ Admit(h) => At(h, "admit")
      /\ Execute(h) \/ Persist(h) => At(h, "guard")
      /\ RecordStep(h) => At(h, "record")
      /\ Finalize(h) => At(h, "finalize")
      /\ Verdict(h) => At(h, "verdict")
      /\ FinalizeCleanup(h) => At(h, "cleanup")
  BY DEF Admit, Execute, Persist, RecordStep, Finalize, Verdict, FinalizeCleanup
<1>3. /\ Confirm(h) => At(h, "confirm")
      /\ Dispatch(h) => At(h, "refresh") \/ At(h, "next")
      /\ CancelList(h) => At(h, "cancelList")
      /\ Complete(h) => At(h, "done")
      /\ Fail(h) => At(h, "failed")
  BY DEF Confirm, Dispatch, CancelList, Complete, Fail
<1>4. Possible
  BY <1>1, <1>2, <1>3 DEF Works
<1>5. \A p \in Places, q \in Places : At(h, p) /\ At(h, q) => p = q
  BY DEF At
<1>. QED
  BY <1>4, <1>5 DEF ActsByItsPlace, Places

\* A handler at work leaves the others where they are.
LEMMA OthersRest ==
    ASSUME CalmStep, NEW g \in Handlers, NEW h \in Handlers, g # h, Works(g)
    PROVE  UNCHANGED handler[h]
<1>. handler \in [Handlers -> HandlerState]
  BY CalmFacts, StateTypes
<1>. QED
  BY DEF Works, Receive, Redirect, List, Skip, Phase, SetPending, Admit, Execute, Persist, RecordStep,
         Finalize, Verdict, FinalizeCleanup, Confirm, Dispatch, CancelList, Complete, Fail, Goto

-----------------------------------------------------------------------------
\* What is to be delivered stays so until it is received.
LEMMA BagKeepsTheOthers ==
    ASSUME NEW B, IsABag(B), NEW e, NEW x \in BagToSet(B), x # e
    PROVE  x \in BagToSet(B (-) SetToBag({e}))
  BY DEF IsABag, (-), SetToBag, BagToSet

LEMMA BagKeepsAll ==
    ASSUME NEW B, IsABag(B), NEW S, NEW x \in BagToSet(B), S = EmptyBag \/ \E e : S = SetToBag({e})
    PROVE  x \in BagToSet(B (+) S)
<1>1. CASE S = EmptyBag
  BY <1>1, BagWithNoMore
<1>2. ASSUME NEW e, S = SetToBag({e}) PROVE x \in BagToSet(B (+) S)
  <2>1. BagToSet(B (+) SetToBag({e})) = BagToSet(B) \union {e}
    BY BagWithOneMore
  <2>. QED
    BY <1>2, <2>1
<1>. QED
  BY <1>1, <1>2

ReceivesCurrent(h) ==
    /\ Receive(h) /\ Current(h)' /\ UNCHANGED <<run, rows>>
    /\ handler'[h].at = Opening(Job(h)') /\ handler'[h].snap = run.status

LEMMA JobsStay ==
    ASSUME CalmStep, NEW job \in BagToSet(jobs), job.attempt = run'.attempt
    PROVE  job \in BagToSet(jobs') \/ \E h \in Handlers : ReceivesCurrent(h)
<1>. IsABag(jobs) /\ [Next]_vars
  BY CalmFacts, StateTypes
<1>1. ASSUME NEW h \in Handlers, Receive(h) PROVE job \in BagToSet(jobs') \/ ReceivesCurrent(h)
  <2>1. PICK new \in BagToSet(jobs) :
           /\ jobs' = jobs (-) SetToBag({new})
           /\ handler'[h] = [IdleHandler EXCEPT !.at = Opening(new), !.job = new,
                                                !.owned = TRUE, !.snap = run.status]
           /\ UNCHANGED <<run, rows>>
    BY <1>1, Receives
  <2>2. CASE new # job
    BY <2>1, <2>2, BagKeepsTheOthers
  <2>3. CASE new = job
    <3>1. handler'[h].job = job /\ handler'[h].at = Opening(job) /\ handler'[h].snap = run.status
      BY <2>1, <2>3 DEF IdleHandler
    <3>. QED
      BY <1>1, <2>1, <3>1 DEF ReceivesCurrent, Current, Job
  <2>. QED
    BY <2>2, <2>3
<1>2. ASSUME NEW S, jobs' = jobs (+) S, S = EmptyBag \/ \E e : S = SetToBag({e})
      PROVE  job \in BagToSet(jobs')
  BY <1>2, BagKeepsAll
<1>3. ASSUME NEW a, NEW s, Send(a, s) PROVE job \in BagToSet(jobs')
  BY <1>2, <1>3 DEF Send
<1>4. ASSUME NEW h \in Handlers, Fail(h) PROVE job \in BagToSet(jobs')
  BY <1>2, <1>4 DEF Fail, Redelivered
<1>5. UNCHANGED jobs => job \in BagToSet(jobs')
  OBVIOUS
<1>6. ASSUME NEW h \in Handlers, HandlerActions(h) PROVE Receive(h) \/ job \in BagToSet(jobs')
  BY <1>3, <1>4, <1>5, <1>6, NoFaults
     DEF HandlerActions, Heartbeat, Works, Redirect, List, Skip, Phase, SetPending, Admit, Execute,
         Persist, RecordStep, Finalize, Verdict, FinalizeCleanup, Confirm, Dispatch, CancelList,
         Complete
<1>7. ASSUME NEW k \in DOMAIN outbox, Publish(k) \/ PublishUnmarked(k) PROVE job \in BagToSet(jobs')
  BY <1>3, <1>7 DEF Publish, PublishUnmarked
<1>. QED
  BY NextCases, <1>1, <1>5, <1>6, <1>7 DEF LeaseExpires, Cancel, Retry, Sweep, vars

\* A job sent for the Run's attempt is to be delivered.
LEMMA SentIsDelivered ==
    ASSUME CalmStep, NEW s, Send(run'.attempt, s)
    PROVE  Delivered'
<1>1. IsABag(jobs)
  BY CalmFacts, StateTypes
<1>2. JobFor(run'.attempt, s) \in BagToSet(jobs')
  BY <1>1, BagWithOneMore DEF Send
<1>3. JobFor(run'.attempt, s).attempt = run'.attempt
  BY DEF JobFor
<1>. QED
  BY <1>2, <1>3 DEF Delivered

LEMMA RowsStay ==
    ASSUME CalmStep, NEW k \in DOMAIN outbox, outbox[k].status = "PENDING", k[1] = run'.attempt
    PROVE  Delivered'
<1>. /\ TypeOK /\ [Next]_vars
     /\ outbox \in [Attempts \X {"detect", "cleanup"} -> OutboxRow]
  BY CalmFacts, StateTypes
<1>1. DOMAIN outbox' = DOMAIN outbox
  BY TypeStep DEF TypeOK
<1>2. ASSUME outbox'[k].status = "PENDING" PROVE Delivered'
  BY <1>1, <1>2 DEF Delivered
<1>3. CASE Publish(k)
  <2>1. Send(run'.attempt, k[2])
    BY <1>3 DEF Publish
  <2>. QED
    BY <2>1, SentIsDelivered
<1>4. ASSUME NEW j \in DOMAIN outbox, j # k, Publish(j) PROVE outbox'[k].status = "PENDING"
  BY <1>4 DEF Publish
<1>5. ASSUME NEW j \in DOMAIN outbox, PublishUnmarked(j) PROVE outbox'[k].status = "PENDING"
  BY <1>5 DEF PublishUnmarked, OutboxRow
<1>6. Cancel \/ Retry \/ Sweep => outbox'[k].status = "PENDING"
  BY DEF Cancel, Retry, Sweep, OutboxRow
<1>7. ASSUME NEW h \in Handlers, HandlerActions(h) PROVE UNCHANGED outbox
  BY <1>7
     DEF HandlerActions, Works, Receive, Redirect, List, Skip, Phase, SetPending, Admit, Execute,
         Persist, RecordStep, Finalize, Verdict, FinalizeCleanup, Confirm, Dispatch, CancelList,
         Complete, Fail, Heartbeat, Crash, Expire
<1>. QED
  BY NextCases, <1>2, <1>3, <1>4, <1>5, <1>6, <1>7 DEF LeaseExpires, vars

LEMMA DeliveryStays ==
    ASSUME CalmStep, Delivered, run'.attempt = run.attempt
    PROVE  Delivered' \/ \E h \in Handlers : ReceivesCurrent(h)
<1>1. CASE \E k \in DOMAIN outbox : k[1] = run.attempt /\ outbox[k].status = "PENDING"
  BY <1>1, RowsStay
<1>2. CASE \E job \in BagToSet(jobs) : job.attempt = run.attempt
  <2>1. PICK job \in BagToSet(jobs) : job.attempt = run'.attempt
    BY <1>2
  <2>. QED
    BY <2>1, JobsStay DEF Delivered
<1>. QED
  BY <1>1, <1>2 DEF Delivered

\* A cancellation and a retry are to be delivered.
LEMMA RequestsAreDelivered ==
    ASSUME CalmStep, Cancel \/ Retry
    PROVE  Delivered'
<1>. /\ outbox \in [Attempts \X {"detect", "cleanup"} -> OutboxRow]
     /\ run \in [status : RunStatuses, attempt : Attempts, cleanup : CleanupStatuses]
  BY CalmFacts, StateTypes
<1>1. CASE Cancel
  <2>1. CleanupKey \in DOMAIN outbox' /\ outbox'[CleanupKey].status = "PENDING"
    BY <1>1 DEF Cancel, CleanupKey, OutboxRow
  <2>2. CleanupKey[1] = run'.attempt
    BY <1>1 DEF Cancel, CleanupKey
  <2>. QED
    BY <2>1, <2>2 DEF Delivered
<1>2. CASE Retry
  <2>. DEFINE k == <<run.attempt + 1, "detect">>
  <2>1. k \in DOMAIN outbox' /\ outbox'[k].status = "PENDING" /\ k[1] = run'.attempt
    BY <1>2 DEF Retry, OutboxRow
  <2>. HIDE DEF k
  <2>. QED
    BY <2>1 DEF Delivered
<1>. QED
  BY <1>1, <1>2

-----------------------------------------------------------------------------
\* A Run that waits is carried. First, what a change of its status is: a handler's.
LEMMA StatusCarries ==
    ASSUME CalmStep, run'.attempt = run.attempt, run'.status # run.status,
           run'.status \in Underway \union Verdicts
    PROVE  \E h \in Handlers : Carries(h)'
<1>. TypeOK /\ [Next]_vars
  BY CalmFacts
<1>. /\ run \in [status : RunStatuses, attempt : Attempts, cleanup : CleanupStatuses]
     /\ handler \in [Handlers -> HandlerState]
  BY StateTypes
<1>. run'.status \notin {"CANCEL_REQUESTED", "CANCELLED"}
  BY Ranks DEF Verdicts
<1>1. ASSUME NEW h \in Handlers, Phase(h) PROVE Carries(h)'
  <2>1. Goes(h, PhaseForStep[Job(h).step]) /\ handler'[h].at = "admit"
           /\ handler'[h].job = handler[h].job /\ PhaseForStep[Job(h).step] # NoPhase
    BY <1>1, CalmMoves DEF Phase, Goto, HandlerState
  <2>2. Job(h).step # "cleanup" /\ Current(h)
    BY <2>1, Phases DEF Goes, MayMove
  <2>. QED
    BY <2>1, <2>2 DEF Carries, Current, Job
<1>2. ASSUME NEW h \in Handlers, Verdict(h) PROVE Carries(h)'
  <2>1. Current(h) /\ handler'[h].at = "refresh" /\ handler'[h].job = handler[h].job
    BY <1>2, CalmMoves DEF Verdict, Goes, MayMove, Goto, HandlerState
  <2>. QED
    BY <2>1 DEF Carries, Current, Job
<1>3. ASSUME NEW h \in Handlers, Works(h) PROVE Phase(h) \/ Verdict(h)
  <2>1. ~SetPending(h) /\ ~FinalizeCleanup(h) /\ ~Confirm(h)
    BY CalmMoves DEF SetPending, FinalizeCleanup, Confirm, Goes
  <2>. QED
    BY <1>3, <2>1
       DEF Works, Receive, Redirect, List, Skip, Admit, Execute, Persist, RecordStep, Finalize,
           Dispatch, CancelList, Complete, Fail
<1>4. ASSUME NEW h \in Handlers, HandlerActions(h) PROVE Works(h)
  BY <1>4, NoFaults DEF HandlerActions, Heartbeat
<1>5. ~Cancel /\ ~Retry
  <2>1. run.attempt \in Nat
    BY StateTypes
  <2>2. ~Retry
    BY <2>1 DEF Retry
  <2>3. Cancel => run' = [run EXCEPT !.status = "CANCEL_REQUESTED", !.cleanup = "PENDING"] \/ UNCHANGED run
    BY CalmMoves DEF IsCancelled
  <2>. QED
    BY <2>2, <2>3
<1>. QED
  BY NextCases, <1>1, <1>2, <1>3, <1>4, <1>5 DEF Publish, PublishUnmarked, LeaseExpires, Sweep, vars

\* A handler that carries the Run goes on doing so while it rests.
LEMMA CarriesOn ==
    ASSUME CalmStep, NEW h \in Handlers, Carries(h), UNCHANGED handler[h],
           run'.attempt = run.attempt, run'.status = run.status
    PROVE  Carries(h)'
<1>1. Job(h)' = Job(h)
  BY DEF Job
<1>2. At(h, "phase") /\ CanEnter(h) => CanEnter(h)'
  <2>1. PhaseForStep[Job(h).step] # "CANCELLED"
    BY StateTypes, CalmFacts, Phases, ElevenSteps DEF NoPhase
  <2>. QED
    BY <1>1, <2>1 DEF CanEnter, MayMove, ValidTransition, Current
<1>. QED
  BY <1>1, <1>2 DEF Carries, Current, At

\* A step of the Run that is being executed carries it while another handler works.
LEMMA HolderCarries ==
    ASSUME CalmStep, NEW g \in Handlers, Works(g), ~At(g, "guard"), run'.attempt = run.attempt,
           NEW k \in StepKeys, k[1] = run.attempt, k[2] # "cleanup", rows[k].status = "RUNNING"
    PROVE  \E h \in Handlers : Carries(h)'
<1>1. PICK h \in Handlers : At(h, "guard") /\ Key(h) = k
  BY HasHolder
<1>2. UNCHANGED handler[h]
  BY <1>1, OthersRest
<1>. QED
  BY <1>1, <1>2 DEF Carries, Current, Job, At, Key

\* While the report is open its Run is not being cancelled, and its cleanup not due.
LEMMA WaitingMeans ==
    ASSUME CalmStep, Waiting
    PROVE  /\ run.status \in Underway \union Verdicts
           /\ run.status # "CANCEL_REQUESTED" /\ ~Cancelling(run.attempt)
           /\ run.status \notin Verdicts => run.status \in Underway /\ ~Guard!Settled(ReportKey)
           /\ run.status \in Verdicts => /\ run.cleanup = "NOT_SCHEDULED"
                                         /\ rows[CleanupKey].status = "ABSENT"
                                         /\ Ready(CleanupKey)
           /\ run.status \in Underway => run.status \notin Verdicts /\ ~Due(CleanupKey)
<1>1. Underway \intersect Verdicts = {} /\ "CANCEL_REQUESTED" \notin Underway \union Verdicts
         /\ "CANCELLED" \notin Underway \union Verdicts
  BY Ranks DEF Verdicts
<1>2. ASSUME run.status \in Verdicts PROVE Ready(CleanupKey)
  BY <1>1, <1>2, CleanupIsDue DEF Due, Cancelling
<1>3. ASSUME run.status \in Underway, ~Guard!Settled(ReportKey) PROVE ~Due(CleanupKey)
  <2>1. ~Ready(CleanupKey)
    BY <1>3, ElevenSteps, ReadyMeans DEF CleanupKey, ReportKey
  <2>. QED
    BY <1>1, <1>3, <2>1 DEF Due, Cancelling
<1>. QED
  BY <1>1, <1>2, <1>3, CalmFacts DEF Waiting, Cancelling, CleanupIsAnnounced

\* Something is left to do for a Run that waits.
LEMMA WaitingIsOpen ==
    ASSUME CalmStep, Waiting
    PROVE  /\ NextStepAction(Book(run.attempt)).action # "none"
           /\ NextStepAction(Book(run.attempt)) # NoAction
<1>. TypeOK /\ run.attempt \in Attempts /\ "report" \in Steps /\ "cleanup" \in Steps
  BY CalmFacts, StateTypes, ElevenSteps
<1>1. \E s \in Steps : ~SettledIn(Book(run.attempt), s)
  <2>1. CASE ~Guard!Settled(ReportKey)
    BY <2>1, SettledBook DEF ReportKey
  <2>2. CASE rows[CleanupKey].status = "ABSENT"
    <3>1. ~Guard!Settled(CleanupKey)
      BY <2>2 DEF Guard!Settled, Guard!Stands, Guard!Results
    <3>. QED
      BY <3>1, SettledBook DEF CleanupKey
  <2>. QED
    BY <2>1, <2>2, WaitingMeans
<1>. QED
  BY <1>1, SomethingIsOpen

\* When a verdict has been given, the next step is the cleanup.
LEMMA CleanupIsNext ==
    ASSUME CalmStep, Waiting, run.status \in Verdicts
    PROVE  NextStepAction(Book(run.attempt)).step = "cleanup"
             /\ NextStepAction(Book(run.attempt)).action = "run"
<1>. PacedStep
  BY CalmFacts
<1>. TypeOK /\ run.attempt \in Attempts /\ "cleanup" \in Steps
  BY CalmFacts, StateTypes, ElevenSteps
<1>. DEFINE rec == Book(run.attempt)
<1>1. rows[CleanupKey].status = "ABSENT" /\ Ready(CleanupKey)
  BY WaitingMeans
<1>2. rec["cleanup"].status = "ABSENT"
  BY <1>1 DEF Book, CleanupKey
<1>3. ~SettledIn(rec, "cleanup")
  BY <1>2 DEF SettledIn, SettledForRetry, TerminalStepStatuses
<1>4. \A t \in StepsBefore("cleanup") : SettledIn(rec, t)
  BY <1>1, SettledBook DEF Ready, CleanupKey, StepsBefore
<1>5. NextStepAction(rec)
        = [action |-> IF ShouldSkip(rec, "cleanup") THEN "skip" ELSE "run", step |-> "cleanup"]
  <2>. HIDE DEF rec
  <2>. QED
    BY <1>2, <1>3, <1>4, NextStepIsFirst
<1>6. NextStepAction(rec).step = "cleanup" /\ NextStepAction(rec).action \in {"run", "skip"}
  BY <1>5
<1>. QED
  BY <1>6, PlansToSkip DEF Unskipped

-----------------------------------------------------------------------------
\* Then, what a handler that carries the waiting Run does next: it carries on, or has
\* the next job sent, or leaves the Run to the handler of a step being executed.
WaitingStep ==
    /\ CalmStep /\ Waiting /\ Waiting'
    /\ run'.attempt = run.attempt /\ run'.status = run.status

IsCarriedOn == Delivered' \/ \E h \in Handlers : Carries(h)'

LEMMA ListCarries ==
    ASSUME WaitingStep, NEW g \in Handlers, Carries(g), Works(g), List(g)
    PROVE  Carries(g)'
<1>. PacedStep
  BY CalmFacts DEF WaitingStep
<1>. /\ CalmStep /\ Waiting /\ TypeOK /\ EverythingIsDue /\ StatusKeepsPace /\ SkipsAreSpare
     /\ run.attempt \in Attempts /\ handler \in [Handlers -> HandlerState]
     /\ Key(g) \in StepKeys /\ Job(g).step \in Steps
  BY CalmFacts, StateTypes DEF WaitingStep
<1>. DEFINE a == run.attempt
            s == Job(g).step
            next == NextStepAction(Book(a))
<1>1. /\ Job(g).attempt = a /\ Key(g) = <<a, s>> /\ Planned(g) = next
      /\ run.status \in Verdicts \/ handler[g].snap = run.status
  <2>1. At(g, "list")
    BY DEF List
  <2>. QED
    BY <2>1 DEF Carries, Current, Key, Planned, At
<1>. HIDE DEF next
<1>2. /\ UNCHANGED <<run, rows>> /\ handler'[g].job = handler[g].job /\ handler'[g].snap = handler[g].snap
      /\ handler'[g].at \in {"done", "skip", "phase", "next", "failed"}
      /\ handler'[g].at = "done" => next.action = "none"
      /\ handler'[g].at = "phase" => next.action = "run" /\ next.step = s
      /\ handler'[g].at = "failed" => /\ next.action = "run" /\ next.step # s
                                      /\ rows[Key(g)].status \notin TerminalStepStatuses
  BY <1>1, Lists
<1>3. Job(g)' = Job(g) /\ Current(g)'
  BY <1>1, <1>2 DEF Job, Current
<1>4. handler'[g].at # "done"
  BY <1>2, WaitingIsOpen DEF next
<1>5. ASSUME s # "cleanup" PROVE Ready(<<a, s>>)
  BY <1>1, <1>5 DEF EverythingIsDue, Due
<1>6. CASE handler'[g].at \in {"skip", "next"}
  BY <1>1, <1>2, <1>3, <1>6 DEF Carries, WaitingStep, At
<1>7. CASE handler'[g].at = "phase"
  <2>1. CASE s = "cleanup"
    BY <1>3, <1>7, <2>1, Phases DEF Carries, CanEnter, At
  <2>2. CASE s # "cleanup"
    <3>1. run.status \in Underway /\ handler[g].snap = run.status
      BY <1>1, <1>2, <1>7, <2>2, CleanupIsNext, WaitingMeans DEF next
    <3>2. ~Guard!Settled(<<a, s>>)
      <4>1. ~SettledIn(Book(a), next.step)
        BY <1>2, <1>7, NextStepIsOpen DEF next
      <4>. QED
        BY <1>2, <1>7, <4>1, SettledBook
    <3>3. PhaseForStep[s] = run.status \/ ValidTransition(run.status, PhaseForStep[s], run.cleanup = "CLEANED")
      BY <1>5, <2>2, <3>1, <3>2, MayEnter
    <3>4. CanEnter(g)
      BY <1>1, <3>1, <3>3 DEF CanEnter, MayMove, Current
    <3>5. CanEnter(g)'
      BY <1>2, <1>3, <3>4 DEF CanEnter, MayMove, Current
    <3>. QED
      BY <1>3, <1>7, <3>5 DEF Carries, At
  <2>. QED
    BY <2>1, <2>2
<1>8. CASE handler'[g].at = "failed"
  <2>1. CASE run.status \in Verdicts
    <3>1. s # "cleanup" /\ Ready(CleanupKey)
      BY <1>2, <1>8, <2>1, CleanupIsNext, WaitingMeans DEF next
    <3>2. Guard!Settled(<<a, s>>)
      BY <3>1, ReadyMeans DEF CleanupKey
    <3>3. rows[Key(g)].status \in TerminalStepStatuses
      BY <1>1, <3>2, SettledMeans DEF TerminalStepStatuses
    <3>. QED
      BY <1>2, <1>8, <3>3
  <2>2. CASE run.status \notin Verdicts
    <3>1. run.status \in Underway /\ ~Due(CleanupKey) /\ ~Cancelling(a)
      BY <2>2, WaitingMeans
    <3>2. s # "cleanup"
      BY <1>1, <3>1 DEF EverythingIsDue, CleanupKey
    <3>3. ~Guard!Settled(<<a, s>>)
      BY <1>1, <1>2, <1>8, SettledMeans DEF TerminalStepStatuses
    <3>4. next.step = s
      BY <1>5, <3>1, <3>2, <3>3, OpenStepIsNext DEF next
    <3>. QED
      BY <1>2, <1>8, <3>4
  <2>. QED
    BY <2>1, <2>2
<1>. QED
  BY <1>2, <1>4, <1>6, <1>7, <1>8

LEMMA SkipCarries ==
    ASSUME WaitingStep, NEW g \in Handlers, Carries(g), Works(g), Skip(g)
    PROVE  \E h \in Handlers : Carries(h)'
<1>. /\ CalmStep /\ SkipsAreSpare /\ run.attempt \in Attempts
     /\ handler \in [Handlers -> HandlerState]
  BY CalmFacts, StateTypes DEF WaitingStep
<1>. DEFINE k == <<Job(g).attempt, handler[g].target>>
<1>1. At(g, "skip") /\ Current(g) /\ (run.status \in Verdicts \/ handler[g].snap = run.status)
  BY DEF Skip, Carries, At
<1>2. k \in StepKeys /\ k[1] = run.attempt /\ k[2] # "cleanup"
  BY <1>1 DEF Current, StepKeys, HandlerState, SkipsAreSpare, Unskipped
<1>. HIDE DEF k
<1>3. CASE rows[k].status = "RUNNING"
  BY <1>1, <1>2, <1>3, HolderCarries DEF WaitingStep, At
<1>4. CASE rows[k].status # "RUNNING"
  <2>1. handler' = [handler EXCEPT ![g].at = "list"]
    BY <1>1, <1>4 DEF Skip, Goto, k
  <2>2. /\ handler'[g].at = "list" /\ handler'[g].snap = handler[g].snap
        /\ handler'[g].job = handler[g].job
    BY <2>1 DEF HandlerState
  <2>. QED
    BY <1>1, <2>2 DEF Carries, Current, Job, WaitingStep
<1>. QED
  BY <1>3, <1>4

LEMMA PhaseCarries ==
    ASSUME WaitingStep, NEW g \in Handlers, Carries(g), Works(g), Phase(g)
    PROVE  Carries(g)'
<1>. /\ CalmStep /\ Waiting /\ EverythingIsDue /\ handler \in [Handlers -> HandlerState]
  BY CalmFacts, StateTypes DEF WaitingStep
<1>1. Current(g) /\ CanEnter(g)
  BY DEF Phase, Carries, At
<1>2. /\ handler'[g].at = IF Job(g).step = "cleanup" THEN "setPending" ELSE "admit"
      /\ handler'[g].job = handler[g].job
  BY <1>1, Phases DEF Phase, CanEnter, Goto, HandlerState
<1>3. Current(g)'
  BY <1>1, <1>2 DEF Current, Job, WaitingStep
<1>4. CASE Job(g).step # "cleanup"
  BY <1>2, <1>3, <1>4 DEF Carries, Job
<1>5. CASE Job(g).step = "cleanup"
  <2>1. Due(CleanupKey)
    BY <1>1, <1>5 DEF EverythingIsDue, Key, CleanupKey, Current
  <2>2. run.status \in Verdicts
    BY <2>1, WaitingMeans
  <2>. QED
    BY <1>2, <1>3, <1>5, <2>2 DEF Carries, At, WaitingStep
<1>. QED
  BY <1>4, <1>5

\* A row that is busy is RUNNING.
LEMMA BusyMeans ==
    ASSUME CalmStep, NEW g \in Handlers, Guard!Busy(g, Key(g))
    PROVE  rows[Key(g)].status = "RUNNING"
  BY DEF Guard!Busy, Guard!Free

LEMMA AdmitCarries ==
    ASSUME WaitingStep, NEW g \in Handlers, Carries(g), Works(g), Admit(g)
    PROVE  \E h \in Handlers : Carries(h)'
<1>. /\ CalmStep /\ Waiting /\ handler \in [Handlers -> HandlerState] /\ Key(g) \in StepKeys
  BY CalmFacts, StateTypes DEF WaitingStep
<1>1. At(g, "admit") /\ Current(g) /\ Job(g).step # "cleanup"
  BY DEF Admit, Carries, At
<1>2. CASE Guard!AlreadyTerminal(g, Key(g)) /\ Goto(g, "record")
  <2>1. handler'[g].at = "record" /\ handler'[g].job = handler[g].job
    BY <1>2 DEF Goto, HandlerState
  <2>2. ASSUME Job(g).step = "report" PROVE run'.status \in Verdicts
    <3>1. Key(g) = ReportKey
      BY <1>1, <2>2 DEF Key, ReportKey, Current
    <3>2. Guard!Settled(ReportKey)
      BY <1>2, <3>1 DEF Guard!AlreadyTerminal
    <3>. QED
      BY <3>2, WaitingMeans DEF WaitingStep
  <2>. QED
    BY <1>1, <2>1, <2>2 DEF Carries, Current, Job, At, WaitingStep
<1>3. CASE Guard!Busy(g, Key(g))
  <2>1. rows[Key(g)].status = "RUNNING" /\ Key(g)[1] = run.attempt /\ Key(g)[2] # "cleanup"
    BY <1>1, <1>3, BusyMeans DEF Key, Current
  <2>. QED
    BY <1>1, <2>1, HolderCarries DEF WaitingStep, At
<1>4. CASE Guard!Admit(g, Key(g)) /\ Goto(g, "guard")
  <2>1. handler'[g].at = "guard" /\ handler'[g].job = handler[g].job
    BY <1>4 DEF Goto, HandlerState
  <2>. QED
    BY <1>1, <2>1 DEF Carries, Current, Job, WaitingStep
<1>. QED
  BY <1>2, <1>3, <1>4 DEF Admit

LEMMA GuardCarries ==
    ASSUME WaitingStep, NEW g \in Handlers, Carries(g), Works(g), At(g, "guard")
    PROVE  Carries(g)'
<1>. /\ CalmStep /\ Waiting /\ handler \in [Handlers -> HandlerState] /\ Key(g) \in StepKeys
  BY CalmFacts, StateTypes DEF WaitingStep
<1>1. Current(g) /\ Job(g).step # "cleanup"
  BY DEF Carries, At
<1>2. CASE Executes(g)
  <2>1. handler'[g].at = "guard" /\ handler'[g].job = handler[g].job
    BY <1>2 DEF Executes, At, HandlerState
  <2>. QED
    BY <1>1, <2>1 DEF Carries, Current, Job, WaitingStep
<1>3. CASE Finishes(g)
  <2>1. handler'[g].at = "record" /\ handler'[g].job = handler[g].job
    BY <1>3 DEF Finishes, HandlerState
  <2>2. ASSUME Job(g).step = "report" PROVE run'.status \in Verdicts
    <3>1. VerdictsFit'
      BY CalmFacts, VerdictsStep DEF IInv
    <3>2. Key(g)' = ReportKey'
      BY <1>1, <2>1, <2>2 DEF Key, Job, ReportKey, Current, WaitingStep
    <3>3. Guard!Settled(ReportKey)'
      BY <2>1, <2>2, <3>1, <3>2 DEF VerdictsFit, VerdictFits, At, Job
    <3>. QED
      BY <3>3 DEF WaitingStep, Waiting
  <2>. QED
    BY <1>1, <2>1, <2>2 DEF Carries, Current, Job, At, WaitingStep
<1>. QED
  BY <1>2, <1>3, AtGuard

LEMMA RecordCarries ==
    ASSUME WaitingStep, NEW g \in Handlers, Carries(g), Works(g), RecordStep(g) \/ Finalize(g)
    PROVE  Carries(g)'
<1>. /\ CalmStep /\ handler \in [Handlers -> HandlerState]
  BY CalmFacts, StateTypes DEF WaitingStep
<1>1. CASE RecordStep(g)
  <2>1. /\ Current(g) /\ Job(g).step # "cleanup" /\ At(g, "record")
        /\ Job(g).step # "report" \/ run.status \in Verdicts
    BY <1>1 DEF RecordStep, Carries, At
  <2>2. handler[g].path # "cancel"
    BY <2>1, CalmFacts DEF CleanupsAreRecorded, CleanupIsRecorded
  <2>3. /\ handler'[g].at = IF Job(g).step = "report" THEN "finalize" ELSE "refresh"
        /\ handler'[g].job = handler[g].job
    BY <1>1, <2>1, <2>2 DEF RecordStep, AfterRecording, Goto, HandlerState
  <2>. QED
    BY <2>1, <2>3 DEF Carries, Current, Job, At, WaitingStep
<1>2. CASE Finalize(g)
  <2>1. Current(g) /\ run.status \in Verdicts
    BY <1>2 DEF Finalize, Carries, At
  <2>2. handler'[g].at = "refresh" /\ handler'[g].job = handler[g].job
    BY <1>2, <2>1 DEF Finalize, IsTerminalRun, TerminalRunStatuses, Verdicts, Goto, HandlerState
  <2>. QED
    BY <2>1, <2>2 DEF Carries, Current, Job, WaitingStep
<1>. QED
  BY <1>1, <1>2

LEMMA DispatchCarries ==
    ASSUME WaitingStep, NEW g \in Handlers, Carries(g), Works(g), Dispatch(g)
    PROVE  Delivered'
<1>. CalmStep /\ Waiting
  BY DEF WaitingStep
<1>1. Current(g) /\ run.status # "CANCEL_REQUESTED"
  BY WaitingMeans DEF Carries
<1>2. NextStepAction(Book(Job(g).attempt)) # NoAction
  BY <1>1, WaitingIsOpen DEF Current
<1>3. PICK s : Send(Job(g).attempt, s)
  BY <1>1, <1>2 DEF Dispatch
<1>4. Send(run'.attempt, s)
  BY <1>1, <1>3 DEF Current, WaitingStep
<1>. QED
  BY <1>4, SentIsDelivered

LEMMA CarriedStep == ASSUME CalmStep, RunIsCarried PROVE RunIsCarried'
<1>. PacedStep
  BY CalmFacts
<1>. TypeOK /\ [Next]_vars
  BY CalmFacts
<1>. SUFFICES ASSUME Waiting' PROVE IsCarriedOn
  BY DEF RunIsCarried, IsCarriedOn
<1>1. CASE run'.attempt # run.attempt
  <2>1. Retry
    <3>1. ASSUME NEW h \in Handlers, HandlerActions(h) PROVE run'.attempt = run.attempt
      BY <3>1, StateTypes
         DEF HandlerActions, Works, Receive, Redirect, List, Skip, Phase, SetPending, Admit, Execute,
             Persist, RecordStep, Finalize, Verdict, FinalizeCleanup, Confirm, Dispatch, CancelList,
             Complete, Fail, Heartbeat, Crash, Expire, Move, StoredAs
    <3>2. Cancel => run'.attempt = run.attempt
      BY StateTypes DEF Cancel
    <3>. QED
      BY <1>1, <3>1, <3>2, NextCases DEF Publish, PublishUnmarked, LeaseExpires, Sweep, vars
  <2>. QED
    BY <2>1, RequestsAreDelivered DEF IsCarriedOn
<1>2. CASE run'.attempt = run.attempt /\ run'.status # run.status
  <2>1. run'.status \in Underway \union Verdicts
    BY DEF Waiting
  <2>. QED
    BY <1>2, <2>1, StatusCarries DEF IsCarriedOn
<1>3. CASE run'.attempt = run.attempt /\ run'.status = run.status
  <2>1. Waiting
    <3>1. CASE run'.status \in Underway /\ ~Guard!Settled(ReportKey)'
      <4>1. PICK k \in StepKeys : k = ReportKey /\ k = ReportKey'
        BY <1>3, StateTypes DEF ReportKey
      <4>2. ~Guard!Settled(ReportKey)
        BY <3>1, <4>1, CalmFacts, SettledStays
      <4>. QED
        BY <1>3, <3>1, <4>2 DEF Waiting
    <3>2. CASE run'.status \in Verdicts /\ run'.cleanup = "NOT_SCHEDULED"
      BY <1>3, <3>2, RunKeeps DEF Waiting
    <3>. QED
      BY <3>1, <3>2 DEF Waiting
  <2>2. WaitingStep
    BY <1>3, <2>1 DEF WaitingStep
  <2>3. CASE Delivered
    <3>1. ASSUME NEW h \in Handlers, ReceivesCurrent(h) PROVE Carries(h)'
      <4>1. run.status # "CANCEL_REQUESTED" /\ Job(h)'.attempt = run.attempt
        BY <1>3, <2>1, <3>1, WaitingMeans DEF ReceivesCurrent, Current
      <4>2. handler'[h].at = "list" /\ handler'[h].snap = run'.status
        BY <1>3, <3>1, <4>1 DEF ReceivesCurrent, Opening
      <4>. QED
        BY <3>1, <4>2 DEF Carries, ReceivesCurrent
    <3>. QED
      BY <1>3, <2>3, <3>1, DeliveryStays DEF IsCarriedOn
  <2>4. ASSUME NEW g \in Handlers, Carries(g) PROVE IsCarriedOn
    <3>1. CASE UNCHANGED handler[g]
      BY <1>3, <2>4, <3>1, CarriesOn DEF IsCarriedOn
    <3>2. CASE Works(g)
      <4>1. \/ handler[g].at \in {"list", "skip", "phase", "setPending", "admit", "guard", "record"}
            \/ handler[g].at \in {"finalize", "refresh", "next"}
        BY <2>4 DEF Carries, At
      <4>2. At(g, "setPending") => FALSE
        <5>1. SUFFICES ASSUME At(g, "setPending") PROVE FALSE
          OBVIOUS
        <5>2. SetPending(g) /\ Current(g) /\ run.status \in Verdicts
          BY <2>4, <3>2, <5>1, Acts DEF ActsByItsPlace, Carries, At
        <5>3. run'.cleanup = "PENDING"
          BY <5>2, StateTypes DEF SetPending
        <5>. QED
          BY <1>3, <5>2, <5>3, <2>1, WaitingMeans DEF Waiting
      <4>3. \/ List(g) \/ Skip(g) \/ Phase(g) \/ Admit(g) \/ At(g, "guard") \/ RecordStep(g)
            \/ Finalize(g) \/ Dispatch(g)
        BY <3>2, <4>1, <4>2, Acts DEF ActsByItsPlace, At
      <4>. QED
        BY <2>2, <2>4, <3>2, <4>3, ListCarries, SkipCarries, PhaseCarries, AdmitCarries,
           GuardCarries, RecordCarries, DispatchCarries DEF IsCarriedOn
    <3>. QED
      BY <3>1, <3>2, NoFaults
  <2>. QED
    BY <2>1, <2>3, <2>4 DEF RunIsCarried
<1>. QED
  BY <1>1, <1>2, <1>3

-----------------------------------------------------------------------------
\* A report that stands becomes the verdict.
LEMMA ReportConcludes ==
    ASSUME CalmStep, NEW g \in Handlers, Works(g), Concludes(g), Guard!Settled(ReportKey),
           run.status \in Underway, run'.status \in Underway, run'.attempt = run.attempt
    PROVE  Concludes(g)'
<1>. /\ TypeOK /\ handler \in [Handlers -> HandlerState] /\ ReportKey \in StepKeys
     /\ run \in [status : RunStatuses, attempt : Attempts, cleanup : CleanupStatuses]
     /\ "report" \in Steps /\ ActsByItsPlace(g)
  BY CalmFacts, StateTypes, ElevenSteps, Acts
<1>0. Job(g).attempt = run.attempt /\ Job(g).step = "report" /\ Current(g)
  BY DEF Concludes, Key, ReportKey, Current
<1>1. ASSUME handler'[g].at \in {"record", "finalize", "verdict"}, handler'[g].job = handler[g].job
      PROVE  Concludes(g)'
  BY <1>0, <1>1 DEF Concludes, Key, Job, ReportKey
<1>2. CASE At(g, "record")
  <2>1. RecordStep(g)
    BY <1>2 DEF ActsByItsPlace
  <2>2. handler[g].path # "cancel"
    BY <1>0, CalmFacts DEF CleanupsAreRecorded, CleanupIsRecorded
  <2>3. handler'[g].at = "finalize" /\ handler'[g].job = handler[g].job
    BY <1>0, <2>1, <2>2 DEF RecordStep, AfterRecording, Goto, HandlerState
  <2>. QED
    BY <1>1, <2>3
<1>3. CASE At(g, "finalize")
  <2>1. Finalize(g)
    BY <1>3 DEF ActsByItsPlace
  <2>2. ~IsTerminalRun(run.status)
    BY Ranks DEF IsTerminalRun, TerminalRunStatuses
  <2>3. handler'[g].at = "verdict" /\ handler'[g].job = handler[g].job
    BY <2>1, <2>2 DEF Finalize, HandlerState
  <2>. QED
    BY <1>1, <2>3
<1>4. CASE At(g, "verdict")
  <2>1. Verdict(g)
    BY <1>4 DEF ActsByItsPlace
  <2>2. rows[ReportKey].status \notin {"ABSENT", "SKIPPED"}
    <3>1. rows[ReportKey].status # "ABSENT"
      BY DEF Guard!Settled, Guard!Stands, Guard!Results
    <3>2. rows[ReportKey].status # "SKIPPED"
      BY CalmFacts DEF SkipsAreSpare, Unskipped, ReportKey
    <3>. QED
      BY <3>1, <3>2
  <2>3. RankOf("report") <= PhaseRank[run.status]
    BY <2>2, CalmFacts DEF StatusKeepsPace, ReportKey
  <2>4. run.status = "REPORTING"
    BY <2>3, Ranks, StepRanks
  <2>5. handler[g].verdict \in Verdicts
    BY DEF HandlerState
  <2>6. MayMove(g, handler[g].verdict)
    BY <1>0, <2>4, <2>5 DEF MayMove, ValidTransition, Transitions, RunStatuses, Verdicts
  <2>7. run'.status \in Verdicts
    BY <2>1, <2>5, <2>6, CalmMoves DEF Verdict, Goes
  <2>. QED
    BY <2>7, Ranks DEF Verdicts
<1>. QED
  BY <1>2, <1>3, <1>4 DEF Concludes, At

LEMMA UsedStep == ASSUME CalmStep, ReportIsUsed PROVE ReportIsUsed'
<1>. PacedStep
  BY CalmFacts
<1>. /\ TypeOK /\ [Next]_vars /\ handler \in [Handlers -> HandlerState] /\ "report" \in Steps
     /\ ReportKey \in StepKeys
  BY CalmFacts, StateTypes, ElevenSteps
<1>. SUFFICES ASSUME run'.status \in Underway, Guard!Settled(ReportKey)'
              PROVE  \E h \in Handlers : Concludes(h)'
  BY DEF ReportIsUsed
<1>1. run'.attempt = run.attempt
  <2>1. SUFFICES ASSUME rows'[<<run'.attempt, "report">>].status = "ABSENT" PROVE FALSE
    BY AfterRetry
  <2>. QED
    BY <2>1 DEF Guard!Settled, Guard!Stands, Guard!Results, ReportKey
<1>2. run.status \in Underway
  BY <1>1, RunKeeps
<1>3. PICK k \in StepKeys : k = ReportKey /\ k = ReportKey'
  BY <1>1 DEF ReportKey
<1>4. CASE Guard!Settled(ReportKey)
  <2>1. PICK g \in Handlers : Concludes(g)
    BY <1>2, <1>4 DEF ReportIsUsed
  <2>2. CASE UNCHANGED handler[g]
    BY <1>3, <2>1, <2>2 DEF Concludes, Key, Job
  <2>3. CASE Works(g)
    BY <1>1, <1>2, <1>4, <2>1, <2>3, ReportConcludes
  <2>. QED
    BY <2>2, <2>3, NoFaults
<1>5. CASE ~Guard!Settled(ReportKey)
  <2>1. ~SaysTheSame(k)
    BY <1>3, <1>5 DEF SaysTheSame, Guard!Settled, Guard!Stands
  <2>2. ASSUME NEW h \in Handlers PROVE ~Skips(h, k)
    BY <1>3, CalmFacts DEF Skips, SkipsAreSpare, Unskipped, ReportKey
  <2>3. ASSUME NEW h \in Handlers PROVE ~Begins(h, k) /\ ~GivesBack(h, k)
    BY <1>3 DEF Begins, GivesBack, Guard!Settled, Guard!Stands, Guard!Results
  <2>4. PICK h \in Handlers : Records(h, k)
    BY CalmFacts, RowStep, <2>1, <2>2, <2>3 DEF RowMoves
  <2>5. handler'[h].at = "record" /\ handler'[h].job = handler[h].job /\ Key(h) = k
    BY <2>4 DEF Records, HandlerState
  <2>. QED
    BY <1>3, <2>5 DEF Concludes, Key, Job
<1>. QED
  BY <1>4, <1>5

-----------------------------------------------------------------------------
\* Who writes the status of the cleanup.
LEMMA CleanupChanges ==
    ASSUME CalmStep, run'.attempt = run.attempt, run'.cleanup # run.cleanup
    PROVE  \/ Cancel
           \/ \E h \in Handlers : /\ SetPending(h) /\ Current(h)
                                  /\ run'.cleanup = "PENDING"
           \/ \E h \in Handlers : /\ FinalizeCleanup(h) /\ Current(h)
                                  /\ run'.cleanup = IF CleanupSucceeded(h) THEN "CLEANED" ELSE "FAILED"
<1>. /\ TypeOK /\ [Next]_vars
     /\ run \in [status : RunStatuses, attempt : Attempts, cleanup : CleanupStatuses]
  BY CalmFacts, StateTypes
<1>1. ASSUME NEW h \in Handlers, NEW to, Goes(h, to) PROVE FALSE
  BY <1>1 DEF Goes
<1>2. ASSUME NEW h \in Handlers, SetPending(h) PROVE Current(h) /\ run'.cleanup = "PENDING"
  BY <1>2 DEF SetPending
<1>3. ASSUME NEW h \in Handlers, FinalizeCleanup(h)
      PROVE  Current(h) /\ run'.cleanup = IF CleanupSucceeded(h) THEN "CLEANED" ELSE "FAILED"
  BY <1>3 DEF FinalizeCleanup
<1>4. ASSUME NEW h \in Handlers, HandlerActions(h) PROVE SetPending(h) \/ FinalizeCleanup(h)
  BY <1>1, <1>4, CalmMoves
     DEF HandlerActions, Works, Receive, Redirect, List, Skip, Phase, Admit, Execute, Persist,
         RecordStep, Finalize, Verdict, Confirm, Dispatch, CancelList, Complete, Fail, Heartbeat,
         Crash, Expire
<1>5. ~Retry
  <2>1. run.attempt \in Nat
    BY StateTypes
  <2>. QED
    BY <2>1 DEF Retry
<1>. QED
  BY NextCases, <1>2, <1>3, <1>4, <1>5 DEF Publish, PublishUnmarked, LeaseExpires, Sweep, vars

\* A handler that sets out for the cleanup is of the attempt that it has announced.
LEMMA SetsOut ==
    ASSUME CalmStep, NEW h \in Handlers, SetPending(h), Current(h)
    PROVE  /\ handler'[h].at = "admit" /\ handler'[h].job = handler[h].job
           /\ Job(h).step = "cleanup" /\ Key(h) = CleanupKey /\ run'.attempt = run.attempt
<1>. /\ handler \in [Handlers -> HandlerState]
     /\ run \in [status : RunStatuses, attempt : Attempts, cleanup : CleanupStatuses]
  BY CalmFacts, StateTypes
<1>1. Job(h).step = "cleanup"
  BY CalmFacts DEF SetPending, CleanupIsAnnounced
<1>. QED
  BY <1>1 DEF SetPending, Goto, HandlerState, Key, CleanupKey, Current

LEMMA CleanupGoesOn ==
    ASSUME CalmStep, NEW g \in Handlers, Works(g), CleansUp(g), run'.attempt = run.attempt,
           run'.cleanup = "PENDING"
    PROVE  \E h \in Handlers : CleansUp(h)'
<1>. /\ TypeOK /\ handler \in [Handlers -> HandlerState] /\ CleanupKey \in StepKeys
     /\ run \in [status : RunStatuses, attempt : Attempts, cleanup : CleanupStatuses]
     /\ ActsByItsPlace(g)
  BY CalmFacts, StateTypes, Acts
<1>0. Job(g).attempt = run.attempt /\ Job(g).step = "cleanup" /\ Current(g) /\ Key(g) = CleanupKey
  BY DEF CleansUp, Key, CleanupKey, Current
<1>1. ASSUME handler'[g].at \in {"admit", "guard", "record", "cleanup"}, handler'[g].job = handler[g].job
      PROVE  CleansUp(g)'
  BY <1>0, <1>1 DEF CleansUp, Key, Job, CleanupKey
<1>2. CASE At(g, "admit")
  <2>0. Admit(g)
    BY <1>2 DEF ActsByItsPlace
  <2>1. CASE Goto(g, "record") \/ Goto(g, "guard")
    <3>1. handler'[g].at \in {"record", "guard"} /\ handler'[g].job = handler[g].job
      BY <2>1 DEF Goto, HandlerState
    <3>. QED
      BY <1>1, <3>1
  <2>2. CASE Guard!Busy(g, Key(g))
    <3>1. rows[CleanupKey].status = "RUNNING"
      BY <1>0, <2>2, BusyMeans
    <3>2. PICK h \in Handlers : At(h, "guard") /\ Key(h) = CleanupKey
      BY <3>1, HasHolder
    <3>3. UNCHANGED handler[h]
      BY <1>2, <3>2, OthersRest DEF At
    <3>. QED
      BY <3>2, <3>3 DEF CleansUp, Key, Job, CleanupKey, At
  <2>. QED
    BY <2>0, <2>1, <2>2 DEF Admit
<1>3. CASE At(g, "guard")
  <2>1. Executes(g) => handler'[g].at = "guard" /\ handler'[g].job = handler[g].job
    BY <1>3 DEF Executes, At, HandlerState
  <2>2. Finishes(g) => handler'[g].at = "record" /\ handler'[g].job = handler[g].job
    BY DEF Finishes, HandlerState
  <2>. QED
    BY <1>1, <1>3, <2>1, <2>2, AtGuard
<1>4. CASE At(g, "record")
  <2>1. RecordStep(g)
    BY <1>4 DEF ActsByItsPlace
  <2>2. handler'[g].at = "cleanup" /\ handler'[g].job = handler[g].job
    BY <1>0, <2>1 DEF RecordStep, AfterRecording, Goto, HandlerState
  <2>. QED
    BY <1>1, <2>2
<1>5. CASE At(g, "cleanup")
  <2>1. FinalizeCleanup(g)
    BY <1>5 DEF ActsByItsPlace
  <2>. QED
    BY <1>0, <2>1 DEF FinalizeCleanup
<1>. QED
  BY <1>2, <1>3, <1>4, <1>5 DEF CleansUp, At

\* A cancellation that is requested ends in the CANCELLED of a confirmed cleanup only.
LEMMA CancelStays ==
    ASSUME CalmStep, run'.attempt = run.attempt, run.status = "CANCEL_REQUESTED",
           run'.status # "CANCEL_REQUESTED"
    PROVE  run.cleanup = "CLEANED" /\ run'.cleanup = "CLEANED"
<1>. /\ TypeOK /\ [Next]_vars
     /\ run \in [status : RunStatuses, attempt : Attempts, cleanup : CleanupStatuses]
  BY CalmFacts, StateTypes
<1>1. ASSUME NEW h \in Handlers, NEW to, Goes(h, to) PROVE run.cleanup = "CLEANED" /\ run'.cleanup = "CLEANED"
  <2>1. to = "CANCELLED"
    BY <1>1 DEF Goes, MayMove, ValidTransition, Transitions, RunStatuses
  <2>. QED
    BY <1>1, <2>1 DEF Goes, MayMove, ValidTransition
<1>2. ASSUME NEW h \in Handlers PROVE ~SetsPending(h) /\ ~RecordsCleanup(h)
  BY DEF SetsPending, RecordsCleanup
<1>3. ~IsCancelled
  BY DEF IsCancelled
<1>4. ~IsRetried
  BY StateTypes DEF IsRetried
<1>. QED
  BY RunStep, CalmMoves, <1>1, <1>2, <1>3, <1>4 DEF RunMoves, Advances, GivesVerdict, Confirms

LEMMA CleanedUpStep == ASSUME CalmStep, CleanupIsCarried PROVE CleanupIsCarried'
<1>. PacedStep
  BY CalmFacts
<1>. /\ TypeOK /\ [Next]_vars /\ handler \in [Handlers -> HandlerState]
     /\ run \in [status : RunStatuses, attempt : Attempts, cleanup : CleanupStatuses]
  BY CalmFacts, StateTypes
<1>. SUFFICES ASSUME run'.cleanup = "PENDING", run'.status # "CANCEL_REQUESTED"
              PROVE  \E h \in Handlers : CleansUp(h)'
  BY DEF CleanupIsCarried
<1>1. run'.attempt = run.attempt
  BY AfterRetry
<1>2. run.status # "CANCEL_REQUESTED"
  BY <1>1, CancelStays
<1>3. CASE run.cleanup = "PENDING"
  <2>1. PICK g \in Handlers : CleansUp(g)
    BY <1>2, <1>3 DEF CleanupIsCarried
  <2>2. CASE UNCHANGED handler[g]
    BY <1>1, <2>1, <2>2 DEF CleansUp, Key, Job, CleanupKey
  <2>3. CASE Works(g)
    BY <1>1, <2>1, <2>3, CleanupGoesOn
  <2>. QED
    BY <2>2, <2>3, NoFaults
<1>4. CASE run.cleanup # "PENDING"
  <2>1. ~Cancel
    BY <1>2, CalmMoves DEF IsCancelled
  <2>2. PICK h \in Handlers : SetPending(h) /\ Current(h)
    BY <1>1, <1>4, <2>1, CleanupChanges
  <2>3. handler'[h].at = "admit" /\ handler'[h].job = handler[h].job /\ Key(h) = CleanupKey
    BY <2>2, SetsOut
  <2>. QED
    BY <1>1, <2>3 DEF CleansUp, Key, Job, CleanupKey
<1>. QED
  BY <1>3, <1>4

-----------------------------------------------------------------------------
\* A cancellation that is requested is carried on until its cleanup is recorded.
LEMMA RequestsCome ==
    ASSUME CalmStep, run'.attempt = run.attempt, run'.status = "CANCEL_REQUESTED", ~Cancel
    PROVE  run.status = "CANCEL_REQUESTED"
<1>. /\ TypeOK /\ [Next]_vars
     /\ run \in [status : RunStatuses, attempt : Attempts, cleanup : CleanupStatuses]
     /\ handler \in [Handlers -> HandlerState]
  BY CalmFacts, StateTypes
<1>. SUFFICES ASSUME run.status # "CANCEL_REQUESTED" PROVE FALSE
  OBVIOUS
<1>1. ASSUME NEW h \in Handlers, NEW to, Goes(h, to) PROVE to = "CANCEL_REQUESTED"
  BY <1>1 DEF Goes
<1>2. ASSUME NEW h \in Handlers, Phase(h) PROVE FALSE
  <2>1. PhaseForStep[Job(h).step] # "CANCEL_REQUESTED"
    BY Phases, StateTypes, ElevenSteps DEF NoPhase
  <2>. QED
    BY <1>1, <1>2, <2>1, CalmMoves DEF Phase
<1>3. ASSUME NEW h \in Handlers, Verdict(h) PROVE FALSE
  <2>1. handler[h].verdict # "CANCEL_REQUESTED"
    BY DEF HandlerState, Verdicts
  <2>. QED
    BY <1>1, <1>3, <2>1, CalmMoves DEF Verdict
<1>4. ASSUME NEW h \in Handlers, HandlerActions(h) PROVE FALSE
  <2>1. ~SetPending(h) /\ ~FinalizeCleanup(h) /\ ~Confirm(h)
    BY <1>1, CalmMoves DEF SetPending, FinalizeCleanup, Confirm
  <2>. QED
    BY <1>2, <1>3, <1>4, <2>1
       DEF HandlerActions, Works, Receive, Redirect, List, Skip, Admit, Execute, Persist, RecordStep,
           Finalize, Dispatch, CancelList, Complete, Fail, Heartbeat, Crash, Expire
<1>5. ~Retry
  <2>1. run.attempt \in Nat
    BY StateTypes
  <2>. QED
    BY <2>1 DEF Retry
<1>. QED
  BY NextCases, <1>4, <1>5 DEF Publish, PublishUnmarked, LeaseExpires, Sweep, vars

CancelStep ==
    /\ CalmStep /\ run.cleanup # "FAILED"
    /\ run.status = "CANCEL_REQUESTED" /\ run'.status = "CANCEL_REQUESTED"
    /\ run'.attempt = run.attempt /\ run'.cleanup = run.cleanup

CancelIsCarriedOn == Delivered' \/ \E h \in Handlers : CarriesCancel(h)'

\* A step that is being executed carries the cancellation while another handler works.
LEMMA HolderCarriesCancel ==
    ASSUME CancelStep, NEW g \in Handlers, Works(g), ~At(g, "guard"),
           NEW k \in StepKeys, k[1] = run.attempt, rows[k].status = "RUNNING"
    PROVE  \E h \in Handlers : CarriesCancel(h)'
<1>. CalmStep /\ TypeOK /\ ReportsHaveARetry
  BY CalmFacts DEF CancelStep
<1>1. PICK h \in Handlers : At(h, "guard") /\ Key(h) = k
  BY HasHolder
<1>2. UNCHANGED handler[h]
  BY <1>1, OthersRest
<1>3. Job(h).attempt = run'.attempt
  BY <1>1 DEF Key, CancelStep
<1>4. Job(h).step = "report" => Job(h).left = 1
  <2>1. Job(h).step = "report" => Key(h) = ReportKey
    BY <1>3 DEF Key, ReportKey, CancelStep
  <2>. QED
    BY <1>1, <2>1 DEF ReportsHaveARetry, ReportIsFresh, CancelStep
<1>. QED
  BY <1>1, <1>2, <1>3, <1>4 DEF CarriesCancel, Current, Job, At

LEMMA SendsForCleanup ==
    ASSUME CancelStep, NEW g \in Handlers, Current(g), Redirect(g) \/ (Dispatch(g) /\ At(g, "refresh"))
    PROVE  Delivered'
<1>. CalmStep
  BY DEF CancelStep
<1>1. Send(run'.attempt, "cleanup")
  BY DEF Redirect, Dispatch, Current, CancelStep
<1>. QED
  BY <1>1, SentIsDelivered

\* A report whose verdict comes too late is delivered again.
LEMMA FailsOver ==
    ASSUME CancelStep, NEW g \in Handlers, Current(g), Fail(g), Job(g).left = 1
    PROVE  Delivered'
<1>. CalmStep /\ TypeOK /\ IsABag(jobs) /\ Job(g) \in Jobs /\ handler[g].owned
  BY CalmFacts, StateTypes DEF CancelStep, HandlersLive, Fail, At
<1>. DEFINE again == [Job(g) EXCEPT !.left = @ - 1]
<1>1. again.attempt = run'.attempt
  BY DEF Jobs, Current, CancelStep
<1>2. jobs' = jobs (+) SetToBag({again})
  BY DEF Fail, Redelivered, Job
<1>. HIDE DEF again
<1>3. again \in BagToSet(jobs')
  BY <1>2, BagWithOneMore
<1>. QED
  BY <1>1, <1>3 DEF Delivered

LEMMA CancelGoesOn ==
    ASSUME CancelStep, NEW g \in Handlers, Works(g), CarriesCancel(g)
    PROVE  CancelIsCarriedOn
<1>. /\ CalmStep /\ TypeOK /\ handler \in [Handlers -> HandlerState] /\ Key(g) \in StepKeys
     /\ run \in [status : RunStatuses, attempt : Attempts, cleanup : CleanupStatuses]
     /\ ActsByItsPlace(g) /\ Current(g)
  BY CalmFacts, StateTypes, Acts DEF CancelStep, CarriesCancel
<1>. USE DEF CancelIsCarriedOn
<1>0. ASSUME handler'[g].job = handler[g].job
      PROVE  Job(g)' = Job(g) /\ Current(g)'
  BY <1>0 DEF Job, Current, CancelStep
<1>1. CASE At(g, "redirect") \/ At(g, "refresh")
  BY <1>1, SendsForCleanup DEF ActsByItsPlace
<1>2. CASE At(g, "cancelList")
  <2>0. CancelList(g)
    BY <1>2 DEF ActsByItsPlace
  <2>1. CASE \E s \in Steps \ {"cleanup"} : Book(Job(g).attempt)[s].status = "RUNNING"
    <3>1. PICK s \in Steps : rows[<<Job(g).attempt, s>>].status = "RUNNING"
      BY <2>1 DEF Book
    <3>2. PICK k \in StepKeys : k = <<run.attempt, s>>
      BY <3>1 DEF StepKeys
    <3>3. rows[k].status = "RUNNING" /\ k[1] = run.attempt
      BY <3>1, <3>2 DEF Current
    <3>. QED
      BY <1>2, <3>3, HolderCarriesCancel DEF At
  <2>2. CASE handler'[g].at = "setPending" /\ handler'[g].job = handler[g].job
    BY <1>0, <2>2 DEF CarriesCancel
  <2>3. ~(\E s \in Steps \ {"cleanup"} : Book(Job(g).attempt)[s].status = "RUNNING")
          => handler'[g].at = "setPending" /\ handler'[g].job = handler[g].job
    BY <2>0 DEF CancelList, HandlerState
  <2>. QED
    BY <2>1, <2>2, <2>3
<1>3. CASE At(g, "setPending")
  <2>1. handler'[g].at = "admit" /\ handler'[g].job = handler[g].job /\ Job(g).step = "cleanup"
    BY <1>3, SetsOut DEF ActsByItsPlace
  <2>. QED
    BY <1>0, <2>1 DEF CarriesCancel, At
<1>4. CASE At(g, "cleanup")
  <2>1. FinalizeCleanup(g)
    BY <1>4 DEF ActsByItsPlace
  <2>2. CleanupSucceeded(g) /\ run'.cleanup = "CLEANED"
    BY <2>1 DEF FinalizeCleanup, CancelStep
  <2>3. handler'[g].at = "confirm" /\ handler'[g].job = handler[g].job
    BY <2>1, <2>2 DEF FinalizeCleanup, Goto, HandlerState
  <2>. QED
    BY <1>0, <2>2, <2>3 DEF CarriesCancel, At
<1>5. CASE At(g, "admit") /\ Job(g).step = "cleanup"
  <2>0. Admit(g)
    BY <1>5 DEF ActsByItsPlace
  <2>1. CASE Goto(g, "record") \/ Goto(g, "guard")
    <3>1. handler'[g].at \in {"record", "guard"} /\ handler'[g].job = handler[g].job
      BY <2>1 DEF Goto, HandlerState
    <3>. QED
      BY <1>0, <1>5, <3>1 DEF CarriesCancel
  <2>2. CASE Guard!Busy(g, Key(g))
    <3>1. rows[Key(g)].status = "RUNNING" /\ Key(g)[1] = run.attempt
      BY <2>2, BusyMeans DEF Key, Current
    <3>. QED
      BY <1>5, <3>1, HolderCarriesCancel DEF At
  <2>. QED
    BY <2>0, <2>1, <2>2 DEF Admit
<1>6. CASE At(g, "guard") /\ (Job(g).step = "report" => Job(g).left = 1)
  <2>1. Executes(g) => handler'[g].at = "guard" /\ handler'[g].job = handler[g].job
    BY <1>6 DEF Executes, At, HandlerState
  <2>2. Finishes(g) => handler'[g].at = "record" /\ handler'[g].job = handler[g].job
    BY DEF Finishes, HandlerState
  <2>3. handler'[g].at \in {"guard", "record"} /\ handler'[g].job = handler[g].job
    BY <1>6, <2>1, <2>2, AtGuard
  <2>. QED
    BY <1>0, <1>6, <2>3 DEF CarriesCancel
<1>7. CASE At(g, "record") /\ (Job(g).step = "report" => Job(g).left = 1)
  <2>1. RecordStep(g)
    BY <1>7 DEF ActsByItsPlace
  <2>2. handler[g].path = "cancel" => Job(g).step = "cleanup"
    BY CalmFacts DEF CleanupsAreRecorded, CleanupIsRecorded
  <2>3. /\ handler'[g].job = handler[g].job
        /\ handler'[g].at = CASE Job(g).step = "report"  -> "finalize"
                              [] Job(g).step = "cleanup" -> "cleanup"
                              [] OTHER                   -> "refresh"
    BY <2>1, <2>2 DEF RecordStep, AfterRecording, Goto, HandlerState
  <2>. QED
    BY <1>0, <1>7, <2>3 DEF CarriesCancel
<1>8. CASE At(g, "confirm") /\ run.cleanup = "CLEANED"
  <2>1. Confirm(g) /\ run.status = "CANCEL_REQUESTED"
    BY <1>8 DEF ActsByItsPlace, CancelStep
  <2>2. MayMove(g, "CANCELLED")
    BY <1>8, <2>1 DEF MayMove, ValidTransition, Transitions, RunStatuses
  <2>3. run'.status = "CANCELLED"
    BY <2>1, <2>2, CalmMoves DEF Confirm, Goes
  <2>. QED
    BY <2>3 DEF CancelStep
<1>9. CASE At(g, "finalize") /\ Job(g).step = "report" /\ Job(g).left = 1
  <2>1. Finalize(g)
    BY <1>9 DEF ActsByItsPlace
  <2>2. handler'[g].at = "verdict" /\ handler'[g].job = handler[g].job
    BY <2>1 DEF Finalize, HandlerState, IsTerminalRun, TerminalRunStatuses, CancelStep
  <2>. QED
    BY <1>0, <1>9, <2>2 DEF CarriesCancel
<1>10. CASE At(g, "verdict") /\ Job(g).step = "report" /\ Job(g).left = 1
  <2>1. Verdict(g)
    BY <1>10 DEF ActsByItsPlace
  <2>2. handler[g].verdict \in Verdicts
    BY DEF HandlerState
  <2>3. ~MayMove(g, handler[g].verdict)
    BY <2>2 DEF MayMove, ValidTransition, Transitions, RunStatuses, Verdicts, CancelStep
  <2>4. handler'[g].at = "failed" /\ handler'[g].job = handler[g].job
    BY <2>1, <2>3 DEF Verdict, Move, Goto, HandlerState
  <2>. QED
    BY <1>0, <1>10, <2>4 DEF CarriesCancel
<1>11. CASE At(g, "failed") /\ Job(g).left = 1
  BY <1>11, FailsOver DEF ActsByItsPlace
<1>12. \/ At(g, "redirect") \/ At(g, "refresh") \/ At(g, "cancelList") \/ At(g, "setPending")
       \/ At(g, "cleanup")
       \/ At(g, "admit") /\ Job(g).step = "cleanup"
       \/ At(g, "guard") /\ (Job(g).step = "report" => Job(g).left = 1)
       \/ At(g, "record") /\ (Job(g).step = "report" => Job(g).left = 1)
       \/ At(g, "confirm") /\ run.cleanup = "CLEANED"
       \/ At(g, "finalize") /\ Job(g).step = "report" /\ Job(g).left = 1
       \/ At(g, "verdict") /\ Job(g).step = "report" /\ Job(g).left = 1
       \/ At(g, "failed") /\ Job(g).left = 1
  BY DEF CarriesCancel, At
<1>. HIDE DEF CancelIsCarriedOn
<1>. QED
  BY <1>1, <1>2, <1>3, <1>4, <1>5, <1>6, <1>7, <1>8, <1>9, <1>10, <1>11, <1>12

LEMMA CancelledStep == ASSUME CalmStep, CancelIsCarried PROVE CancelIsCarried'
<1>. PacedStep
  BY CalmFacts
<1>. /\ TypeOK /\ [Next]_vars /\ handler \in [Handlers -> HandlerState]
  BY CalmFacts, StateTypes
<1>. SUFFICES ASSUME run'.status = "CANCEL_REQUESTED", run'.cleanup # "FAILED"
              PROVE  CancelIsCarriedOn
  BY DEF CancelIsCarried, CancelIsCarriedOn
<1>1. run'.attempt = run.attempt
  BY AfterRetry
<1>2. CASE Cancel
  BY <1>2, RequestsAreDelivered DEF CancelIsCarriedOn
<1>3. CASE ~Cancel /\ run'.cleanup # run.cleanup
  <2>1. ASSUME NEW h \in Handlers, SetPending(h), Current(h) PROVE CarriesCancel(h)'
    <3>1. handler'[h].at = "admit" /\ handler'[h].job = handler[h].job /\ Job(h).step = "cleanup"
      BY <2>1, SetsOut
    <3>. QED
      BY <1>1, <2>1, <3>1 DEF CarriesCancel, Current, Job, At
  <2>2. ASSUME NEW h \in Handlers, FinalizeCleanup(h), Current(h),
               run'.cleanup = IF CleanupSucceeded(h) THEN "CLEANED" ELSE "FAILED"
        PROVE  CarriesCancel(h)'
    <3>1. CleanupSucceeded(h) /\ run'.cleanup = "CLEANED"
      BY <2>2
    <3>2. handler'[h].at = "confirm" /\ handler'[h].job = handler[h].job
      BY <2>2, <3>1 DEF FinalizeCleanup, Goto, HandlerState
    <3>. QED
      BY <1>1, <2>2, <3>1, <3>2 DEF CarriesCancel, Current, Job, At
  <2>. QED
    BY <1>1, <1>3, <2>1, <2>2, CleanupChanges DEF CancelIsCarriedOn
<1>4. CASE ~Cancel /\ run'.cleanup = run.cleanup
  <2>1. CancelStep
    BY <1>1, <1>4, RequestsCome DEF CancelStep
  <2>2. CASE Delivered
    <3>1. ASSUME NEW h \in Handlers, ReceivesCurrent(h) PROVE CarriesCancel(h)'
      <4>1. Job(h)'.attempt = run.attempt
        BY <1>1, <3>1 DEF ReceivesCurrent, Current
      <4>2. handler'[h].at \in {"cancelList", "redirect"}
        BY <2>1, <3>1, <4>1 DEF ReceivesCurrent, Opening, CancelStep
      <4>. QED
        BY <3>1, <4>2 DEF CarriesCancel, ReceivesCurrent
    <3>. QED
      BY <1>1, <2>2, <3>1, DeliveryStays DEF CancelIsCarriedOn
  <2>3. ASSUME NEW g \in Handlers, CarriesCancel(g) PROVE CancelIsCarriedOn
    <3>1. CASE UNCHANGED handler[g]
      BY <1>1, <1>4, <2>3, <3>1 DEF CarriesCancel, CancelIsCarriedOn, Current, Job, At
    <3>2. CASE Works(g)
      BY <2>1, <2>3, <3>2, CancelGoesOn
    <3>. QED
      BY <3>1, <3>2, NoFaults
  <2>. QED
    BY <2>1, <2>2, <2>3 DEF CancelIsCarried, CancelStep
<1>. QED
  BY <1>2, <1>3, <1>4

-----------------------------------------------------------------------------
LEMMA InitiallyDue == ASSUME Init, TypeOK PROVE EverythingIsDue
<1>. DEFINE done == StepsBefore(scenario.first)
<1>1. Due(<<1, scenario.first>>)
  <2>1. ASSUME NEW s \in done PROVE Guard!Settled(<<1, s>>)
    <3>1. rows[<<1, s>>].status = "PASSED"
      BY InTheBeginning DEF StepsBefore
    <3>. QED
      BY <3>1 DEF Guard!Settled, Guard!Stands, Guard!Results
  <2>. QED
    BY <2>1 DEF Due, Ready
<1>2. \A job \in BagToSet(jobs) : job.attempt = 1 /\ job.step = scenario.first
  BY InTheBeginning DEF JobFor
<1>3. \A h \in Handlers : Key(h) = <<1, "detect">> /\ ~At(h, "redirect")
  BY InTheBeginning DEF Key, Job, At, IdleHandler
<1>. QED
  BY <1>1, <1>2, <1>3, DetectIsDue, InTheBeginning DEF EverythingIsDue

LEMMA InitiallyDelivered == ASSUME Init, TypeOK PROVE Delivered
<1>1. CASE StepsBefore(scenario.first) = {}
  <2>. DEFINE k == <<1, "detect">>
  <2>1. k \in DOMAIN outbox /\ outbox[k].status = "PENDING" /\ k[1] = run.attempt
    BY <1>1, WorkflowAssumption DEF Init
  <2>. HIDE DEF k
  <2>. QED
    BY <2>1 DEF Delivered
<1>2. CASE StepsBefore(scenario.first) # {}
  <2>1. JobFor(1, scenario.first) \in BagToSet(jobs)
    BY <1>2, SmallBags DEF Init
  <2>2. JobFor(1, scenario.first).attempt = run.attempt
    BY InTheBeginning DEF JobFor
  <2>. QED
    BY <2>1, <2>2 DEF Delivered
<1>. QED
  BY <1>1, <1>2

LEMMA InitiallyCarriedInv == ASSUME Init, TypeOK PROVE CarriedInv
<1>0. ASSUME NEW h \in Handlers
      PROVE  handler[h].at = "idle" /\ At(h, "idle") /\ Job(h).step = "detect" /\ call[h].at = "idle"
  BY InTheBeginning DEF At, Job, IdleHandler
<1>1. HandlersLive /\ RowsAreWorkedOn
  <2>1. HandlersLive
    BY <1>0, InTheBeginning DEF HandlersLive
  <2>2. RowsAreWorkedOn
    BY InTheBeginning DEF RowsAreWorkedOn
  <2>. QED
    BY <2>1, <2>2
<1>2. run.status \notin Verdicts \union {"CANCEL_REQUESTED", "CANCELLED"}
  BY InTheBeginning, Ranks DEF Verdicts
<1>3. CleanupIsAnnounced
  BY <1>0, <1>2, InTheBeginning DEF CleanupIsAnnounced, At
<1>4. ReportsHaveARetry
  <2>1. \A job \in BagToSet(jobs) : job.left = 1
    BY InTheBeginning DEF JobFor, MaxDeliveryRetries
  <2>2. \A h \in Handlers : ReportIsFresh(h) /\ Key(h) # ReportKey
    BY <1>0 DEF ReportIsFresh, At, Key, ReportKey
  <2>. QED
    BY <1>0, <2>1, <2>2 DEF ReportsHaveARetry, At
<1>5. ~Guard!Settled(ReportKey)
  BY InTheBeginning DEF Guard!Settled, Guard!Stands, Guard!Results
<1>6. RunIsCarried /\ ReportIsUsed /\ CleanupIsCarried /\ CancelIsCarried
  BY <1>2, <1>5, InTheBeginning, InitiallyDelivered
     DEF RunIsCarried, ReportIsUsed, CleanupIsCarried, CancelIsCarried
<1>. QED
  BY <1>1, <1>3, <1>4, <1>6, InitiallyDue DEF CarriedInv, Auxiliaries

LEMMA CarriedInvHolds == Spec => []CarriedInv
<1>1. Init => CarriedInv
  BY InitiallyTyped, InitiallyCarriedInv
<1>2. PaceInv /\ CarriedInv /\ [Next]_vars => CarriedInv'
  <2>. SUFFICES ASSUME PaceInv, CarriedInv, [Next]_vars PROVE CarriedInv'
    OBVIOUS
  <2>1. Undisturbed' => Undisturbed
    <3>1. spent \in [Events -> Nat] /\ \A e \in Events : spent'[e] >= spent[e]
      BY BoundsTyped DEF PaceInv, OutcomesInv, PlannedInv, WorldInv, IInv, Basis, TypeOK
    <3>2. {"crash", "expiry", "lease"} \subseteq Events
      BY DEF Events
    <3>. QED
      BY <3>1, <3>2 DEF Undisturbed
  <2>2. TurnedAway => TurnedAway'
    BY StaysAway DEF PacedStep
  <2>3. ASSUME Undisturbed', ~TurnedAway'
        PROVE  CalmStep /\ RunIsCarried /\ ReportIsUsed /\ CleanupIsCarried /\ CancelIsCarried
    BY <2>1, <2>2, <2>3 DEF CarriedInv, CalmStep
  <2>. QED
    BY <2>3, AuxiliariesStep, CarriedStep, UsedStep, CleanedUpStep, CancelledStep DEF CarriedInv
<1>. QED
  BY <1>1, <1>2, PaceInvHolds, PTL DEF Spec

\* While no Worker dies, no job expires and no lease is lost, a Run that is not turned away
\* is never left with nothing to do before it has its verdict or is cancelled and the outcome
\* of its cleanup is recorded (or the cleanup of its cancellation has failed), whatever
\* deliveries overlap or are repeated, and whenever the user cancels or retries.
THEOREM RunsAreKept == Spec => []OnlyFaultsLoseRuns
<1>1. PaceInv /\ CarriedInv => OnlyFaultsLoseRuns
  <2>. SUFFICES ASSUME PaceInv, CarriedInv, Undisturbed, Quiescent, ~TurnedAway
                PROVE  Concluded \/ CleanupGivenUp
    BY DEF OnlyFaultsLoseRuns, NoLostRun
  <2>. run \in [status : RunStatuses, attempt : Attempts, cleanup : CleanupStatuses]
    BY DEF PaceInv, OutcomesInv, PlannedInv, WorldInv, IInv, Basis, TypeOK
  <2>1. ~Delivered
    BY SmallBags DEF Quiescent, Delivered
  <2>2. ASSUME NEW h \in Handlers
        PROVE  ~Carries(h) /\ ~Concludes(h) /\ ~CleansUp(h) /\ ~CarriesCancel(h)
    <3>1. handler[h].at = "idle"
      BY DEF Quiescent, At
    <3>. QED
      BY <3>1 DEF Carries, Concludes, CleansUp, CarriesCancel, At
  <2>3. ~Waiting /\ ~(run.status \in Underway /\ Guard!Settled(ReportKey))
    BY <2>1, <2>2 DEF CarriedInv, RunIsCarried, ReportIsUsed
  <2>4. run.status \notin Underway
    BY <2>3 DEF Waiting
  <2>5. /\ run.cleanup = "PENDING" => run.status = "CANCEL_REQUESTED"
        /\ run.status = "CANCEL_REQUESTED" => run.cleanup = "FAILED"
    BY <2>1, <2>2 DEF CarriedInv, CleanupIsCarried, CancelIsCarried
  <2>6. /\ run.status \notin {"RECEIVED", "REJECTED_BY_CAPACITY"}
        /\ run.status = "CANCELLED" => run.cleanup # "NOT_SCHEDULED"
    BY DEF CarriedInv, Auxiliaries, CleanupIsAnnounced, PaceInv, StatusIsInside, TurnedAway
  <2>7. run.status \in Verdicts \union {"CANCEL_REQUESTED", "CANCELLED"}
    BY <2>4, <2>6, Ranks DEF RunStatuses, Verdicts
  <2>8. run.cleanup \in {"NOT_SCHEDULED", "PENDING", "CLEANED", "FAILED"}
    BY DEF CleanupStatuses
  <2>9. CASE run.status \in Verdicts
    <3>1. run.cleanup \in {"CLEANED", "FAILED"}
      BY <2>3, <2>5, <2>8, <2>9 DEF Waiting, Verdicts
    <3>. QED
      BY <2>9, <3>1 DEF Concluded, IsTerminalRun, TerminalRunStatuses, Verdicts
  <2>10. CASE run.status = "CANCELLED"
    <3>1. run.cleanup \in {"CLEANED", "FAILED"}
      BY <2>5, <2>6, <2>8, <2>10
    <3>. QED
      BY <2>10, <3>1 DEF Concluded, IsTerminalRun, TerminalRunStatuses
  <2>11. CASE run.status = "CANCEL_REQUESTED"
    BY <2>5, <2>11 DEF CleanupGivenUp
  <2>. QED
    BY <2>7, <2>9, <2>10, <2>11
<1>. QED
  BY <1>1, PaceInvHolds, CarriedInvHolds, PTL
=============================================================================
