# CodeHost in TLA+

CodeHost receives pull-request webhooks from Gitea, turns a head commit into a
*Run* of eleven steps (detect, fetch, analyze, test, build, preview, health,
assemble, review, report, cleanup), executes them in a Kubernetes namespace per Run and
reports the verdict. The API and the Worker are separate processes; they share a
PostgreSQL database and a job queue (pg-boss, in the same database). Neither has a
lock over a whole Run: correctness rests on short transactions, leases, attempt
numbers, a transition table and the redelivery of jobs. This directory models that
part, the outside it acts on (Kubernetes, Gitea, the agent-review service) and who
may act on a Run: which interleavings are possible, what they may do, and what they
may not.

Paths below are relative to `src/`. `w/` abbreviates `apps/worker/src/`, and `api/`
abbreviates `apps/api/src/`. `PROJECT.json` maps every definition to its lines.

## 1. Inventory

### Parts of the system

| Part | State it keeps | Operations | Correct when |
| --- | --- | --- | --- |
| Run vocabulary, `packages/contracts/src/run-status.ts` | none | transition table, terminal, retry predicate | the plan only asks for legal transitions |
| Step plan and verdict, `w/workflow/plan.ts`, `state-machine.ts` | none (pure over `run_steps`) | next step, skip, phase, verdict | every combination of results ends the attempt, and no skip lets a Run pass |
| Step guard, `w/workflow/db-adapter.ts:367` | `run_steps`: status, lease token, lease time | `runOnce`, heartbeat, `markSkipped`, `list` | one execution of a step stands; a stale caller changes nothing |
| Workflow consumer, `w/workflow/consumer.ts` | local variables of each handler | `handle`, `advance`, `advanceCancellation`, `finalizeReport`, `finalizeCleanup`, `dispatchNext` | steps in order, verdict from the steps, no Run lost, cancellations take effect |
| Workflow store, `w/workflow/db-adapter.ts:36` | `runs`, `k8s_resources`, `gitea_syncs`, plan, preview and review tables | `transitionRun`, `setCleanupStatus`, `record*`, `enqueueGitea*` | writes of an older attempt are refused |
| Workflow queue, `w/queue.ts` | pg-boss jobs | `dispatch`, delivery, one retry | every job is delivered at least once while its handler fails |
| Outbox publisher, `w/workflow/outbox.ts` | `workflow_outbox` with row leases | claim, send, mark, back off | what the API committed is published at least once |
| Webhook admission, `api/webhook.service.ts` | `webhook_events`, `pull_requests`, `runs` | `accept` | the queue is bounded, a delivery has its effect once |
| Capacity triggers, `packages/db/drizzle/0005_run_capacity_triggers.sql` | `runs.status` | before each insert or update of a status | one Run at work, three in the queue, and the writers' decisions stand |
| Run operations, `api/run.controller.ts` | `runs`, `workflow_outbox` | retry, cancel | only ended Runs are retried, to an attempt there is room for; a cancellation takes effect |
| Step executors, `w/workflow/executor.ts`, `w/kubernetes/runtime.ts` | Kubernetes objects of the Run's namespace | `execute`, `cleanup` | execution is repeatable, cleanup leaves nothing |
| Kubernetes client and reconciliation, `w/kubernetes/client.ts`, `packages/k8s/src/reconcile.ts` | none | create, adopt, wait | foreign objects are never adopted |
| Gitea synchronisation, `w/gitea/sync.ts` | `gitea_syncs` rows with leases | publish, mark, back off | the last desired status is the one Gitea shows |
| Retention, `w/retention.ts`, `w/registry.ts` | expiry times | cleanup retry, namespace collection, deletion of rows | nothing still in use is deleted |
| Agent review queue, `w/agent-review/queue.ts`, `apps/agent-review/src/` | requests and results as pg-boss jobs | request, work, result, timeout | a result answers its own request, once |
| Agent library, `packages/agent/src/` | none | truncation, evidence checks, sanitising | bounded output, evidence refers to the diff |
| Sessions and OAuth, `api/auth.service.ts` | sessions, one-time states | login, callback, logout, expiry | a state is used once |
| Configuration, Kubernetes builders, web console, infrastructure scripts | none, or outside the program | | |

### How they interact

- The **webhook** inserts the Run as `QUEUED` and an outbox row in one transaction;
  the **outbox publisher** of the Worker sends the row as the job of the first step.
- A **handler** (one call of `WorkflowConsumer.handle`) takes a job, brings *one*
  step to an end under the **step guard**, and sends the job of the next step. Jobs
  are found by the records, not by the handler's memory: any job may arrive late,
  twice, or for a step that somebody else has finished.
- **Cancel** sets the Run to `CANCEL_REQUESTED` and arms the outbox row of the cleanup
  step. Handlers notice it when they read the Run again.
- **Retry** reopens an ended Run as a new attempt. Rows, jobs and records of the older
  attempt remain and are told apart by the attempt number. The namespace is the
  same one.
- **Retention** arms the cleanup row of ended Runs whose cleanup did not happen.
- A step's **execution** reconciles Kubernetes objects under names some of which all
  attempts of the Run share, and leaves rows in `k8s_resources`.
- The **review** step asks the agent-review service through the queue or over HTTP;
  over the queue, the result finds its way back through a map in one process's memory.
- Handlers write what Gitea should show into `gitea_syncs`; the **Gitea
  synchronisation** of the Worker carries it out, at some later time.
- A **session** of the API comes from a login through Gitea. Retry and cancel check
  the session, then the Run, then the right to push, and only then open their
  transaction.
- The API counts the Runs under an advisory lock (`platform:run-capacity`) and decides whether
  a new or repeated one may wait. Beneath everybody, two **triggers** of the `runs` table decide again: a statement that
  lets a Run enter the queue, or the work (the four working statuses and `CANCEL_REQUESTED`), takes the
  trigger's lock (`platform:queued-runs`, `platform:active-runs`) until its transaction
  ends, and if the place is taken, the status it wrote is replaced by `REJECTED_BY_CAPACITY`. The row
  is updated and returned all the same, so that the writer believes that it has moved the Run.

### Where it is hard

The full list, with lines and the properties that cover each entry, is `hazards` in
`PROJECT.json`. In short: handlers act on records they read some statements earlier;
a step's lease (20 minutes, `db-adapter.ts:24`) outlives the redelivery of its job
(pg-boss, 15 minutes, one retry), so two executions of a step can overlap and a
redelivery can find its dead predecessor's lease; results are recorded before their
effect on the Run; a cancellation, a retention sweep or a retry can arrive between
any two statements; capacity is counted by two statements while other writers move
Runs from one count to the other; and a trigger may store another status than the one
that was written, and nobody is told. Towards the outside there are no transactions at
all: a request whose client has given up may still be carried out, an object may
have been created by an execution that has died since, a result may arrive in a
process that did not ask for it, and what was checked (a session, a right, an
attempt) may have changed when it is used.

Two handlers at a time are real although one process handles one job at a time:
pg-boss gives up a job whose handler is still alive after 15 minutes and delivers
it again, and during a rollout (`infra/k3s/platform.yaml.tmpl:928`, default rolling
update) two Worker processes overlap.

## 2. The modules

| Module | Models | Lines it stands for |
| --- | --- | --- |
| `RunStatus` | statuses, transition table, `canRetryRun` | `packages/contracts/src/run-status.ts` |
| `StepPlan` (extends `RunStatus`) | `nextStepAction`, `shouldSkip`, `phaseForStep`, `deriveFinalRunStatus`, the results executors can return | `w/workflow/plan.ts`, `state-machine.ts`, `types.ts` |
| `Pipeline` (extends `StepPlan`) | one attempt, nothing interfering: every combination of results walks through the plan; `Workflow` states its formulas of the Run (`Walk`) | the round of `advance` without its awaits |
| `OnceLedger` | *abstract*: each step has one entry that, once it stands, is final | what `step-guard.ts` promises |
| `RunLifecycle` (extends `StepPlan`) | *abstract*: which statuses a Run shows in which order, and which steps are done when it does | what the transition table and `consumer.ts` promise together |
| `StepGuard` | `DatabaseStepGuard`, statement by statement, with crashes, database errors and leases that run out | `w/workflow/db-adapter.ts:357-475` |
| `Workflow` (extends `StepPlan`, instantiates `StepGuard`, `RunLifecycle` and `Pipeline`) | handlers, queue, outbox, cancel, retry, sweep for one Run | `w/workflow/consumer.ts`, `queue.ts`, parts of `db-adapter.ts`, `retention.ts`, `run.controller.ts` |
| `Admission` (extends `RunStatus`) | capacity decisions of webhooks and retries, cancellations and starts, and the triggers over them all, for all Runs | `packages/db/drizzle/0005_run_capacity_triggers.sql`, `api/webhook.service.ts`, `api/run.controller.ts`, `transitionRun` |
| `Publishers` | both tables of messages to the outside and the polls that deliver them | `w/workflow/outbox.ts`, `w/gitea/sync.ts`, `enqueueGitea*` |
| `Cluster` (extends `StepPlan`) | executions of steps on the namespace that all attempts of a Run share | `w/kubernetes/runtime.ts`, `client.ts`, `packages/k8s/src/builders.ts`, `reconcile.ts` |
| `DiffEvidence` | the reader that finds the changed lines of a diff, as a fold | `parseUnifiedDiffEvidence` of `w/kubernetes/runtime.ts` |
| `Review` (extends `DiffEvidence`) | the agent review: calls, the client's promises, the service, Worker processes | `w/kubernetes/runtime.ts`, `w/agent-review/queue.ts`, `apps/agent-review/src/`, `packages/agent/src/` |
| `Access` (extends `RunStatus`) | logins, sessions, and what retry and cancel check before they act | `api/auth.service.ts`, `api/run.controller.ts` |
| `StepGuardProofs`, `StepPlanProofs`, `WorkflowProofs`, `AdmissionProofs`, `PublishersProofs`, `ReviewProofs`, `AccessProofs`, `ClusterProofs` | theorems about the module they extend (`WorkflowProofs` also uses those of the guard and of the plan, `ClusterProofs` those of the plan) | |
| `MC*` | values of the constants, symmetry and views for TLC | |

### StepGuard

`rows[k]` is the `run_steps` row of step key `k` (run, attempt, step): its status, the
lease token (`token`: the caller that holds it) and whether the lease time is still
ahead (`live`). `call[c]` is one execution of `runOnce`: it is idle, admitting, in its operation,
persisting, or releasing. The admission transaction takes an advisory lock on the step (`Locked`), reads the row by a
plain `SELECT` and then writes it by its id alone. It is two actions, therefore: `Look` reads (or answers: `AlreadyTerminal`,
`Busy`), `Take` writes. `now` is read before the lock is waited for, so a lease that runs out meanwhile still counts as
live. Heartbeat and release take no lock and may fall between the two; a lease that was found expired and is renewed
there is taken from a holder that has it live. So `LeaseChangesHandsFairly` does not say that the lease is still expired when it is taken, but
who may take it: the one admission that has the lock and found (`found`) the lease of this very holder expired.
`Admit` is both at once, for `Workflow`, which looks at the guard from outside. That loses nothing: everyone else who wants the
row waits for its lock, and after `Take` the row is the same whether a renewal came in between, or a release before.
`Heartbeat` renews the lease,
`OperationReturns` and `OperationThrows` end the operation, `Persist` is the fenced
update (status and token compared) and `LeaseLost` its refusal, `Release` puts the row
back after an error, comparing only the token. `PersistError` is a lost connection:
the update may have been committed without the caller knowing. `LeaseExpires` stands
for the 20 minutes passing: a row that is kept alive can expire only while its
caller stalls. `executed` counts, as history, the calls that returned *executed* with a
result that stands.

Time is only "lease live or not". A heartbeat that is late by any amount, and a caller
that stalls for any time, are behaviours of the model. The other modules treat time
alike: a lease, a back-off, a session or a login is over or it is not.

### Workflow

A handler's `at` names the await it will resume from; every database statement is an
action, so everything a handler has read (`snap`, `result`, `target`, `verdict`) may be
stale when it acts. `jobs` is a bag: delivery has no order, and duplicates are kept
apart only by count. A job carries `left`, the redeliveries pg-boss still grants
(`config.ts:6`: one). A handler that throws or dies gives its job back with one fewer;
`Expire` gives the job back while the handler lives on, after which the handler's end
no longer matters to the queue. `rows`, `call` and `executed` belong to the instance
`Guard` of `StepGuard`, with handlers as callers: `Admit`, `Execute`, `Persist` and `Skip`
take its actions, so the composition is by conjunction and the guard's properties
carry over.

A Run that enters the work while others are at it may be stored as rejected (`StoredAs`); whether there are others is part of the scenario
(`crowded`), as they are not in the module. `Move` and `Cancel` go on as the code does: the handler keeps PLANNING in its
`snap` and executes `detect`, the cancel request arms the cleanup. A retry is stored as `QUEUED`, because the service's
check agrees with the trigger's, which is a property of `Admission` (`DecisionsStand`).

`namespace` is true while the Run's namespace exists and no deletion of it has been
accepted: a cleanup that ends with *deletion-pending* counts as passed in the code
(`w/kubernetes/runtime.ts:769`). `details` is the set of plan, preview and report rows.
`outbox` keeps, per attempt and kind, the row's status and its publication count; the leases of
those rows are in `Publishers`.

Two things are one action although they are two statements: two reads with only
local work in between, and a read followed by the send of a job computed from it
(jobs carry nothing but attempt and step, and a late job must be harmless anyway).

A behaviour begins with a choice among `Scenarios`: the step it starts from (those
before it have passed undisturbed), what each step may report, and how often each
outside event may happen. `spent` counts the events; `"beside"` is the number of handlers
that may work next to another.

### Admission

`runs` is the table, `locks` has the holders of the three platform-wide advisory locks, and `request` is where each transaction
is: a webhook, a retry, a cancellation, or the transition with which the Worker starts a Run. It stands between two
statements (`at`), with what it has seen and counted. `LockCapacity`, `CountActive` and `CountQueued` are the service's own
check, and `Decided` what a webhook makes of it. `Create`, `Retry`, `Cancel` and `Start` are the statements that
write a status, and all of them go through `Store`, which is the triggers: `TriggerLock` is the lock they wait for,
`Overruled` their count (of what is committed by then) and the status they put in place of the one that was written. `Commit`
makes the row visible and lets go of the locks.

The other locks are the code's as well: all but a webhook hold their Run's (`RunLocked`), a webhook the row of its pull request from
its upsert on (`PullRequestLocked`). `CleanUp` (`setCleanupStatus`) takes none, but waits for a row that an open transaction has
written (`RowLocked`). `End` leaves the working statuses, which no trigger minds. The partial unique index on the
active Runs of a pull request (`schema.ts:261`) refuses nothing any more, as the trigger that counts the active Runs of all
pull requests fires before it.

One working status stands for the four, `FAILED` also for `INCOMPLETE`; deliveries that
return before they reach the runs table (signature, allowlist, known delivery id,
stale head) are left out, and every pull request is of its own repository, so that the
repository row does not serialise more than the code must rely on.

### Publishers

The outbox and the Gitea synchronisation share one design, and one module: a poll
picks a due row, takes a lease in a short transaction, talks to the other side
without a lock, and settles the row if its lease is still the one the poll took.
`rows` holds both tables. A poll's `at` is the await it is in: sending a job; or, for
Gitea, listing what is there, creating or updating, and then marking or putting off.
The lease token in the code is the end of the lease, which no two polls share; here it
is the poll's name, and a poll leaves a row it no longer holds alone.
What a row of `gitea_syncs` says is a *version* (FAILURE is asked for before SUCCESS);
`wanted` remembers what handlers asked for last, `statuses` and `comments` are what Gitea has,
and `wire` holds requests whose client died or timed out: they are carried out later
or never.

Three rules of the code shape the behaviours. Arming an outbox row again clears its lease,
so that the publisher which holds it can no longer mark it. A handler's new wish for a
`gitea_syncs` row is dropped while a publisher's lease on it is live; it reads the Run's attempt without a lock, so the wish of an older attempt
may be written after a retry (`NewerReported`). And a poll matches a comment by its marker,
a status by its context, head and description, before it creates another.

### Cluster

`things` is the cluster: for each name whether the object is there, in which state, its
uid (the number of its creation) and the attempt in its labels. The names are the
point: those of Jobs, previews and source Secrets hold the attempt, those of the namespace and the
workspace (quota, limits and volume, one object here) do not.
`exec[e]` is one call of `execute`, with what it still has to do and what it has
found; each call of the API and each statement is an action: `Get` and `Put` reconcile (adopt one's own,
refuse a foreign one, create what is missing), `Note` records the object in `k8s_resources`,
`Wait` watches the Job, `Collect` reads its log, `Find`, `Delete` and `Unlist` remove it and mark its row, `Revoke`
deletes the source Secret, and `NsGet` to `NsMark` are the cleanup. A call that fails may have been carried out all the same, in
creations as in deletions (`CallFails`, `DeleteUnanswered`). `book` and `owner` are the little of
the guard that matters here: which steps have which result, and who executes them. A `LeaseLost` or
a `Crash` lets the step begin again in a second execution while the first one's
objects, or the first one itself, are still there.

`analyze` and `build` are carried out like `test` and left out, and so is `detect`, which touches no
cluster. A preview's Deployment, Service and Ingress are one object.

### DiffEvidence and Review

`DiffEvidence` is a pure algorithm: `Read` folds over the lines of a unified diff and keeps, per
file, the ranges of lines it adds. An added line that begins with `++ ` looks like the header of a file
(`Lookalikes`): the reader goes on in the file it names, or in none. `EvidenceIsSound` says what is left then. The
numbers found are those of added lines; they are lines of the file they are found for unless an added line names
another one (`NamesNoOtherFile`); and they are all of them if nothing looks like a header (`NamesNoFile`). The run
`review` evaluates it for all edits of one hunk of up to four lines, of two hunks of up to two, of two files with a hunk of up to two
each, and for those its heads make. `MisledAssumption` is an edit that does name another file, and the unchanged line that is found
there.

In `Review` a call of `executeAgentReview` gets the diff by the number of the pull request, and so of whatever
head it has at that moment (`EvidenceHead`: the Run's, until somebody pushes), prepares the input, and asks. Over the queue, `pending` is the map of
promises in each Worker's memory, by the input's hash; `requests` and `results` are jobs with the
deliveries they have left. A result that reaches a Worker in which nobody waits for it throws and is
delivered again, to anyone. A send may fail or outlast its timer;
a Worker may die, be stopped (which rejects all its promises) or run beside another. `served` remembers what the
service made of each input. `Answers` of the model's provider may have any set of faults;
`FirstFault` and `Check` give the order in which the code looks for them.

### Access

`oauth` and `sessions` are tables, `jar` is what a browser keeps: the cookies of the last login it began,
its session, and the session its page was loaded for (whose CSRF token the page sends). A callback goes through
`Select`, `Consume` (the conditional update that only one callback wins), `Exchange` with Gitea, `Insert` of
the session, and `Reply`, whose cookies reach the browser later. A request to retry or cancel goes through
`Authenticate`, `Find`, `Permit` (a call of Gitea) and its transaction; logout through `Revoke` and its
reply. Between any two of them time may run out for a login or a session, a right
may be withdrawn, the Run may end or be retried by another. Granting rights, and repositories a user
may only read, are left out; retry's capacity is in `Admission`. A queued Run that is cancelled, or starts, while others are at work
may be stored as rejected (`StoredAs`).

## 3. What the runs check

`tlc -workers 2 -config <cfg> <module>`; times are with two workers.

| Run | Configuration | Shows | Size |
| --- | --- | --- | --- |
| `pipeline` | `MCPipeline.cfg` | all combinations of the results each executor can return, in one attempt by itself: phases stay legal | small |
| `guard` | `MCStepGuard.cfg` | two callers, a plain and a retryable step, unlimited crashes, errors and expiries: at most one execution stands, leases change hands fairly, the ledger is implemented, and once faults stop a delivered step settles | 196 000 states, 25 s |
| `events` | `MCWorkflowEvents.cfg` | the workflow of a Run in five scenarios (below): steps in order, founded verdicts, previews of tested code, open phases, confirmed cleanups that are real, no Run lost but by a fault, rejected Runs that leave nothing behind, and the lifecycle implemented | 1.8 M states, 180 s |
| `live` | `MCWorkflowLive.cfg` | under fairness, a whole attempt, two handlers, other Runs at work, a cancel request at any moment | 200 000 states, 65 s |
| `admission` | `MCAdmission.cfg` | three Runs of two pull requests, two concurrent transactions, one retry per Run | 1.4 M states, 25 s |
| `publishers` | `MCPublishers.cfg` | a job, two statuses and a comment, two polls, two wishes, a failure and an overlap | 178 000 states |
| `cluster` | `MCCluster.cfg` | two attempts of a Run, two executions, two faults | 794 000 states, 70 s |
| `review` | `MCReview.cfg` | two calls, two lives of the Worker, two heads, queue and HTTP, three events | 811 000 states, 75 s |
| `access` | `MCAccess.cfg` | two browsers, users, logins, callbacks and requests, racing | 3.4 M states, 110 s |
| `lost_run`, `stuck_cancel`, `queue_rejects` | see section 5 | what the code does differently from what it or its docs say | seconds |

### The properties

- **Pipeline.** `NextPhaseIsLegal`: skips can leave out every step of a phase, and the
  move to the next one must still be in the transition table. Its other formulas, `VerdictsAreHonest` and
  `PreviewOnlyOfTestedCode`, are said of the Run whose steps several handlers take, by `Workflow`'s `Walk`.
- **Guard.** `AtMostOneExecution`: expired leases and stale callers notwithstanding, one
  execution of a step returns with a result that stands, and the row says so.
  `LeaseChangesHandsFairly`: a running row passes on only by its holder, or to the admission that
  has found this holder's lease expired. `LedgerSpec`: refinement of `OnceLedger`. `SettledOnceFaultsStop`.
- **Workflow.** `StepsFollowThePlan`: whatever is duplicated or late, a step is started or skipped
  only when the plan says so of the records as they are then, and not as the handler read them: it is the first open one, it is
  skipped exactly when the gates close it, and of an older attempt only the cleanup is begun; a cancellation's
  cleanup alone may overtake. `VerdictsAreFounded`: the verdict agrees with the
  recorded steps although it is read, derived and written by separate statements, and comes with the
  report of the review it stands on; nothing that was
  skipped, failed or incomplete lets a Run pass, and a failed one has been reviewed (`Walk!VerdictsAreHonest`).
  `PreviewsAreOfTestedCode`: what the gates let through, whoever acted on what it had read. `PhasesStayOpen`: `moveToStepPhase`
  compares with the status that the handler read, and `transitionRun` with the one there is; no move of a late handler takes
  a Run that goes on to where the next step's phase is refused. `OnlyFaultsLoseRuns`: when nothing is under way any more the
  Run has ended, unless a Worker died, a job expired or a lease was lost. Two ends are named beside the proper one: the database has turned the Run
  away (`TurnedAway`), or the cleanup of its cancellation has failed and nobody tries it again (`CleanupGivenUp`).
  `RejectedRunsStop`: of a Run that was turned away, by a trigger that neither its handlers nor its user notice, no step is
  executed but the first, and no namespace is left unless a retry found one there. `CleanedMeansGone`,
  `CleanupSparesNewerAttempts`: a confirmed cleanup is a real one, and a late cleanup of an
  older attempt does not take a newer one's namespace; both say in their conditions which
  events together do break them. `LifecycleSpec`: refinement of `RunLifecycle`, with the steps that are settled
  in the guard's rows as the steps that are done. `AttemptsConclude`, `CancelTakesEffect`: liveness; an attempt, or a cancellation
  that was accepted, comes to its end unless the Run is turned away.
- **Admission.** `CapacityIsBounded`: never more Runs wait than the limit, and never more than one is at work, as what
  a trigger has counted under its lock cannot have grown when its transaction commits. `DecisionsStand`: the queue's trigger counts again after the
  service has, and after it has been decided whether a job is written and what is answered; it never decides
  otherwise, although nothing in the code connects the two but the service's lock. `RequestsAreNotDeadlocked`: in whatever
  order Runs, pull requests, the capacity lock and the triggers' locks are taken, some transaction can go on.
- **Publishers.** `MarkedMeansDelivered`: whatever was re-armed, changed or taken over while a poll was
  away, a row is marked only if what it asks for *now* has been sent or posted. `CommentsAreUnique`: errors and
  crashes make no duplicate comment. `GiteaShowsTheLatest`: when all is quiet and nothing overlapped, Gitea shows what
  was asked for last, as far as the wish was not dropped. `RowsAreDelivered`: every waiting row is delivered in the end.
- **Cluster.** `ExecutionsAreSound`: a step's result is that of a Job of this step and attempt, and
  the code under test is run again only after a death between the Job's deletion and its
  record. `TestsRunOnTheirSource`: a running test finds the workspace that its own attempt's fetch filled.
  `TokensAreRevoked`: a source Secret without failures and deaths always has an execution that will delete it. `CleanupIsFinal`:
  what is recorded as deleted does not exist, object by object and as a whole. `NamespaceIsRemoved`: liveness.
- **Review.** `PassedReviewsAreSound`: a review passes only on a report that the service made of the
  very input, all of whose findings lie in lines that the Run's head changes; this relates the end of the chain to
  the edits themselves, through the diff reader. It names the two cases in which the code does not keep it: after a push the
  lines are held to the head that was fetched only, and where an added line names another file to none. `WaitersAreServed`: who waits is registered under its key, and
  its answer is still on its way. `ReviewsEnd`: liveness.
- **Access.** `LoginsMakeOneSession`: one session per login, in the browser that began it.
  `ChangesAreDue`: a request sent after its session had ended changes nothing, and of the retries that saw one
  attempt one starts the next. `RefusalsHaveACause`: nobody is turned away for what others do.

Several hold under a condition that names the fault which does break them (`Undisturbed`,
`spent["crash"] = 0`, ...). Those conditions are as narrow as TLC allows; section 5 says what happens without
them. Every property is broken by a plausible change of the code: the definitions marked
*Variant* are those changes (`mutants` in `PROJECT.json`).

### Bounds

- Two handlers, callers, polls, executions, callbacks and requests, because two is what an expiry, a timer
  that does not wait, or a rollout produces, and every race in this code is between two of
  them (the theorems hold for any number).
- `events` has five scenarios. *Redeliveries*: a whole attempt, a job delivered twice, a
  sweep, two handlers, tests and cleanup that may fail. *Faults*: from `health` on, which may end
  INCOMPLETE, a crash, a job given up under a live handler and a lost lease, two handlers. *Retried*: from `test` on, a
  cancel request, a crash and a retry, and *Cancelled*: from `build` on, two cancel requests, a crash and a retry, both with
  one handler. *CancelledBeside*: from `test` on, a cancel request and a job delivered twice, two handlers.
  In one behaviour all events of its scenario may happen. In *Redeliveries*, where `detect` may fail too, and *Retried* other Runs may be at work
  when this one is to begin or is cancelled, in the first attempt and in the second; so they may in `live`. The guard has no such bound.
- Two attempts where a retry matters: a retry, and the leftovers of the first attempt. `Access` has three, for
  two retries that race.
- `QueueLimit` is 2 and `MaxQueuedRuns` 1 in the passing run (3, and at most 3, in the code). The limits are only compared
  with; three Runs suffice to exceed the queue and the work, and the two limits differ. `queue_rejects` has the code's values.
- `Publishers`: two attempts' statuses on one head and a comment, two wishes (FAILURE, then SUCCESS), one failed call
  or death, and one overlap (a lease lost by a live poll, or a request carried out late).
- `Cluster`: at most two of a failing call, a death and a lost lease, the last only by itself; the first attempt has fetch, preview,
  health and cleanup, the second fetch, test and cleanup.
- `Review`: three of a failed call, a slow send, a death, an overlapping execution, an overlapping process and a push. The first head
  adds line 2, the second line 3; answers name one of them, or are refused.
- `Access`: three callbacks and requests in all, and one event of time, right or Gitea.
- Results: only those that change the course (`MCWorkflow`); `pipeline` has all.
- `CHECK_DEADLOCK FALSE` where a Run, or all requests, may simply be finished.
- Symmetry is used in runs without liveness only. The view of
  `MCWorkflow` hides what a finished call of `runOnce` has left in its variables, which
  nothing reads again.

### Fairness

- `StepGuard`: a caller that is alive goes on (from the admission's read to its write, too), a lease that nobody renews runs out,
  and a step keeps being delivered (strong, as it may be busy in between); this last one
  is what pg-boss does *not* give beyond one retry, so `SettledOnceFaultsStop` speaks of
  steps that are still delivered, and `lost_run` shows what the bound does to the rest.
- `Workflow`: weak fairness of each handler's next statement, of the publisher's polling
  (`outbox.ts`, an interval timer) and of leases nobody renews. Users, faults and the
  sweep owe nothing.
- `Publishers`: timers poll and polls go on; a lease that no poll attends to runs out, a back-off time ends. Nobody
  has to ask, and nothing has to fail.
- `Cluster`: while nobody has died and no lease was lost, the executions under way and the workflow that hands out steps
  go on; Kubernetes finishes the deletion of a namespace it has accepted.
- `Review`: calls go on and timers of waiting calls fire (timers run in the process that waits). The service and the queues owe nothing, so that `ReviewsEnd`
  does not rest on an answer.
- `Admission`, `Access` and `Pipeline` state no fairness: their properties are safety.

## 4. What is proved

Each `*Proofs` module is checked by `tlapm` for every value of the constants, under the named assumptions of the module it
extends only. All but `StepPlanProofs`, whose subject has no state, include type correctness, `TypeCorrect`.

`StepGuardProofs`, for every set of keys, callers and retryable keys:

- `AtMostOnce == Spec => []AtMostOneExecution`. The invariant is not inductive: `Release`
  compares only the token, so nothing yet says that a row whose token is the caller's
  is not already settled: a release could then reopen it and let it be executed again.
  `HeldInvariant` supplies it: a row with a token is `RUNNING` (`OnlyRunningRowsAreHeld`), as persisting
  clears the token and admission sets both. With it, `RowStep` says once what one step
  can do to one row, and the counter is compared with the row step by step.
- `ImplementsLedger == Spec => LedgerSpec`: every step changes at most one entry
  (`OneRowChanges`), and an entry that stands is not changed; initial states map to
  initial states, steps to steps or stutters.
- `LeaseFair == Spec => LeaseChangesHandsFairly`, from the same lemmas and from what an admission knows between its read and
  its write: it is alone with its row (`Locked`), and no row is settled or skipped meanwhile.

`StepPlanProofs`, about the pure operators that `Workflow` computes with, for every book of records:

- `NextStepIsDue`: what `NextStepAction` says to run or to skip comes after settled steps only.
- `DerivedVerdictFits`: the verdict derived from results that executors can return, and from skips with a failure behind
  them, is PASSED only if everything passed and FAILED only if something failed, whatever the cleanup did meanwhile.

`WorkflowProofs`, for any number of handlers and attempts, any scenarios and any bounds on the events:

- Every step of the workflow is a step of the guard or leaves it alone (`GuardStep`), so that the guard's theorems hold
  here, through the instance. `ExecutedOnce == Spec => []Guard!AtMostOneExecution` is one of them.
- `VerdictsFounded == Spec => []VerdictsAreFounded`. A handler acts on what it read
  some statements earlier, so the inductive invariant `IInv` says what may be relied on all the same. Results are
  final: a settled row stays settled and says the same (`RecordsAreResults`, with `RowStep`), so that a step that was due when the
  records were read is due still (`StepsAreDue`: for rows, and for handlers that go for a step) and a verdict
  that was derived fits the rows still (`VerdictsFit`). That needs to know which execution is
  whose (`HandlersKnowTheirCalls`), and that a retry, the one step that makes earlier rows irrelevant, begins an attempt of which there
  is nothing yet, no row, job or handler (`LaterAttemptsAreBlank`). `ReportsAreKept` and `CleanupsAreRecorded` do the
  same for what is written by a second statement after the result.
- `ImplementsLifecycle == Spec => LifecycleSpec`, from `PaceInv` (below): initial states map to initial states, and by `LifecycleMoves` each step to a
  step of `RunLifecycle` or a stutter. Settling a row is `Settle` because of `StepsAreDue`, a phase is `Enter` and a
  verdict `Conclude` because of what handlers go for, CLEANED shows because of `CleanupsAreRecorded`, and a retry
  is `NextAttempt` because of `LaterAttemptsAreBlank`. That the database turns a Run away is `TurnAway`; from then on nothing
  past the detection is settled by an execution (`LittleIsDone`).
- `StepsAsPlanned == Spec => StepsFollowThePlan`. `PlannedInv` adds to `WorldInv`, which is described next, what a handler's
  decision is worth by the time it acts on it: while the step it is heading for is open, the gates say of it what they said when
  the handler read the records (`GoesByTheGates`). The gates of a step look at earlier steps only, and these are settled for good when it
  is due (`GatesStand`, `GatesStayTrue`). If another handler has settled the step meanwhile, the guard lets nothing begin. A step that is due and
  open is the one the plan asks for, unless a cancellation's cleanup came first (`DueStepIsNext`).
- `PreviewsOfTestedCode == Spec => []PreviewsAreOfTestedCode`, and the honest part of `VerdictsFounded`: what `Pipeline` says of an attempt
  that nothing interferes with, the concurrent handlers keep. `OutcomesInv` adds to `PlannedInv` where the records come from. Results are those of
  the executors (`ResultsAreOfExecutors`), a skipped step has a gate that is closed for it and stays so (`SkipsAreByTheGates`, `GatesStayClosed`), and
  a preview that was begun has tests and a build that passed (`PreviewsAreTested`): before a step that is due and not gated nothing failed or
  was skipped on which it depends (`OpenGateMeansTested`). For FAILED the assumption `OnlySourceStepsFail` is needed: review and report never
  fail as the application does, which holds of both executors, as `AssemblingPasses` below does.
- `CleanedIsGone == Spec => []CleanedMeansGone` and `CleanupSpares == Spec => []CleanupSparesNewerAttempts`, by a second
  invariant, `WorldInv`. As long as no live handler loses a lease, the row of a step that is executed is its handler's
  (`LeasesHold`), and so not settled: hence nobody executes a step of an earlier attempt (`PastStepsAreSettled`), nor, in a
  Run that was not cancelled, one of an attempt whose cleanup was begun. In a cancelled one a handler may start a step
  for which it had set out before; but a handler alone at work (`OneAtWork`) that comes after the beginning of the cleanup reads
  that the Run is cancelled (`NothingAfterCleanup`). So nobody brings a namespace back (`NobodyRebuilds`) that
  a cleanup has removed (`NamespaceIsGone`). A cleanup spares newer attempts because alone it keeps the Run's
  cleanup PENDING (`CleanersAreCurrent`), which no retry passes.
- `PhasesAreOpen == Spec => []PhasesStayOpen`, under all faults. `PaceInv` adds to `OutcomesInv` that the status keeps pace with the steps: no step of a later
  phase than the Run's was begun, and all of the earlier phases are settled (`StatusKeepsPace`). A handler's idea of it only lags
  behind (`HandlersKeepPace`), so a change of phase goes forward or is refused. What is skipped never includes a
  step that alone stands for a phase on the way (`SkipsAreSpare`; the review is among these because of `AssemblingPasses`, below), so that no phase the table requires is jumped over (`MayEnter`).
- `RejectedStop == Spec => []RejectedRunsStop`, by a part of `PaceInv` that is about queued Runs as well as rejected ones, `LittleIsDone`:
  a Run is turned away while it is queued, and what may be going on then is little. Of its attempt nothing was begun but the first
  step, its cleanup has no result, and every handler is at a place from which it gets no further than that step, or to a change of phase
  that is refused.
- `RunsAreKept == Spec => []OnlyFaultsLoseRuns`, from `PaceInv` and a fifth invariant, `CarriedInv`, which speaks of runs without a dead Worker, an
  expired job or a lost lease, as long as the database has not turned the Run away. "Something is under way" is not inductive: the job, or the handler, that is left must
  be one that does something. So the invariant says who carries the Run on. A Run that waits for its workflow has an outbox
  row or a job on its way, or a handler at a place from which it goes on by itself (`RunIsCarried`); a report
  that stands has a handler about to turn it into the verdict (`ReportIsUsed`); a PENDING cleanup has one that carries
  it out (`CleanupIsCarried`); and so does a cancellation (`CancelIsCarried`). The rest, `Auxiliaries`,
  excludes the ways to lose it without a fault: a row that is RUNNING is worked on (`RowsAreWorkedOn`); nothing is sent or
  delivered before its time (`EverythingIsDue`); and a report is executed under a job that has its retry left (`ReportsHaveARetry`): should the verdict be
  refused because of a cancellation in between, that retry turns to the cleanup.
  Two assumptions matter here. No Run begins at its cleanup. And assembling the review's input passes
  (`AssemblingPasses`), as it does with both executors (`kubernetes/runtime.ts`, `workflow/executor.ts`). Could it fail, the plan
  would skip the review (`shouldSkip`), and the report itself would be the first step in REPORTING. A repeated delivery of it could
  lose the race for that phase, execute the report with no retry left, and be refused the verdict by a cancellation whose
  own job found the report RUNNING and was done: without the assumption TLC finds this cancelled Run, lost.

`AdmissionProofs`, for any finite set of Runs, any requests, attempts and limits
(with `MAX_QUEUED_RUNS` at most the webhook's limit, as its parser enforces):

- `CapacityBounded == Spec => []CapacityIsBounded` and `ServiceDecides == Spec => []DecisionsStand`, by one invariant,
  `AdmissionInv`. Neither is inductive: what matters is what a transaction has *counted*, and what is still to be committed. `Fits` says of a row
  that is about to be committed that there is room for it, as its transaction holds the lock of the trigger that has counted, and nobody else can make
  a Run enter there. `CountsStand` says the same of the service's count of the queue, which has not grown since: only
  the holder of the capacity lock lets Runs enter the queue (`OnlyHolderCounts`), as retries and webhooks are the only
  writers of QUEUED. So the trigger finds no more than the service did, and its limit is not the smaller
  one. That a statement finds the status its transaction has read (`Known`: whether its Run *enters* a place at all depends
  on it) needs that a Run has one transaction at a time (`RunsAreAlone`), by its own lock or the row of its pull request.
- `RequestsGoOn == Spec => []SomebodyGoesOn` is the state formula behind `RequestsAreNotDeadlocked`: as long as a request has not ended,
  there is one that waits for no lock. Retries take their Run's lock first, then deciders take the capacity lock, then everybody who lets a Run enter
  a place its trigger's. Whoever holds a trigger's lock has nothing left to do but to commit (`HoldersGoOn`); if nobody
  does, the holder of the capacity lock can go on, and while that is free, nobody who waits for it waits for more.

`PublishersProofs`, for any rows, polls and bounds, with one status row per attempt (the unique key of `gitea_syncs`):

- `MarkedDelivered == Spec => []MarkedMeansDelivered`. A marked row says nothing of the past, so `DeliveryInv` follows
  the poll: a poll under whose lease a row is remembers what the row asks for
  (`PollsKnowTheirRows`: whoever changes the row takes the lease away), and a poll that holds its row and is about to
  mark it has delivered that (`MarkersHaveDelivered`). What Gitea and the queue were given is never taken back
  (`DeliveredStands`), except that arming a job again starts afresh and unmarks its row. That a row is marked only through
  the last step of a poll that holds it (`DoneStep`) gives the invariant. Type correctness
  itself is strengthened, by the place of a poll that fits the table its row is of (`PlacesFitRows`).
- `CommentsUnique == Spec => []CommentsAreUnique` is a counting argument (`CommentsCounted`). What can become a comment of a row is one, is
  being created by a poll, or is a request on its way; and as long as there is none, every poll that looks for one counts, too.
  Apart from the poll that leads, which holds the row under a live lease, each of these has cost an overlap. Five kinds of
  steps move a unit from one set to another (`CommentStep`); updates stay what they are because a poll, or a request, names a comment of
  its own row (`UpdatesFit`).
- `GiteaIsLatest == Spec => []GiteaShowsTheLatest`. Undisturbed, whoever works on a row leads (`HoldersLead`), so that nobody else changes
  its comment (`CommentsShown`). Statuses are in order (`StatusesInOrder`): at most one waits, as an attempt that is
  reported while an older one waits counts as overtaking, and nothing Gitea has been given is past what waits
  (`InTime`), so that each new status goes last in the order of attempts and versions. `RowsFollowWishes` ties rows to what handlers asked for.

`ReviewProofs`, for any Workers, calls, overlaps, heads, edits and answers:

- `PassedReviewsSound`: if `EvidenceIsSound(Edits[h])` for all heads `h`, then `Spec => []PassedReviewsAreSound`. `SoundInv` follows an answer back to its
  question: an entry of a Worker's map is a call that still waits, for the input whose hash is the key
  (`EntriesAreOpen`), a settled promise was settled with an output for the input it was made for (`PromisesMatch`), and what calls hold
  and queues carry is what the service made of that input (`AnswersAreServed`, `ResultsAreServed`), so that what passes has passed
  its checks (`PassesAreDue`). `HeadInv` adds that until somebody pushes every input is the Run's head. The hypothesis
  does not rule out any edit: it says what the reader of diffs finds of each, those that mislead it included, of which the property promises nothing.
  The reader's fold is beyond the prover, and the run `review` evaluates the hypothesis, for its own edits too.
- `WaitersServed == Spec => []WaitersAreServed`. `ServedInv` adds to `SoundInv`'s parts who is where: calls belong to the Worker they began in
  (`CallsAreInWorkers`), which without overlaps is the only one (`OneWorkerAtATime`), who asks is registered there under its input
  unless its own timer fired during the send (`AskersAreRegistered`, `NoneIsRejectedInItsSend`), a job carries an input
  that was asked for (`JobsMatch`), and what is asked for is a job, a result, or failed (`AskedMeansUnderWay`).

`AccessProofs`, for any browsers, users, callbacks and requests and any bounds:

- `OneSessionPerLogin == Spec => []LoginsMakeOneSession`. `LoginsInv`: of the callbacks of a login only one
  is past its consumption (`TakersAreAlone`), and until it inserts the session the login has none; a callback
  goes on only with the cookies of a login begun in its own browser, and jars hold only those.
- `ChangesDue == Spec => []ChangesAreDue`. A request sent after its session's end gets no further than
  authentication (`EndedGetNowhere`; an ended session never revives, `OverStays`), and once a retry
  is done, the attempt it saw is over for good (`RetriedAreOver`), so that no second one finds it.
- `RefusalsCaused == Spec => []RefusalsHaveACause`. `RefusalsInv` adds to `LoginsInv` why a callback that was left alone has its cookies:
  a browser in which one login was begun and from which no callback has come still has them
  (`JarsFresh`), so a callback that comes has them too (`CookiesFresh`; whoever is alone at the end was alone all along,
  `LeftAloneBefore`). A denial stays founded, as sessions end for good, belong to one user, and rights are only withdrawn.

`ClusterProofs`, for any executions, attempts, plans and bounds on the events:

- `DeletedStaysGone == Spec => []DeletedMeansGone` needs nothing of the environment: it holds also when Workers die,
  leases run out and calls fail. `Sound` says where an execution is in its plan (`ExecFits`), what the objects' labels and uids are
  (`ThingsFit`), and what the workflow has handed out (`WorkflowFits`: who holds a step is in this attempt, the step under way is the
  next of the plan, the cleanup is the last). `Known` adds that the uid an execution has seen is not
  newer than the object (`SeenKnown`), nor that of a row (`RowsKnown`): uids only grow, so what is gone under a uid stays gone.
- `TokensRevoked == Spec => []TokensAreRevoked`, by `TokensFit`: unless a call failed or a Worker died, a Secret
  that is there is in an execution's hand (`TokensHeld`), which needs that an execution which has ended has none
  left (`TokensReturned`).
- `TestsUseTheirSource`, `CleanupStaysFinal` and `ExecutionsStaySound`, for `[]TestsRunOnTheirSource`, `[]CleanupIsFinal` and
  `[]ExecutionsAreSound`. `Alone` is what these properties mean by *undisturbed*: who executes holds its step's lease, so
  that there is one such execution at most and its step is the next of the book (`WhoIsAlone`). From that, `Settled`
  says what each execution may rely on: before the cleanup the namespace stands with all that the attempt has put into it
  (`NsStands`), Jobs have their namespace (`JobsHaveSpace`), and once the fetch is done the workspace is filled with this attempt's
  source (`FetchFilled`, `FetchDone`). `Cleaned` adds that nobody creates anything any more once the cleanup has begun; `Earns`
  that what an execution has read off its Job is what such a Job did (`EndsAreKnown`, `ReportsAreEarned`, `ResultsAreEarned`), and that the
  Jobs run are counted by the one that is there, or was reported, and the late deaths (`HasRun`).
- Four lemmas carry all of this: `WhoMoves` (one execution at a time), `PutsOrSame` (only `Put` creates), `ObjectStep` and `BookStep`
  (what a step can do to an object, and to the book).

Only model-checked:

- all liveness, as the prover has no rules for fairness;
- `RequestsAreNotDeadlocked`, which speaks of ENABLED: that a request which waits for no lock has a step to take (`Proceeds`) is
  what TLC adds to `RequestsGoOn`;
- `Pipeline`'s own behaviours, with `NextPhaseIsLegal` in them: its run is complete, as its one constant, the results each step
  may have, is given the value that the executors have in the code, and nothing else is bounded. Of the Run, `PhasesAreOpen` says the same;
- what the fold of `DiffEvidence` computes: induction over data is out of the prover's reach, and `EvidenceIsSound` is
  evaluated over small edits.

## 5. What the runs found

- `lost_run` (code): a Worker that dies inside a step leaves a 20-minute lease. pg-boss
  delivers the job again at most once, and at once or after 15 minutes; the guard
  answers *busy*, the handler throws, and the job is out of retries. Nothing publishes
  the step again: the Run stays in its phase, and at work: every other Run is turned away from then on.
- `stuck_cancel` (code): `advanceCancellation` returns, and so completes its job, while any
  step is `RUNNING`, an orphan of a dead Worker included. Nobody takes the orphan over
  in a cancelled Run, and nobody sends another cleanup.
- `queue_rejects` (docs): Runs queue while nothing is at work; when the first of them has started, the start of the second is
  stored as `REJECTED_BY_CAPACITY` by the trigger (`0005_run_capacity_triggers.sql:56`). The transition table
  (`run-status.ts:51`) knows no such step, and `docs/architecture.md:40` lets three Runs queue and speaks of events, not of Runs that have
  queued, as rejected. The same becomes of a cancellation, although `docs/demo.md:45` promises CANCEL_REQUESTED and then
  CANCELLED.

Seen on the way, with no run of their own.

Workflow and Admission:

- Nobody is told that a Run was turned away. The handler that started it goes on with PLANNING in its memory, executes `detect`
  and sends the next job, whose transition throws at each delivery. A cancellation replies `CANCEL_REQUESTED`
  (`run.controller.ts:478`) and arms the cleanup, whose job throws as well, because it comes before `detect`. The status is
  terminal, cannot be retried, and `retention.ts:19` leaves it out of the sweep. If the Run was at a retry that had been confirmed
  despite a failed cleanup, its namespace stays (`RejectedRunsStop` says that this is the only case). And a retry's reply says `QUEUED` in so many
  words (`run.controller.ts:416`) whatever was stored; that it is true is `DecisionsStand`.
- An admission may take a lease that its holder has renewed between the admission's read and its write (`db-adapter.ts:378`, `395`):
  both then execute the step, and only the one admitted last can record it.
- The result of report and cleanup is recorded before `finalizeReport` and
  `finalizeCleanup` change the Run. A crash in between leaves the step terminal: the
  redelivered job goes on without the verdict, or ends without the confirmation.
- With two handlers, a step admitted between the check for running steps and the
  cleanup of `advanceCancellation` creates the namespace again after the Run is
  `CANCELLED`; hence the condition of `CleanedMeansGone` on cancellations. Likewise a
  confirmed retry, with a duplicate cleanup job and two handlers, may lose its namespace
  to the older attempt, which is the condition of `CleanupSparesNewerAttempts`.
- The report is saved by a statement of its own after the review's result: a crash in
  between loses it, and no later handler saves it.
- A cancelled Run whose cleanup failed stays `CANCEL_REQUESTED`; the sweep looks only at
  terminal Runs. `NoLostRun` accepts that state (`CleanupGivenUp`), as the cleanup's failure is shown; the Run stays at work in the
  eyes of the trigger, which turns all others away.
- The webhook compares with the literal 3, only the retry with `MAX_QUEUED_RUNS`.
- The queue's trigger has its own literal 3 and never comes to use it (`DecisionsStand`).

Publishers:

- A wish dropped while a publisher holds the row is lost unless a later one comes; `GiteaShowsTheLatest` speaks of
  rows whose wish was not dropped.
- If an attempt is reported while an older one's status is still pending, the older one may reach Gitea last.

Cluster:

- A fetch executed again after a death finds its predecessor's Secret, whose creation is answered with a
  conflict: the step ends `INCOMPLETE`.
- Quota, limits and volume carry the attempt in their labels, but not in their names. A retry after a cleanup that failed finds
  those of the older attempt and ends `INCOMPLETE` on an ownership conflict.
- A Job deleted under the eyes of an overlapping execution counts as a failure of the application (`JOB_DISAPPEARED`).
- An execution that outlived its lease may create the namespace again after the Run is `CLEANED`; retention
  collects only namespaces whose Run does not exist.
- An answer 400 while a cleanup waits for the namespace to go counts as passed (*deletion-pending*).
- The branches of deletion and revocation for a uid that differs are not reached within the bounds.

Review:

- In `request()`, a send that fails, or a timer that fires before the send answers, rejects a promise on which nobody waits
  yet: an unhandled rejection, which ends the process. Its handler also deletes the entry of the key, whoever's it is by then.
- A second Worker may use up all deliveries of a result that the first one waits for (ADR 0003 calls the
  queue's path process-local; production uses HTTP).
- The diff is asked for by the number of the pull request (`w/kubernetes/runtime.ts:389`) and may be a newer head's than the Run's, whereas
  `packages/agent/src/evidence.ts:4, 9, 42` want evidence of the report's current head SHA: after a push a review
  may pass on findings in lines that the Run's head does not change, and the report names that head.
- An added line that begins with `++ ` reads like the header of a file. The lines after it count for the file it names (`runtime.ts:188-206`), so that
  a finding in a line that nobody changed may pass, or for none.

Access:

- Cancel, unlike retry, does not compare the attempt it saw: it may cancel an attempt that began after its checks.
- The reply of a logout removes the cookie of a session begun meanwhile, and a callback that fails removes the cookies
  of a newer login in the same browser.

## 6. Not modelled, and the plan

Not modelled, with the reason per component in `PROJECT.json`: the contents of
messages, statuses, reports and Kubernetes manifests; sanitising and truncation of texts; the web console and the
infrastructure scripts (presentation and deployment); configuration parsing, except
the range of `MAX_QUEUED_RUNS`; credentials, TLS and paths of the Kubernetes client; the read-only
endpoints of the API, which keep no state; the webhook's signature, freshness and delivery-id checks, which end
before the runs table; deletion of expired rows and images, one statement each, and of namespaces whose
Run does not exist.

Left in the plan, in this order:

1. The webhook's freshness checks: a delayed delivery of an older head against the pull request's row.
2. Cluster's executions as the operations of `Workflow`'s handlers, in one composition. So far the two are tied by
   `StepsFollowThePlan`, which says of Workflow's handlers what `Cluster` takes for granted in `Begin` and `Skip`.

No module has a RECURSIVE operator, so that all of them can be proved about.
