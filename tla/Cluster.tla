------------------------------ MODULE Cluster ------------------------------
(***************************************************************************)
(* What the Worker makes of one Run in Kubernetes: KubernetesStepExecutor  *)
(* carries out the steps fetch, test, preview, health and cleanup on a     *)
(* namespace that all attempts of the Run share. (analyze and build are    *)
(* carried out like test; the other steps touch no cluster.)               *)
(*                                                                         *)
(* An execution is one call of execute. It reconciles the objects it       *)
(* needs one after the other, waits for its Job, records what it did in    *)
(* k8s_resources and takes the Job and the source token away again. Each   *)
(* call of the Kubernetes API and each database statement is an action:    *)
(* another execution, the cluster's own controllers, or a death of the     *)
(* Worker may come between any two. Executions of one step overlap when    *)
(* one outlives its lease.                                                 *)
(*                                                                         *)
(* The objects of the workspace (ResourceQuota, LimitRange and the volume) *)
(* are one object here, and so are those of a preview (Deployment, Service *)
(* and Ingress): each group is reconciled, labelled and deleted alike.     *)
(***************************************************************************)
EXTENDS StepPlan

CONSTANTS
    Executions,    \* calls of execute under way at once
    NoExecution,   \* nobody executes the step
    MaxAttempt,    \* attempts of the Run, so MaxAttempt - 1 retries
    StepsOf,       \* the steps of each attempt that are looked at
    Bounds,        \* how often each event of Events may happen
    MaxFaults      \* how many of them together; a lost lease comes alone

\* What TLC bounds: calls of Kubernetes or of the database that fail, deaths of
\* the Worker, and leases that run out under a live execution.
Events == {"failure", "crash", "overlap"}

ASSUME ClusterAssumption ==
    /\ NoExecution \notin Executions
    /\ MaxAttempt \in Nat \ {0}
    /\ Bounds \in [Events -> Nat] /\ MaxFaults \in Nat

Attempts == 1..MaxAttempt
ClusterSteps == {"fetch", "test", "preview", "health", "cleanup"}

ASSUME StepsOfAssumption == StepsOf \in [Attempts -> SUBSET ClusterSteps]
JobSteps == {"fetch", "test"}

VARIABLES
    attempt,   \* runs.current_attempt
    book,      \* run_steps: the records of the current attempt
    owner,     \* run_steps: the executions whose leases hold its steps
    things,    \* the objects of the cluster
    listed,    \* k8s_resources: the rows that can be marked DELETED
    exec,      \* the local state of every execution
    jobsRun,   \* history: Jobs created for each step of the attempt
    outcomes,  \* history: how Jobs of each step have ended
    lateDeaths,\* history: executions of the step that died with their Job deleted
    bound      \* what is left of Bounds

workflow == <<attempt, book, owner>>
history == <<jobsRun, outcomes, lateDeaths>>
vars == <<workflow, things, listed, exec, history, bound>>

-----------------------------------------------------------------------------
\* Names of objects. Those of Jobs, previews and source tokens hold the attempt;
\* the namespace and the workspace have one name for all attempts.
Namespace == [kind |-> "Namespace", attempt |-> 0, step |-> "cleanup"]
Workspace == [kind |-> "Workspace", attempt |-> 0, step |-> "none"]
Secret(a) == [kind |-> "Secret", attempt |-> a, step |-> "fetch"]
Job(a, s) == [kind |-> "Job", attempt |-> a, step |-> s]
Preview(a) == [kind |-> "Preview", attempt |-> a, step |-> "preview"]

Names == {Namespace, Workspace} \union {Secret(a) : a \in Attempts}
         \union {Job(a, s) : a \in Attempts, s \in JobSteps}
         \union {Preview(a) : a \in Attempts}

\* An object of a name: its state, its uid (the number of its creation) and the
\* attempt in its labels, which for the namespace only remembers who created it.
ThingStates ==
    {"absent", "there", "terminating", "filled", "running", "succeeded", "failed", "available"}
Thing == [state : ThingStates, uid : Nat, of : 0..MaxAttempt]
NoThing == [state |-> "absent", uid |-> 0, of |-> 0]

Exists(n) == things[n].state # "absent"

InitialState(n) == IF n.kind = "Job" THEN "running" ELSE "there"

\* Rows of k8s_resources: an attempt has one for the namespace, too.
Row(n, a) == [n EXCEPT !.attempt = a]
RowKeys == {Row(n, a) : n \in {m \in Names : m.kind = "Namespace"}, a \in Attempts}
           \union {n \in Names : n.kind \in {"Secret", "Job"}}
RowState == [uid : Nat, deleted : BOOLEAN]

-----------------------------------------------------------------------------
Places == {"idle", "get", "put", "note", "wait", "collect", "find", "delete", "unlist",
           "revoke", "watch", "nsGet", "nsDelete", "nsWait", "nsMark", "return"}

ExecState ==
    [at : Places, attempt : Attempts, step : ClusterSteps,
     todo : Seq(Names),         \* objects still to be reconciled
     seen : Nat,                \* the uid read last, 0 for none
     token : Nat,               \* the uid of the source token it created, 0 for none
     gone : BOOLEAN,            \* history: it deleted its Job
     result : StepResults]      \* what it is going to report

Idle == [at |-> "idle", attempt |-> 1, step |-> "fetch", todo |-> <<>>,
         seen |-> 0, token |-> 0, gone |-> FALSE, result |-> Passed]

At(e, place) == exec[e].at = place
IsCurrent(e) == exec[e].attempt = attempt
Step(e) == exec[e].step
MyJob(e) == Job(exec[e].attempt, exec[e].step)
Goto(e, place) == exec' = [exec EXCEPT ![e].at = place]

Spent(event) == Bounds[event] - bound[event]

Spend(event) ==
    /\ bound[event] > 0
    /\ Spent("failure") + Spent("crash") + MaxFaults * Spent("overlap") < MaxFaults
    /\ event = "overlap" => Spent("failure") + Spent("crash") = 0
    /\ bound' = [bound EXCEPT ![event] = @ - 1]

\* What each step reconciles, in this order: ensureBaseResources comes first.
Base == <<Namespace, Workspace>>
JobPlan(a, s) == Base \o (IF s = "fetch" THEN <<Secret(a)>> ELSE <<>>) \o <<Job(a, s)>>
PreviewPlan(a) == Append(Base, Preview(a))

Plan(a, s) ==
    CASE s \in JobSteps  -> JobPlan(a, s)
      [] s = "preview"   -> PreviewPlan(a)
      [] OTHER           -> <<>>

Opening(s) == CASE s = "health" -> "watch" [] s = "cleanup" -> "nsGet" [] OTHER -> "get"

Init ==
    /\ attempt = 1
    /\ book = [s \in ClusterSteps |-> Absent]
    /\ owner = [s \in ClusterSteps |-> NoExecution]
    /\ things = [n \in Names |-> NoThing]
    /\ listed = [k \in RowKeys |-> [uid |-> 0, deleted |-> FALSE]]
    /\ exec = [e \in Executions |-> Idle]
    /\ jobsRun = [s \in ClusterSteps |-> 0]
    /\ outcomes = [s \in ClusterSteps |-> {}]
    /\ lateDeaths = [s \in ClusterSteps |-> 0]
    /\ bound = Bounds

-----------------------------------------------------------------------------
\* The workflow around the executions, in short: the next step of the plan is
\* skipped, or executed by whoever gets its lease. Steps without a part in the
\* cluster count as passed. That handlers do start and skip steps only as the plan says
\* of the records at that moment is what Workflow shows (StepsFollowThePlan).
Records == [s \in Steps |-> IF s \in StepsOf[attempt] THEN book[s] ELSE Passed]
NextStep == NextStepAction(Records)

Running == [status |-> "RUNNING", kind |-> "none"]

\* Executions are calls and have no identity: any that is idle will do.
Begin ==
    LET s == NextStep.step
        e == CHOOSE f \in Executions : At(f, "idle")
    IN
    /\ \E f \in Executions : At(f, "idle")
    /\ NextStep.action = "run"
    /\ owner[s] = NoExecution
    /\ book' = [book EXCEPT ![s] = Running]
    /\ owner' = [owner EXCEPT ![s] = e]
    /\ exec' = [exec EXCEPT ![e] = [Idle EXCEPT !.at = Opening(s), !.attempt = attempt,
                                                !.step = s, !.todo = Plan(attempt, s)]]
    /\ UNCHANGED <<attempt, things, listed, history, bound>>

Skip ==
    /\ NextStep.action = "skip"
    /\ book' = [book EXCEPT ![NextStep.step] = Skipped]
    /\ UNCHANGED <<attempt, owner, things, listed, exec, history, bound>>

\* POST /runs/:id/retry, possible when the cleanup is confirmed, by the Worker or
\* by the user. The rows of the older attempt are settled for good: what becomes
\* of them is left out from here on, and so is what was counted of its Jobs.
Verdict == DeriveFinalRunStatus([Records EXCEPT !["cleanup"] = Absent])
CleanupStatus ==
    CASE book["cleanup"] = Passed     -> "CLEANED"
      [] book["cleanup"] = Incomplete -> "FAILED"
      [] OTHER                       -> "PENDING"

Retry ==
    /\ attempt < MaxAttempt
    /\ \A s \in StepsOf[attempt] : book[s].status \in TerminalStepStatuses
    /\ \E confirmed \in BOOLEAN : CanRetry(Verdict, CleanupStatus, confirmed)
    /\ attempt' = attempt + 1
    /\ book' = [s \in ClusterSteps |-> Absent]
    /\ jobsRun' = [s \in ClusterSteps |-> 0]
    /\ outcomes' = [s \in ClusterSteps |-> {}]
    /\ lateDeaths' = [s \in ClusterSteps |-> 0]
    /\ UNCHANGED <<owner, things, listed, exec, bound>>

-----------------------------------------------------------------------------
\* Has the execution come to its Job, with a token in hand?
InTry(e) ==
    /\ exec[e].token # 0
    /\ exec[e].todo = <<>> \/ Head(exec[e].todo).kind = "Job"

\* Variant: what the step had to report by then is kept.
ThrowKeepingResult(e) ==
    exec' = [exec EXCEPT ![e].at = IF InTry(e) THEN "revoke" ELSE "return",
                         ![e].todo = <<>>, ![e].seen = 0]

\* An exception ends an execution INCOMPLETE; one thrown while the Job is being
\* worked on passes through the finally block that revokes the source token.
Throw(e) ==
    exec' = [exec EXCEPT ![e].at = IF InTry(e) THEN "revoke" ELSE "return",
                         ![e].todo = <<>>, ![e].seen = 0,
                         ![e].result = Incomplete]

\* reconcileResource first looks for the object and refuses one of another
\* attempt; the namespace's labels name no attempt. Jobs and volumes that are there
\* are adopted, other objects updated.
Adopted(n) == n.kind \in {"Job", "Workspace"}

Foreign(e, n) == Exists(n) /\ n.kind # "Namespace" /\ things[n].of # exec[e].attempt

\* Variants: the labels are not compared; a Job that is there is created anew.
GetUnlabelled(e) ==
    LET n == Head(exec[e].todo) IN
    /\ At(e, "get")
    /\ exec' = [exec EXCEPT ![e].at = IF Exists(n) /\ Adopted(n) THEN "note" ELSE "put",
                            ![e].seen = IF Exists(n) THEN things[n].uid ELSE 0]
    /\ UNCHANGED <<workflow, things, listed, history, bound>>

GetReplacing(e) ==
    LET n == Head(exec[e].todo)
        kept == Exists(n) /\ n.kind # "Job"
    IN  /\ At(e, "get")
        /\ things' = [things EXCEPT ![n].state = IF n.kind = "Job" THEN "absent" ELSE @]
        /\ exec' = [exec EXCEPT ![e].at = IF kept /\ Adopted(n) THEN "note" ELSE "put",
                                ![e].seen = IF kept THEN things[n].uid ELSE 0]
        /\ UNCHANGED <<workflow, listed, history, bound>>

Get(e) ==
    LET n == Head(exec[e].todo) IN
    /\ At(e, "get")
    /\ IF Foreign(e, n)
       THEN Throw(e)
       ELSE exec' = [exec EXCEPT
                       ![e].at = IF Exists(n) /\ Adopted(n) THEN "note" ELSE "put",
                       ![e].seen = IF Exists(n) THEN things[n].uid ELSE 0]
    /\ UNCHANGED <<workflow, things, listed, history, bound>>

\* The API server creates no object twice, none in a namespace that is missing or
\* terminating, and updates only the object that was read.
MayPut(e, n) ==
    IF exec[e].seen = 0
    THEN ~Exists(n) /\ (n = Namespace \/ things[Namespace].state = "there")
    ELSE Exists(n) /\ things[n].uid = exec[e].seen

Created(e, n) == [state |-> InitialState(n), uid |-> things[n].uid + 1, of |-> exec[e].attempt]

PutThing(e, n) ==
    IF exec[e].seen = 0
    THEN /\ things' = [things EXCEPT ![n] = Created(e, n)]
         /\ jobsRun' = IF n.kind = "Job" /\ IsCurrent(e)
                       THEN [jobsRun EXCEPT ![n.step] = @ + 1] ELSE jobsRun
    ELSE UNCHANGED <<things, jobsRun>>

Put(e) ==
    LET n == Head(exec[e].todo)
        uid == IF exec[e].seen = 0 THEN things[n].uid + 1 ELSE exec[e].seen
    IN  /\ At(e, "put")
        /\ \/ /\ MayPut(e, n)
              /\ PutThing(e, n)
              /\ exec' = [exec EXCEPT ![e].at = "note", ![e].seen = uid,
                                      ![e].token = IF n.kind = "Secret" THEN uid ELSE @]
           \/ ~MayPut(e, n) /\ Throw(e) /\ UNCHANGED <<things, jobsRun>>
        /\ UNCHANGED <<workflow, listed, outcomes, lateDeaths, bound>>

\* recordResource, then on to the next object. The source token is created
\* without being looked for: the Worker may not read Secrets.
Upsert(key, uid) ==
    listed' = IF key \in RowKeys
              THEN [listed EXCEPT ![key] = [uid |-> uid, deleted |-> FALSE]]
              ELSE listed

AfterNote(e, rest) ==
    CASE rest # <<>> /\ Head(rest).kind = "Secret" -> "put"
      [] rest # <<>> /\ Head(rest).kind # "Secret" -> "get"
      [] exec[e].step \in JobSteps /\ rest = <<>>  -> "wait"
      [] OTHER                                     -> "return"

Note(e) ==
    LET n == Head(exec[e].todo)
        rest == Tail(exec[e].todo)
    IN  /\ At(e, "note")
        /\ Upsert(Row(n, exec[e].attempt), exec[e].seen)
        /\ exec' = [exec EXCEPT ![e].at = AfterNote(e, rest), ![e].todo = rest,
                                ![e].seen = IF rest = <<>> THEN @ ELSE 0]
        /\ UNCHANGED <<workflow, things, history, bound>>

-----------------------------------------------------------------------------
\* Variant: a Job that is no longer there has succeeded.
WaitForgiving(e) ==
    LET state == things[MyJob(e)].state IN
    /\ At(e, "wait")
    /\ \E result \in CASE state = "failed"  -> {AppFailure}
                       [] state = "running" -> {Incomplete}
                       [] OTHER             -> {Passed} :
         exec' = [exec EXCEPT ![e].at = "collect", ![e].result = result]
    /\ UNCHANGED <<workflow, things, listed, history, bound>>

\* waitForJob polls by name: whatever Job has it.
Wait(e) ==
    LET state == things[MyJob(e)].state IN
    /\ At(e, "wait")
    /\ \E result \in CASE state = "succeeded" -> {Passed}
                       [] state = "running"   -> {Incomplete}
                       [] OTHER               -> {AppFailure} :
         exec' = [exec EXCEPT ![e].at = "collect", ![e].result = result]
    /\ UNCHANGED <<workflow, things, listed, history, bound>>

\* The phase is recorded, the logs are read, and saveStepLog refuses the log of an
\* older attempt.
LogIsSaved(e) == IsCurrent(e)

Collect(e) ==
    /\ At(e, "collect")
    /\ Upsert(MyJob(e), exec[e].seen)
    /\ IF LogIsSaved(e) THEN Goto(e, "find") ELSE Throw(e)
    /\ UNCHANGED <<workflow, things, history, bound>>

\* Variant: the token is forgotten.
AfterJobForgetful(e) == "return"

AfterJob(e) == IF exec[e].token # 0 THEN "revoke" ELSE "return"

\* deleteOwnedResource: look again, delete what was seen, mark its row.
Find(e) ==
    /\ At(e, "find")
    /\ exec' = [exec EXCEPT ![e].at = IF Exists(MyJob(e)) THEN "delete" ELSE AfterJob(e),
                            ![e].seen = things[MyJob(e)].uid]
    /\ UNCHANGED <<workflow, things, listed, history, bound>>

Delete(e) ==
    LET n == MyJob(e) IN
    /\ At(e, "delete")
    /\ IF Exists(n) /\ things[n].uid # exec[e].seen
       THEN Throw(e) /\ UNCHANGED things
       ELSE /\ things' = [things EXCEPT ![n].state = "absent"]
            /\ exec' = [exec EXCEPT ![e].at = "unlist", ![e].gone = TRUE]
    /\ UNCHANGED <<workflow, listed, history, bound>>

\* Variant: the row of the name is marked, whatever uid it has by now.
MarkDeletedByName(key, uid) == listed' = [listed EXCEPT ![key].deleted = TRUE]

MarkDeleted(key, uid) ==
    listed' = IF listed[key].uid = uid THEN [listed EXCEPT ![key].deleted = TRUE] ELSE listed

Unlist(e) ==
    /\ At(e, "unlist")
    /\ MarkDeleted(MyJob(e), exec[e].seen)
    /\ Goto(e, AfterJob(e))
    /\ UNCHANGED <<workflow, things, history, bound>>

\* The finally block: the token it created is deleted, or somebody else's is left.
Revoke(e) ==
    LET n == Secret(exec[e].attempt) IN
    /\ At(e, "revoke")
    /\ IF Exists(n) /\ things[n].uid # exec[e].token
       THEN UNCHANGED <<things, listed>>
       ELSE /\ things' = [things EXCEPT ![n].state = "absent"]
            /\ MarkDeleted(n, exec[e].token)
    /\ Goto(e, "return")
    /\ UNCHANGED <<workflow, history, bound>>

\* waitForPreview: the Deployment is missing, late or broken, or it is available
\* and the health check answers, refuses or does not come through.
Watch(e) ==
    LET state == things[Preview(exec[e].attempt)].state IN
    /\ At(e, "watch")
    /\ \E result \in IF state = "available" THEN {Passed, AppFailure, Incomplete}
                     ELSE {Incomplete} :
         exec' = [exec EXCEPT ![e].at = "return", ![e].result = result]
    /\ UNCHANGED <<workflow, things, listed, history, bound>>

-----------------------------------------------------------------------------
\* Variant: the namespace is waited for, but nobody deletes it.
NsGetOnly(e) ==
    /\ At(e, "nsGet")
    /\ exec' = [exec EXCEPT ![e].at = IF Exists(Namespace) THEN "nsWait" ELSE "return",
                            ![e].seen = things[Namespace].uid,
                            ![e].result = Passed]
    /\ UNCHANGED <<workflow, things, listed, history, bound>>

\* cleanup: look for the namespace, delete the one seen unless that is under way,
\* wait until there is none of the name, and record it.
NsGet(e) ==
    /\ At(e, "nsGet")
    /\ exec' = [exec EXCEPT ![e].at = CASE things[Namespace].state = "absent" -> "return"
                                        [] things[Namespace].state = "there"  -> "nsDelete"
                                        [] OTHER                              -> "nsWait",
                            ![e].seen = things[Namespace].uid,
                            ![e].result = Passed]
    /\ UNCHANGED <<workflow, things, listed, history, bound>>

NsDelete(e) ==
    LET ns == things[Namespace] IN
    /\ At(e, "nsDelete")
    /\ \/ /\ ns.state = "absent" \/ ns.uid = exec[e].seen
          /\ things' = [things EXCEPT ![Namespace].state =
                          IF @ = "absent" THEN @ ELSE "terminating"]
          /\ Goto(e, "nsWait")
       \/ ns.state # "absent" /\ ns.uid # exec[e].seen /\ Throw(e) /\ UNCHANGED things
    /\ UNCHANGED <<workflow, listed, history, bound>>

NsWait(e) ==
    /\ At(e, "nsWait")
    /\ IF Exists(Namespace)
       THEN exec' = [exec EXCEPT ![e].at = "return", ![e].result = Incomplete]
       ELSE Goto(e, "nsMark")
    /\ UNCHANGED <<workflow, things, listed, history, bound>>

\* A status 400 while waiting is taken for a deletion that is under way.
NsPending(e) ==
    /\ At(e, "nsWait")
    /\ Spend("failure")
    /\ Goto(e, "return")
    /\ UNCHANGED <<workflow, things, listed, history>>

NsMark(e) ==
    /\ At(e, "nsMark")
    /\ MarkDeleted(Row(Namespace, exec[e].attempt), exec[e].seen)
    /\ Goto(e, "return")
    /\ UNCHANGED <<workflow, things, history, bound>>

Holds(e) == IsCurrent(e) /\ owner[Step(e)] = e

\* Variant: the lease of a step that did not pass is kept.
ReturnKeepingLease(e) ==
    /\ At(e, "return")
    /\ IF Holds(e)
       THEN /\ book' = [book EXCEPT ![Step(e)] = exec[e].result]
            /\ owner' = IF exec[e].result = Passed
                        THEN [owner EXCEPT ![Step(e)] = NoExecution] ELSE owner
       ELSE UNCHANGED <<book, owner>>
    /\ exec' = [exec EXCEPT ![e] = Idle]
    /\ UNCHANGED <<attempt, things, listed, history, bound>>

\* The step guard records the result, unless the lease was lost.
Return(e) ==
    /\ At(e, "return")
    /\ IF Holds(e)
       THEN /\ book' = [book EXCEPT ![Step(e)] = exec[e].result]
            /\ owner' = [owner EXCEPT ![Step(e)] = NoExecution]
       ELSE UNCHANGED <<book, owner>>
    /\ exec' = [exec EXCEPT ![e] = Idle]
    /\ UNCHANGED <<attempt, things, listed, history, bound>>

-----------------------------------------------------------------------------
\* A call fails. One that was to create an object or to delete the namespace may have
\* been carried out all the same; the failure to revoke a token is swallowed.
CallFails(e) ==
    LET n == Head(exec[e].todo) IN
    /\ ~At(e, "idle") /\ ~At(e, "return")
    /\ Spend("failure")
    /\ IF At(e, "revoke") THEN Goto(e, "return") ELSE Throw(e)
    /\ \/ UNCHANGED <<things, jobsRun>>
       \/ At(e, "put") /\ MayPut(e, n) /\ exec[e].seen = 0 /\ PutThing(e, n)
       \/ /\ At(e, "nsDelete") /\ things[Namespace].uid = exec[e].seen /\ Exists(Namespace)
          /\ things' = [things EXCEPT ![Namespace].state = "terminating"]
          /\ UNCHANGED jobsRun
    /\ UNCHANGED <<workflow, listed, outcomes, lateDeaths>>

\* So may the deletion of a Job or of a source token, whose row is then not marked.
DeleteUnanswered(e) ==
    /\ Spend("failure")
    /\ \/ /\ At(e, "delete")
          /\ Exists(MyJob(e)) /\ things[MyJob(e)].uid = exec[e].seen
          /\ things' = [things EXCEPT ![MyJob(e)].state = "absent"]
          /\ exec' = [exec EXCEPT ![e].at = AfterJob(e), ![e].seen = 0, ![e].gone = TRUE,
                                  ![e].result = Incomplete]
       \/ LET n == Secret(exec[e].attempt) IN
          /\ At(e, "revoke")
          /\ Exists(n) /\ things[n].uid = exec[e].token
          /\ things' = [things EXCEPT ![n].state = "absent"]
          /\ Goto(e, "return")
    /\ UNCHANGED <<workflow, listed, history>>

\* The Worker dies: the lease of the step runs out.
Crash(e) ==
    /\ ~At(e, "idle")
    /\ Spend("crash")
    /\ exec' = [exec EXCEPT ![e] = Idle]
    /\ owner' = IF Holds(e) THEN [owner EXCEPT ![Step(e)] = NoExecution] ELSE owner
    /\ lateDeaths' = IF exec[e].gone /\ IsCurrent(e)
                     THEN [lateDeaths EXCEPT ![Step(e)] = @ + 1] ELSE lateDeaths
    /\ UNCHANGED <<attempt, book, things, listed, jobsRun, outcomes>>

\* An execution outlives its lease.
LeaseLost(e) ==
    /\ ~At(e, "idle")
    /\ Holds(e)
    /\ Spend("overlap")
    /\ owner' = [owner EXCEPT ![Step(e)] = NoExecution]
    /\ UNCHANGED <<attempt, book, things, listed, exec, history>>

-----------------------------------------------------------------------------
\* The cluster's own controllers: Jobs end, a fetch that succeeds fills the
\* workspace, previews become available, and a terminating namespace goes with
\* all that is in it.
JobEnds(n) ==
    /\ things[n].state = "running"
    /\ \E state \in {"succeeded", "failed"} :
         /\ things' = [things EXCEPT
                      ![n].state = state,
                      ![Workspace].state = IF n.step = "fetch" /\ state = "succeeded"
                                           THEN "filled" ELSE @]
         /\ outcomes' = IF n.attempt = attempt
                        THEN [outcomes EXCEPT ![n.step] = @ \union {state}] ELSE outcomes
    /\ UNCHANGED <<workflow, listed, exec, jobsRun, lateDeaths, bound>>

PreviewStarts(n) ==
    /\ n.kind = "Preview" /\ things[n].state = "there"
    /\ things' = [things EXCEPT ![n].state = "available"]
    /\ UNCHANGED <<workflow, listed, exec, history, bound>>

NamespaceGoes ==
    /\ things[Namespace].state = "terminating"
    /\ things' = [n \in Names |-> [things[n] EXCEPT !.state = "absent"]]
    /\ UNCHANGED <<workflow, listed, exec, history, bound>>

-----------------------------------------------------------------------------
Works(e) ==
    \/ Get(e) \/ Put(e) \/ Note(e) \/ Wait(e) \/ Collect(e) \/ Find(e) \/ Delete(e)
    \/ Unlist(e) \/ Revoke(e) \/ Watch(e)
    \/ NsGet(e) \/ NsDelete(e) \/ NsWait(e) \/ NsMark(e) \/ Return(e)

Next ==
    \/ \E e \in Executions :
         \/ Works(e) \/ NsPending(e) \/ CallFails(e) \/ DeleteUnanswered(e)
         \/ Crash(e) \/ LeaseLost(e)
    \/ Begin \/ Skip \/ Retry
    \/ \E n \in Names : JobEnds(n) \/ PreviewStarts(n)
    \/ NamespaceGoes

Spec == Init /\ [][Next]_vars

Undisturbed == Spent("overlap") = 0
NobodyDied == Spent("crash") = 0

\* While nobody has died or lost a lease, the execution under way goes on and the
\* workflow hands out the next step; the cluster deletes what it is told to delete.
Advance == Begin \/ Skip \/ \E e \in Executions : Works(e)

Fairness ==
    /\ WF_vars(Undisturbed /\ NobodyDied /\ Advance)
    /\ WF_vars(NamespaceGoes)

FairSpec == Spec /\ Fairness

-----------------------------------------------------------------------------
TypeOK ==
    /\ attempt \in Attempts
    /\ book \in [ClusterSteps -> Record]
    /\ owner \in [ClusterSteps -> Executions \union {NoExecution}]
    /\ things \in [Names -> Thing]
    /\ listed \in [RowKeys -> RowState]
    /\ exec \in [Executions -> ExecState]
    /\ jobsRun \in [ClusterSteps -> Nat] /\ lateDeaths \in [ClusterSteps -> Nat]
    /\ outcomes \in [ClusterSteps -> SUBSET {"succeeded", "failed"}]
    /\ bound \in [Events -> Nat]
    /\ \A s \in ClusterSteps : owner[s] # NoExecution => ~At(owner[s], "idle") /\ Step(owner[s]) = s

\* What a step reports of its Job is what a Job of that very step and attempt did,
\* also when it was adopted from a dead predecessor. Only an overlapping execution
\* that deletes the Job under another's eyes makes it report a failure of the code
\* under test (JOB_DISAPPEARED) that never happened.
ResultsAreEarned ==
    \A s \in JobSteps :
        /\ book[s] = Passed => "succeeded" \in outcomes[s]
        /\ book[s] = AppFailure /\ Undisturbed => "failed" \in outcomes[s]

\* A dead execution's Job is adopted: the code under test runs once more only when
\* the Worker died after it had deleted the Job and before its result was recorded.
JobsRunOnce ==
    Undisturbed => \A s \in JobSteps : jobsRun[s] <= 1 + lateDeaths[s]

\* A Job is neither taken for another nor run in vain.
ExecutionsAreSound == ResultsAreEarned /\ JobsRunOnce

\* The code under test runs where its own attempt's fetch has put it: retries, also
\* after a cleanup that failed, and executions that died never hand a workspace on
\* or lose it in between. (It takes a cleanup that outlived its lease to do that.)
TestsRunOnTheirSource ==
    /\ things[Job(attempt, "test")].state = "running"
    /\ book["fetch"] = Passed
    /\ Undisturbed
    => things[Workspace].state = "filled" /\ things[Workspace].of = attempt

\* The source token does not stay behind: an execution that is alive will revoke it,
\* unless a Worker died or a call failed.
TokensAreRevoked ==
    \A a \in Attempts :
        Exists(Secret(a)) =>
            \/ Spent("failure") + Spent("crash") > 0
            \/ \E e \in Executions :
                  exec[e].attempt = a /\ exec[e].token = things[Secret(a)].uid

\* A row that says DELETED names a uid that is gone for good, whoever created the
\* object anew or recorded it meanwhile.
DeletedMeansGone ==
    \A n \in Names : \A key \in RowKeys :
        /\ key.kind = n.kind /\ n.attempt \in {0, key.attempt} /\ key.step = n.step
        /\ listed[key].deleted /\ listed[key].uid = things[n].uid
        => ~Exists(n)

\* A cleanup that passed leaves nothing of the Run that is not being deleted, and
\* nobody who is still going to create something, until the Run is retried.
CleanedMeansGone ==
    book["cleanup"] = Passed /\ Undisturbed =>
        things[Namespace].state \in {"absent", "terminating"}

\* What is recorded as gone is gone, object by object and as a whole.
CleanupIsFinal == DeletedMeansGone /\ CleanedMeansGone

\* While Workers live and keep their leases, the namespace goes in the end, whatever
\* steps and calls failed.
NamespaceIsRemoved ==
    Exists(Namespace) ~> (~Exists(Namespace) \/ ~Undisturbed \/ ~NobodyDied)
=============================================================================
