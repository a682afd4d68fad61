--------------------------- MODULE ClusterProofs ---------------------------
(***************************************************************************)
(* Theorems about the Worker in the cluster, for all executions, attempts, *)
(* plans and bounds.                                                       *)
(***************************************************************************)
EXTENDS Cluster, StepPlanProofs

-----------------------------------------------------------------------------
\* Names: which there are, and when two are the same.
LEMMA NamesOf ==
    /\ Namespace \in Names /\ Workspace \in Names
    /\ \A a \in Attempts : Secret(a) \in Names /\ Preview(a) \in Names
    /\ \A a \in Attempts : \A s \in JobSteps : Job(a, s) \in Names
    /\ \A n \in Names :
          \/ n = Namespace \/ n = Workspace
          \/ \E a \in Attempts : n = Secret(a) \/ n = Preview(a)
          \/ \E a \in Attempts : \E s \in JobSteps : n = Job(a, s)
  BY DEF Names

LEMMA KindsOf ==
    /\ Namespace.kind = "Namespace" /\ Namespace.attempt = 0 /\ Namespace.step = "cleanup"
    /\ Workspace.kind = "Workspace" /\ Workspace.attempt = 0 /\ Workspace.step = "none"
    /\ \A a : Secret(a).kind = "Secret" /\ Secret(a).attempt = a /\ Secret(a).step = "fetch"
    /\ \A a : Preview(a).kind = "Preview" /\ Preview(a).attempt = a /\ Preview(a).step = "preview"
    /\ \A a, s : Job(a, s).kind = "Job" /\ Job(a, s).attempt = a /\ Job(a, s).step = s
  BY DEF Namespace, Workspace, Secret, Preview, Job

LEMMA NamesByKind ==
    ASSUME NEW n \in Names
    PROVE  /\ n.kind \in {"Namespace", "Workspace", "Secret", "Job", "Preview"}
           /\ n.kind = "Namespace" <=> n = Namespace
           /\ n.kind = "Workspace" <=> n = Workspace
           /\ n.kind = "Secret" => n.attempt \in Attempts /\ n = Secret(n.attempt)
           /\ n.kind = "Preview" => n.attempt \in Attempts /\ n = Preview(n.attempt)
           /\ n.kind = "Job" => /\ n.attempt \in Attempts /\ n.step \in JobSteps
                                /\ n = Job(n.attempt, n.step)
  BY NamesOf, KindsOf

-----------------------------------------------------------------------------
\* What is left of a plan: the object that has left - 1 others after it.
Object(a, s, left) ==
    CASE left = 1                              -> IF s = "preview" THEN Preview(a) ELSE Job(a, s)
      [] s = "fetch" /\ left = 2               -> Secret(a)
      [] left = (IF s = "fetch" THEN 3 ELSE 2) -> Workspace
      [] OTHER                                 -> Namespace

TodoFits(x) ==
    /\ Len(x.todo) <= (IF x.step = "fetch" THEN 4 ELSE 3)
    /\ \A i \in 1..Len(x.todo) : x.todo[i] = Object(x.attempt, x.step, Len(x.todo) + 1 - i)

LEMMA SeqTail ==
    ASSUME NEW S, NEW q \in Seq(S), q # <<>>
    PROVE  /\ Len(q) \in Nat \ {0} /\ Head(q) = q[1] /\ Head(q) \in S
           /\ Tail(q) \in Seq(S) /\ Len(Tail(q)) = Len(q) - 1
           /\ Tail(q) = <<>> <=> Len(q) = 1
           /\ \A i \in 1..(Len(q) - 1) : Tail(q)[i] = q[i + 1]
<1>. DEFINE r == Tail(q)
<1>1. r \in Seq(S) /\ Len(r) = Len(q) - 1 /\ Len(q) \in Nat \ {0}
  OBVIOUS
<1>2. \A i \in 1..(Len(q) - 1) : r[i] = q[i + 1]
  OBVIOUS
<1>3. Head(q) = q[1] /\ Head(q) \in S
  OBVIOUS
<1>4. r = <<>> <=> Len(q) = 1
  <2>. HIDE DEF r
  <2>1. r = <<>> <=> Len(r) = 0
    BY <1>1
  <2>. QED
    BY <1>1, <2>1
<1>. QED
  BY <1>1, <1>2, <1>3, <1>4

LEMMA PlanSeqs ==
    ASSUME NEW a \in Attempts
    PROVE  /\ \A s \in JobSteps : JobPlan(a, s) \in Seq(Names)
           /\ PreviewPlan(a) \in Seq(Names)
           /\ LET q == JobPlan(a, "fetch")
              IN  /\ Len(q) = 4 /\ q[1] = Namespace /\ q[2] = Workspace /\ q[3] = Secret(a)
                  /\ q[4] = Job(a, "fetch")
           /\ LET q == JobPlan(a, "test")
              IN  /\ Len(q) = 3 /\ q[1] = Namespace /\ q[2] = Workspace /\ q[3] = Job(a, "test")
           /\ LET q == PreviewPlan(a)
              IN  /\ Len(q) = 3 /\ q[1] = Namespace /\ q[2] = Workspace /\ q[3] = Preview(a)
<1>1. /\ Base \in Seq(Names) /\ <<Secret(a)>> \in Seq(Names)
      /\ \A s \in JobSteps : <<Job(a, s)>> \in Seq(Names)
  BY NamesOf DEF Base
<1>2. PreviewPlan(a) \in Seq(Names)
  BY <1>1, NamesOf DEF PreviewPlan
<1>3. ASSUME NEW s \in JobSteps PROVE JobPlan(a, s) \in Seq(Names)
  <2>1. (IF s = "fetch" THEN <<Secret(a)>> ELSE <<>>) \in Seq(Names)
    BY <1>1
  <2>2. Base \o (IF s = "fetch" THEN <<Secret(a)>> ELSE <<>>) \in Seq(Names)
    <3>. DEFINE t == IF s = "fetch" THEN <<Secret(a)>> ELSE <<>>
    <3>. HIDE DEF t
    <3>. QED
      BY <1>1, <2>1 DEF t
  <2>. DEFINE u == Base \o (IF s = "fetch" THEN <<Secret(a)>> ELSE <<>>)
  <2>. HIDE DEF u
  <2>3. u \o <<Job(a, s)>> \in Seq(Names)
    BY <1>1, <2>2 DEF u
  <2>. QED
    BY <2>3 DEF u, JobPlan
<1>. QED
  BY <1>2, <1>3 DEF JobPlan, PreviewPlan, Base

LEMMA PlansOf ==
    ASSUME NEW a \in Attempts, NEW s \in ClusterSteps, NEW x, x.todo = Plan(a, s),
           x.attempt = a, x.step = s
    PROVE  /\ x.todo \in Seq(Names) /\ TodoFits(x)
           /\ s \in JobSteps \union {"preview"} => Len(x.todo) \in {3, 4}
           /\ s \notin JobSteps \union {"preview"} => x.todo = <<>>
<1>1. CASE s = "fetch"
  <2>1. Plan(a, s) = JobPlan(a, "fetch")
    BY <1>1 DEF Plan, JobSteps
  <2>2. /\ Object(a, "fetch", 4) = Namespace /\ Object(a, "fetch", 3) = Workspace
        /\ Object(a, "fetch", 2) = Secret(a) /\ Object(a, "fetch", 1) = Job(a, "fetch")
    BY DEF Object
  <2>3. /\ Len(x.todo) = 4 /\ x.todo[1] = Namespace /\ x.todo[2] = Workspace
        /\ x.todo[3] = Secret(a) /\ x.todo[4] = Job(a, "fetch")
        /\ x.todo \in Seq(Names)
    BY <2>1, PlanSeqs DEF JobSteps
  <2>4. ASSUME NEW i \in 1..4 PROVE x.todo[i] = Object(a, "fetch", 4 + 1 - i)
    <3>1. i = 1 \/ i = 2 \/ i = 3 \/ i = 4
      OBVIOUS
    <3>. QED
      BY <2>2, <2>3, <3>1
  <2>. HIDE DEF Plan
  <2>5. \A i \in 1..Len(x.todo) : x.todo[i] = Object(a, s, Len(x.todo) + 1 - i)
    BY <1>1, <2>3, <2>4
  <2>6. Len(x.todo) <= 4 /\ Len(x.todo) \in {3, 4}
    BY <2>3
  <2>7. TodoFits(x)
    BY <1>1, <2>5, <2>6 DEF TodoFits
  <2>. QED
    BY <1>1, <2>3, <2>6, <2>7 DEF JobSteps
<1>2. CASE s = "test"
  <2>1. Plan(a, s) = JobPlan(a, "test")
    BY <1>2 DEF Plan, JobSteps
  <2>. QED
    BY <1>2, <2>1, PlanSeqs DEF TodoFits, Object, JobSteps
<1>3. CASE s = "preview"
  <2>1. Plan(a, s) = PreviewPlan(a)
    BY <1>3 DEF Plan, JobSteps
  <2>. QED
    BY <1>3, <2>1, PlanSeqs DEF TodoFits, Object, JobSteps
<1>4. CASE s \in {"health", "cleanup"}
  BY <1>4 DEF Plan, TodoFits, JobSteps
<1>. QED
  BY <1>1, <1>2, <1>3, <1>4 DEF ClusterSteps

\* The first object of what is left, and what is left after it.
LEMMA TodoHead ==
    ASSUME NEW x \in ExecState, TodoFits(x), x.todo # <<>>
    PROVE  /\ Len(x.todo) \in 1..4 /\ (x.step # "fetch" => Len(x.todo) \in 1..3)
           /\ Head(x.todo) = Object(x.attempt, x.step, Len(x.todo))
           /\ Head(x.todo) \in Names
           /\ Tail(x.todo) \in Seq(Names) /\ Len(Tail(x.todo)) = Len(x.todo) - 1
           /\ Tail(x.todo) = <<>> <=> Len(x.todo) = 1
           /\ Tail(x.todo) # <<>> =>
                Head(Tail(x.todo)) = Object(x.attempt, x.step, Len(x.todo) - 1)
           /\ \A y : y.attempt = x.attempt /\ y.step = x.step /\ y.todo = Tail(x.todo) => TodoFits(y)
<1>. DEFINE q == x.todo
            r == Tail(q)
<1>1. q \in Seq(Names) /\ q # <<>>
  BY DEF ExecState
<1>2. \A i \in 1..Len(q) : q[i] = Object(x.attempt, x.step, Len(q) + 1 - i)
  BY DEF TodoFits
<1>3. Len(q) <= 4 /\ (x.step # "fetch" => Len(q) <= 3)
  BY DEF TodoFits
<1>. HIDE DEF q
<1>4. /\ Len(q) \in Nat \ {0} /\ Head(q) = q[1] /\ Head(q) \in Names
      /\ r \in Seq(Names) /\ Len(r) = Len(q) - 1
      /\ r = <<>> <=> Len(q) = 1
      /\ \A i \in 1..(Len(q) - 1) : r[i] = q[i + 1]
  BY <1>1, SeqTail
<1>. HIDE DEF r
<1>5. Len(q) \in 1..4 /\ (x.step # "fetch" => Len(q) \in 1..3)
  BY <1>3, <1>4
<1>6. Head(q) = Object(x.attempt, x.step, Len(q))
  <2>1. 1 \in 1..Len(q) /\ Len(q) + 1 - 1 = Len(q)
    BY <1>5
  <2>2. q[1] = Object(x.attempt, x.step, Len(q) + 1 - 1)
    BY <1>2, <2>1
  <2>. QED
    BY <1>4, <2>1, <2>2
<1>7. \A i \in 1..Len(r) : r[i] = Object(x.attempt, x.step, Len(r) + 1 - i)
  <2>1. ASSUME NEW i \in 1..Len(r) PROVE r[i] = Object(x.attempt, x.step, Len(r) + 1 - i)
    <3>1. r[i] = q[i + 1] /\ i + 1 \in 1..Len(q)
      BY <1>4
    <3>2. Len(q) \in Int /\ Len(r) = Len(q) - 1 /\ i \in Int
      BY <1>4
    <3>3. Len(q) + 1 - (i + 1) = Len(r) + 1 - i
      BY <3>2
    <3>. QED
      BY <1>2, <3>1, <3>3
  <2>. QED
    BY <2>1
<1>8. ASSUME r # <<>> PROVE Head(r) = Object(x.attempt, x.step, Len(q) - 1)
  <2>1. Head(r) = r[1] /\ Len(r) \in Nat \ {0}
    BY <1>4, <1>8, SeqTail
  <2>2. 1 \in 1..Len(r) /\ Len(r) + 1 - 1 = Len(q) - 1
    BY <1>4, <2>1
  <2>. QED
    BY <1>7, <2>1, <2>2
<1>9. ASSUME NEW y, y.attempt = x.attempt, y.step = x.step, y.todo = r
      PROVE  TodoFits(y)
  <2>1. Len(r) <= (IF x.step = "fetch" THEN 4 ELSE 3)
    BY <1>4, <1>5
  <2>. QED
    BY <1>7, <1>9, <2>1 DEF TodoFits
<1>. QED
  BY <1>1, <1>4, <1>5, <1>6, <1>8, <1>9 DEF q, r

-----------------------------------------------------------------------------
Reconciling == {"get", "put", "note"}
JobPlaces == {"wait", "collect", "find", "delete", "unlist", "revoke"}
NsPlaces == {"nsGet", "nsDelete", "nsWait", "nsMark"}

Left(x) == Len(x.todo)
Height(x) == IF x.step = "fetch" THEN 4 ELSE 3

\* An execution is at a place of its step, with what is left of its plan before it; it has
\* a token only after it created one, and has deleted its Job only after it waited for it.
ExecFits(x) ==
    /\ TodoFits(x)
    /\ x.at = "idle" => x = Idle
    /\ x.at # "idle" => x.step \in StepsOf[x.attempt]
    /\ x.at \in Reconciling <=> x.todo # <<>>
    /\ x.at \in Reconciling => x.step \in JobSteps \union {"preview"}
    /\ x.at \in JobPlaces => x.step \in JobSteps
    /\ x.at \in NsPlaces => x.step = "cleanup"
    /\ x.at = "watch" => x.step = "health"
    /\ x.token # 0 => x.step = "fetch" /\ (Left(x) < 2 \/ (Left(x) = 2 /\ x.at = "note"))
    /\ x.gone => x.at \in {"unlist", "revoke", "return"}
    /\ x.at = "get" => x.seen = 0 /\ ~(x.step = "fetch" /\ Left(x) = 2)
    /\ x.at = "put" /\ x.seen # 0 => Left(x) = Height(x) \/ (Left(x) = 1 /\ x.step = "preview")

Moved(e) ==
    /\ exec' = [exec EXCEPT ![e] = exec'[e]]
    /\ exec'[e] \in ExecState /\ ExecFits(exec'[e]) /\ exec'[e].at # "idle"
    /\ exec'[e].step = exec[e].step /\ exec'[e].attempt = exec[e].attempt

LEMMA ThrowFits ==
    ASSUME NEW e \in Executions, exec \in [Executions -> ExecState], ExecFits(exec[e]),
           ~At(e, "idle"), InTry(e) => exec[e].step \in JobSteps, Throw(e)
    PROVE  Moved(e)
<1>. DEFINE y == [exec[e] EXCEPT !.at = IF InTry(e) THEN "revoke" ELSE "return",
                                 !.todo = <<>>, !.seen = 0, !.result = Incomplete]
<1>1. exec' = [exec EXCEPT ![e] = y]
  BY DEF Throw
<1>2. exec[e] \in ExecState
  OBVIOUS
<1>3. /\ y.at \in {"revoke", "return"} /\ (y.at = "revoke" => InTry(e))
      /\ y.todo = <<>> /\ y.seen = 0 /\ y.result = Incomplete
      /\ y.attempt = exec[e].attempt /\ y.step = exec[e].step /\ y.token = exec[e].token
      /\ y.gone = exec[e].gone
  BY <1>2 DEF ExecState
<1>. y \in ExecState
  <2>1. /\ (IF InTry(e) THEN "revoke" ELSE "return") \in Places
        /\ <<>> \in Seq(Names) /\ 0 \in Nat /\ Incomplete \in StepResults
    BY DEF Places, StepResults
  <2>. QED
    BY <1>2, <2>1 DEF ExecState
<1>. HIDE DEF y
<1>4. Len(y.todo) = 0 /\ TodoFits(y)
  BY <1>3 DEF TodoFits
<1>5. ExecFits(y)
  <2>1. exec[e].step \in StepsOf[exec[e].attempt] /\ (exec[e].token # 0 => exec[e].step = "fetch")
    BY DEF ExecFits, At
  <2>2. y.token # 0 => y.step = "fetch" /\ Left(y) < 2
    BY <1>3, <1>4, <2>1 DEF Left
  <2>3. y.at = "revoke" => y.step \in JobSteps
    BY <1>3
  <2>. QED
    BY <1>3, <1>4, <2>1, <2>2, <2>3 DEF ExecFits, Reconciling, JobPlaces, NsPlaces
<1>. QED
  BY <1>1, <1>3, <1>5 DEF Moved

LEMMA GetFits ==
    ASSUME NEW e \in Executions, exec \in [Executions -> ExecState], ExecFits(exec[e]),
           things \in [Names -> Thing], Get(e)
    PROVE  Moved(e)
<1>. DEFINE x == exec[e]
            n == Head(exec[e].todo)
            y == [exec[e] EXCEPT !.at = IF Exists(n) /\ Adopted(n) THEN "note" ELSE "put",
                                 !.seen = IF Exists(n) THEN things[n].uid ELSE 0]
<1>1. x \in ExecState /\ x.at = "get" /\ x.todo # <<>> /\ x.step \in JobSteps \union {"preview"}
  BY DEF Get, ExecFits, At, Reconciling
<1>2. n = Object(x.attempt, x.step, Len(x.todo)) /\ n \in Names /\ Len(x.todo) \in 1..4
  BY <1>1, TodoHead DEF ExecFits
<1>3. CASE Foreign(e, n)
  <2>1. Throw(e)
    BY <1>3 DEF Get
  <2>2. InTry(e) => x.step \in JobSteps
    BY <1>1 DEF InTry, ExecFits
  <2>. QED
    BY <1>1, <2>1, <2>2, ThrowFits DEF At
<1>4. CASE ~Foreign(e, n)
  <2>1. exec' = [exec EXCEPT ![e] = y]
    BY <1>4 DEF Get
  <2>2. /\ y.at \in {"note", "put"} /\ y.seen = IF Exists(n) THEN things[n].uid ELSE 0
        /\ y.todo = x.todo /\ y.result = x.result
        /\ y.attempt = x.attempt /\ y.step = x.step /\ y.token = x.token /\ y.gone = x.gone
    BY <1>1, <1>2 DEF ExecState
  <2>4. y.at = "put" /\ y.seen # 0 => n.kind \notin {"Job", "Workspace"}
    BY <1>1, <1>2 DEF ExecState, Adopted
  <2>5. y \in ExecState
    BY <1>1, <1>2 DEF ExecState, Thing, Places
  <2>. HIDE DEF y
  <2>6. y.at = "put" /\ y.seen # 0 => Left(x) = Height(x) \/ (Left(x) = 1 /\ x.step = "preview")
    BY <1>1, <1>2, <2>4, KindsOf DEF ExecFits, TodoFits, Left, Height, Object, JobSteps
  <2>7. ExecFits(y)
    BY <1>1, <2>2, <2>6 DEF ExecFits, TodoFits, Left, Height, Reconciling, JobPlaces, NsPlaces
  <2>. QED
    BY <2>1, <2>2, <2>5, <2>7 DEF Moved
<1>. QED
  BY <1>3, <1>4

LEMMA PutFits ==
    ASSUME NEW e \in Executions, exec \in [Executions -> ExecState], ExecFits(exec[e]),
           things \in [Names -> Thing], Put(e)
    PROVE  Moved(e)
<1>. DEFINE x == exec[e]
            n == Head(exec[e].todo)
            uid == IF exec[e].seen = 0 THEN things[n].uid + 1 ELSE exec[e].seen
            y == [exec[e] EXCEPT !.at = "note", !.seen = uid,
                                 !.token = IF n.kind = "Secret" THEN uid ELSE @]
<1>1. x \in ExecState /\ x.at = "put" /\ x.todo # <<>> /\ x.step \in JobSteps \union {"preview"}
  BY DEF Put, ExecFits, At, Reconciling
<1>2. n = Object(x.attempt, x.step, Len(x.todo)) /\ n \in Names /\ Len(x.todo) \in 1..4
  BY <1>1, TodoHead DEF ExecFits
<1>3. CASE Throw(e)
  <2>1. InTry(e) => x.step \in JobSteps
    BY <1>1 DEF InTry, ExecFits
  <2>. QED
    BY <1>1, <1>3, <2>1, ThrowFits DEF At
<1>4. CASE ~Throw(e)
  <2>1. exec' = [exec EXCEPT ![e] = y]
    BY <1>4 DEF Put
  <2>2. uid \in Nat \ {0}
    BY <1>1, <1>2 DEF ExecState, Thing
  <2>. HIDE DEF uid
  <2>3. /\ y.at = "note" /\ y.seen = uid /\ y.todo = x.todo /\ y.result = x.result
        /\ y.attempt = x.attempt /\ y.step = x.step /\ y.gone = x.gone
        /\ y.token # x.token => n.kind = "Secret"
    BY <1>1 DEF ExecState
  <2>4. y \in ExecState
    BY <1>1, <2>2 DEF ExecState, Places
  <2>. HIDE DEF y
  <2>5. n.kind = "Secret" => x.step = "fetch" /\ Left(x) = 2
    BY <1>1, <1>2, KindsOf DEF Left, Object
  <2>6. y.token # 0 => y.step = "fetch" /\ (Left(y) < 2 \/ (Left(y) = 2 /\ y.at = "note"))
    BY <1>1, <2>3, <2>5 DEF ExecFits, Left
  <2>7. ~y.gone /\ y.seen # 0 /\ y.step \in StepsOf[y.attempt] /\ y.todo # <<>>
    BY <1>1, <2>2, <2>3 DEF ExecFits
  <2>8. TodoFits(y)
    BY <2>3 DEF ExecFits, TodoFits
  <2>9. ExecFits(y)
    BY <1>1, <2>3, <2>6, <2>7, <2>8 DEF ExecFits, Reconciling, JobPlaces, NsPlaces
  <2>. QED
    BY <2>1, <2>3, <2>4, <2>9 DEF Moved
<1>. QED
  BY <1>3, <1>4

LEMMA NoteFits ==
    ASSUME NEW e \in Executions, exec \in [Executions -> ExecState], ExecFits(exec[e]), Note(e)
    PROVE  Moved(e)
<1>. DEFINE x == exec[e]
            rest == Tail(exec[e].todo)
            place == AfterNote(e, rest)
            y == [exec[e] EXCEPT !.at = place, !.todo = rest,
                                 !.seen = IF rest = <<>> THEN @ ELSE 0]
<1>1. x \in ExecState /\ x.at = "note" /\ x.todo # <<>> /\ x.step \in JobSteps \union {"preview"}
  BY DEF Note, ExecFits, At, Reconciling
<1>2. /\ rest \in Seq(Names) /\ Len(rest) = Len(x.todo) - 1 /\ Len(x.todo) \in 1..4
      /\ rest = <<>> <=> Len(x.todo) = 1
      /\ rest # <<>> => Head(rest) = Object(x.attempt, x.step, Len(x.todo) - 1)
      /\ \A z : z.attempt = x.attempt /\ z.step = x.step /\ z.todo = rest => TodoFits(z)
  BY <1>1, TodoHead DEF ExecFits
<1>3. exec' = [exec EXCEPT ![e] = y]
  BY DEF Note
<1>4. x.token # 0 => x.step = "fetch" /\ Len(x.todo) < 3
  <2>1. x.token # 0 => x.step = "fetch" /\ (Len(x.todo) < 2 \/ Len(x.todo) = 2)
    BY <1>1 DEF ExecFits, Left
  <2>2. Len(x.todo) \in Nat
    BY <1>2
  <2>3. \A k \in Nat : k < 2 \/ k = 2 => k < 3
    OBVIOUS
  <2>. QED
    BY <2>1, <2>2, <2>3
<1>. HIDE DEF rest
<1>5. /\ rest # <<>> => place \in {"get", "put"}
      /\ place = "put" => Head(rest).kind = "Secret"
      /\ place = "get" => Head(rest).kind # "Secret"
      /\ rest = <<>> => place = IF x.step \in JobSteps THEN "wait" ELSE "return"
  BY DEF AfterNote
<1>6. place \in {"get", "put", "wait", "return"}
  BY <1>5
<1>. HIDE DEF place
<1>7. /\ y.at = place /\ y.todo = rest /\ y.attempt = x.attempt /\ y.step = x.step
      /\ y.token = x.token /\ y.gone = x.gone /\ (rest # <<>> => y.seen = 0)
  BY <1>1 DEF ExecState
<1>. y \in ExecState
  BY <1>1, <1>2, <1>6 DEF ExecState, Places
<1>. HIDE DEF y
<1>8. TodoFits(y)
  BY <1>2, <1>7
<1>9. y.token # 0 => y.step = "fetch" /\ Left(y) < 2
  <2>1. Len(x.todo) < 3 => Len(rest) < 2
    BY <1>2
  <2>. QED
    BY <1>4, <1>7, <2>1 DEF Left
<1>10. y.at = "get" => y.seen = 0 /\ ~(y.step = "fetch" /\ Left(y) = 2)
  <2>1. ASSUME y.at = "get" PROVE rest # <<>> /\ Head(rest).kind # "Secret"
    BY <2>1, <1>5, <1>7
  <2>2. rest # <<>> /\ y.step = "fetch" /\ Left(y) = 2 => Head(rest).kind = "Secret"
    <3>1. Object(x.attempt, "fetch", 2) = Secret(x.attempt)
      BY DEF Object
    <3>2. Left(y) = 2 => Len(x.todo) - 1 = 2
      BY <1>2, <1>7 DEF Left
    <3>3. rest # <<>> => Head(rest) = Object(x.attempt, x.step, Len(x.todo) - 1)
      BY <1>2
    <3>4. ASSUME rest # <<>>, y.step = "fetch", Left(y) = 2
          PROVE  Head(rest) = Secret(x.attempt)
      BY <1>7, <3>1, <3>2, <3>3, <3>4
    <3>. QED
      BY <3>4, KindsOf
  <2>. QED
    BY <1>7, <2>1, <2>2
<1>11. /\ y.at \in Reconciling <=> y.todo # <<>>
       /\ y.at = "wait" => y.step \in JobSteps
       /\ y.at = "put" => y.seen = 0
  BY <1>5, <1>6, <1>7 DEF Reconciling
<1>12. ~y.gone /\ y.step \in StepsOf[y.attempt] /\ y.step \in JobSteps \union {"preview"}
  BY <1>1, <1>7 DEF ExecFits
<1>13. ExecFits(y)
  BY <1>6, <1>7, <1>8, <1>9, <1>10, <1>11, <1>12 DEF ExecFits, JobPlaces, NsPlaces
<1>. QED
  BY <1>3, <1>6, <1>7, <1>13 DEF Moved

LEMMA PlaceFits ==
    ASSUME NEW x, NEW y, ExecFits(x), x.at # "idle", x.todo = <<>>, y.todo = <<>>,
           y.attempt = x.attempt, y.step = x.step, y.token = x.token,
           y.gone => y.at \in {"unlist", "revoke", "return"},
           y.at \in JobPlaces \union NsPlaces \union {"return"},
           y.at \in JobPlaces => y.step \in JobSteps, y.at \in NsPlaces => y.step = "cleanup"
    PROVE  ExecFits(y)
<1>1. Len(y.todo) = 0 /\ TodoFits(y)
  BY DEF TodoFits
<1>2. x.step \in StepsOf[x.attempt] /\ (x.token # 0 => x.step = "fetch")
  BY DEF ExecFits
<1>3. y.token # 0 => y.step = "fetch" /\ Left(y) < 2
  BY <1>1, <1>2 DEF Left
<1>. QED
  BY <1>1, <1>2, <1>3 DEF ExecFits, Reconciling, JobPlaces, NsPlaces


LEMMA PlaceMoves ==
    ASSUME NEW e \in Executions, exec \in [Executions -> ExecState], ExecFits(exec[e]),
           ~At(e, "idle"), exec[e].at \notin Reconciling,
           NEW y \in ExecState, exec' = [exec EXCEPT ![e] = y],
           y.todo = exec[e].todo, y.attempt = exec[e].attempt, y.step = exec[e].step,
           y.token = exec[e].token, y.gone => y.at \in {"unlist", "revoke", "return"},
           y.at \in JobPlaces \union NsPlaces \union {"return"},
           y.at \in JobPlaces => y.step \in JobSteps, y.at \in NsPlaces => y.step = "cleanup"
    PROVE  Moved(e)
<1>1. exec[e] \in ExecState /\ exec[e].todo = <<>> /\ exec[e].at # "idle"
  BY DEF ExecFits, At
<1>2. ExecFits(y)
  BY <1>1, PlaceFits
<1>3. exec'[e] = y
  OBVIOUS
<1>. QED
  BY <1>2, <1>3 DEF Moved, JobPlaces, NsPlaces

LEMMA JobMoves ==
    ASSUME NEW e \in Executions, exec \in [Executions -> ExecState], ExecFits(exec[e]),
           things \in [Names -> Thing],
           Wait(e) \/ Collect(e) \/ Find(e) \/ Delete(e) \/ Unlist(e)
    PROVE  Moved(e)
<1>. DEFINE x == exec[e]
<1>1. /\ x \in ExecState /\ x.step \in JobSteps /\ x.at \notin Reconciling /\ ~At(e, "idle")
      /\ x.at \in {"wait", "collect", "find", "delete", "unlist"}
  BY DEF Wait, Collect, Find, Delete, Unlist, At, ExecFits, JobPlaces, Reconciling
<1>2. x.gone => x.at = "unlist"
  BY <1>1 DEF ExecFits
<1>3. things[MyJob(e)].uid \in Nat
  BY <1>1, NamesOf DEF MyJob, ExecState, Thing
<1>4. CASE Throw(e)
  BY <1>1, <1>4, ThrowFits DEF InTry
<1>5. CASE Wait(e)
  <2>1. PICK result \in {Passed, Incomplete, AppFailure} :
          exec' = [exec EXCEPT ![e].at = "collect", ![e].result = result]
    BY <1>5 DEF Wait
  <2>. DEFINE y == [exec[e] EXCEPT !.at = "collect", !.result = result]
  <2>2. exec' = [exec EXCEPT ![e] = y]
    BY <2>1
  <2>3. /\ y.at = "collect" /\ y.todo = x.todo /\ y.attempt = x.attempt /\ y.step = x.step
        /\ y.token = x.token /\ y.gone = x.gone /\ y \in ExecState
    BY <1>1 DEF ExecState, Places, StepResults
  <2>4. ~x.gone
    BY <1>2, <1>5 DEF Wait, At
  <2>. HIDE DEF y
  <2>. QED
    BY <1>1, <2>2, <2>3, <2>4, PlaceMoves DEF JobPlaces, NsPlaces
<1>6. CASE Collect(e) /\ ~Throw(e)
  <2>. DEFINE y == [exec[e] EXCEPT !.at = "find"]
  <2>2. exec' = [exec EXCEPT ![e] = y]
    BY <1>6 DEF Collect, Goto
  <2>3. /\ y.at = "find" /\ y.todo = x.todo /\ y.attempt = x.attempt /\ y.step = x.step
        /\ y.token = x.token /\ y.gone = x.gone /\ y \in ExecState
    BY <1>1 DEF ExecState, Places
  <2>4. ~x.gone
    BY <1>2, <1>6 DEF Collect, At
  <2>. HIDE DEF y
  <2>. QED
    BY <1>1, <2>2, <2>3, <2>4, PlaceMoves DEF JobPlaces, NsPlaces
<1>7. CASE Find(e)
  <2>. DEFINE place == IF Exists(MyJob(e)) THEN "delete" ELSE AfterJob(e)
              y == [exec[e] EXCEPT !.at = place, !.seen = things[MyJob(e)].uid]
  <2>1. place \in {"delete", "revoke", "return"}
    BY DEF AfterJob
  <2>. HIDE DEF place
  <2>2. exec' = [exec EXCEPT ![e] = y]
    BY <1>7 DEF Find, place
  <2>3. /\ y.at = place /\ y.todo = x.todo /\ y.attempt = x.attempt /\ y.step = x.step
        /\ y.token = x.token /\ y.gone = x.gone /\ y \in ExecState
    BY <1>1, <1>3, <2>1 DEF ExecState, Places
  <2>4. ~x.gone
    BY <1>2, <1>7 DEF Find, At
  <2>. HIDE DEF y
  <2>. QED
    BY <1>1, <2>1, <2>2, <2>3, <2>4, PlaceMoves DEF JobPlaces, NsPlaces
<1>8. CASE Delete(e) /\ ~Throw(e)
  <2>. DEFINE y == [exec[e] EXCEPT !.at = "unlist", !.gone = TRUE]
  <2>2. exec' = [exec EXCEPT ![e] = y]
    BY <1>8 DEF Delete
  <2>3. /\ y.at = "unlist" /\ y.todo = x.todo /\ y.attempt = x.attempt /\ y.step = x.step
        /\ y.token = x.token /\ y \in ExecState
    BY <1>1 DEF ExecState, Places
  <2>. HIDE DEF y
  <2>. QED
    BY <1>1, <2>2, <2>3, PlaceMoves DEF JobPlaces, NsPlaces
<1>9. CASE Unlist(e)
  <2>. DEFINE place == AfterJob(e)
              y == [exec[e] EXCEPT !.at = place]
  <2>1. place \in {"revoke", "return"}
    BY DEF AfterJob
  <2>. HIDE DEF place
  <2>2. exec' = [exec EXCEPT ![e] = y]
    BY <1>9 DEF Unlist, Goto, place
  <2>3. /\ y.at = place /\ y.todo = x.todo /\ y.attempt = x.attempt /\ y.step = x.step
        /\ y.token = x.token /\ y \in ExecState
    BY <1>1, <2>1 DEF ExecState, Places
  <2>. HIDE DEF y
  <2>. QED
    BY <1>1, <2>1, <2>2, <2>3, PlaceMoves DEF JobPlaces, NsPlaces
<1>. QED
  BY <1>4, <1>5, <1>6, <1>7, <1>8, <1>9

LEMMA OtherMoves ==
    ASSUME NEW e \in Executions, exec \in [Executions -> ExecState], ExecFits(exec[e]),
           things \in [Names -> Thing],
           \/ Revoke(e) \/ Watch(e)
           \/ NsGet(e) \/ NsDelete(e) \/ NsWait(e) \/ NsPending(e) \/ NsMark(e)
    PROVE  Moved(e)
<1>. DEFINE x == exec[e]
<1>1. /\ x \in ExecState /\ x.at \notin Reconciling /\ ~At(e, "idle")
      /\ x.at \in NsPlaces \union {"revoke", "watch"}
  BY DEF Revoke, Watch, NsGet, NsDelete, NsWait, NsPending, NsMark, At, NsPlaces, Reconciling
<1>2. (x.gone => x.at = "revoke") /\ (x.at \in NsPlaces => x.step = "cleanup") /\ x.todo = <<>>
  BY <1>1 DEF ExecFits, NsPlaces
<1>3. things[Namespace].uid \in Nat
  BY NamesOf DEF Thing
<1>4. CASE Throw(e) /\ x.at \in NsPlaces
  <2>1. x.token = 0
    BY <1>2, <1>4 DEF ExecFits
  <2>. QED
    BY <1>1, <1>4, <2>1, ThrowFits DEF InTry
<1>5. ASSUME Goto(e, "return") PROVE Moved(e)
  <2>. DEFINE y == [exec[e] EXCEPT !.at = "return"]
  <2>2. exec' = [exec EXCEPT ![e] = y]
    BY <1>5 DEF Goto
  <2>3. /\ y.at = "return" /\ y.todo = x.todo /\ y.attempt = x.attempt /\ y.step = x.step
        /\ y.token = x.token /\ y \in ExecState
    BY <1>1 DEF ExecState, Places
  <2>. HIDE DEF y
  <2>. QED
    BY <1>1, <2>2, <2>3, PlaceMoves DEF JobPlaces, NsPlaces
<1>6. CASE Watch(e)
  <2>1. PICK result \in {Passed, Incomplete, AppFailure} :
          exec' = [exec EXCEPT ![e].at = "return", ![e].result = result]
    BY <1>6 DEF Watch
  <2>. DEFINE y == [exec[e] EXCEPT !.at = "return", !.result = result]
  <2>2. exec' = [exec EXCEPT ![e] = y]
    BY <2>1
  <2>3. /\ y.at = "return" /\ y.todo = x.todo /\ y.attempt = x.attempt /\ y.step = x.step
        /\ y.token = x.token /\ y \in ExecState
    BY <1>1 DEF ExecState, Places, StepResults
  <2>. HIDE DEF y
  <2>. QED
    BY <1>1, <2>2, <2>3, PlaceMoves DEF JobPlaces, NsPlaces
<1>7. CASE NsGet(e)
  <2>. DEFINE place == CASE things[Namespace].state = "absent" -> "return"
                         [] things[Namespace].state = "there"  -> "nsDelete"
                         [] OTHER                              -> "nsWait"
              y == [exec[e] EXCEPT !.at = place, !.seen = things[Namespace].uid, !.result = Passed]
  <2>1. place \in {"return", "nsDelete", "nsWait"}
    OBVIOUS
  <2>. HIDE DEF place
  <2>2. exec' = [exec EXCEPT ![e] = y]
    BY <1>7 DEF NsGet, place
  <2>3. /\ y.at = place /\ y.todo = x.todo /\ y.attempt = x.attempt /\ y.step = x.step
        /\ y.token = x.token /\ y.gone = x.gone /\ y \in ExecState
    BY <1>1, <1>3, <2>1 DEF ExecState, Places, StepResults
  <2>4. ~x.gone /\ x.step = "cleanup"
    BY <1>2, <1>7 DEF NsGet, At, NsPlaces
  <2>. HIDE DEF y
  <2>. QED
    BY <1>1, <2>1, <2>2, <2>3, <2>4, PlaceMoves DEF JobPlaces, NsPlaces
<1>8. ASSUME NEW place \in {"nsWait", "nsMark"}, x.at \in NsPlaces, Goto(e, place) PROVE Moved(e)
  <2>. DEFINE y == [exec[e] EXCEPT !.at = place]
  <2>2. exec' = [exec EXCEPT ![e] = y]
    BY <1>8 DEF Goto
  <2>3. /\ y.at = place /\ y.todo = x.todo /\ y.attempt = x.attempt /\ y.step = x.step
        /\ y.token = x.token /\ y.gone = x.gone /\ y \in ExecState
    BY <1>1 DEF ExecState, Places
  <2>4. ~x.gone /\ x.step = "cleanup"
    BY <1>2, <1>8 DEF NsPlaces
  <2>. HIDE DEF y
  <2>. QED
    BY <1>1, <2>2, <2>3, <2>4, PlaceMoves DEF JobPlaces, NsPlaces
<1>9. CASE NsWait(e) /\ Exists(Namespace)
  <2>. DEFINE y == [exec[e] EXCEPT !.at = "return", !.result = Incomplete]
  <2>2. exec' = [exec EXCEPT ![e] = y]
    BY <1>9 DEF NsWait
  <2>3. /\ y.at = "return" /\ y.todo = x.todo /\ y.attempt = x.attempt /\ y.step = x.step
        /\ y.token = x.token /\ y \in ExecState
    BY <1>1 DEF ExecState, Places, StepResults
  <2>. HIDE DEF y
  <2>. QED
    BY <1>1, <2>2, <2>3, PlaceMoves DEF JobPlaces, NsPlaces
<1>10. CASE NsDelete(e) \/ (NsWait(e) /\ ~Exists(Namespace))
  BY <1>4, <1>8, <1>10 DEF NsDelete, NsWait, At, NsPlaces
<1>. QED
  BY <1>5, <1>6, <1>7, <1>9, <1>10 DEF Revoke, NsPending, NsMark

\* A deletion whose answer is lost is like one that is answered, but ends the execution.
Unanswered(e, y) ==
    \/ /\ At(e, "delete") /\ y.at = AfterJob(e) /\ y.gone /\ y.seen = 0 /\ y.result = Incomplete
       /\ Exists(MyJob(e)) /\ things[MyJob(e)].uid = exec[e].seen
       /\ things' = [things EXCEPT ![MyJob(e)].state = "absent"]
    \/ /\ At(e, "revoke") /\ y.at = "return" /\ y.gone = exec[e].gone
       /\ y.seen = exec[e].seen /\ y.result = exec[e].result
       /\ Exists(Secret(exec[e].attempt)) /\ things[Secret(exec[e].attempt)].uid = exec[e].token
       /\ things' = [things EXCEPT ![Secret(exec[e].attempt)].state = "absent"]

LEMMA UnansweredMoves ==
    ASSUME NEW e \in Executions, exec \in [Executions -> ExecState], ExecFits(exec[e]),
           DeleteUnanswered(e)
    PROVE  /\ Moved(e) /\ exec[e].at \in {"delete", "revoke"}
           /\ exec' = [exec EXCEPT ![e] = exec'[e]] /\ exec'[e] \in ExecState
           /\ Unanswered(e, exec'[e])
           /\ exec'[e].todo = exec[e].todo /\ exec'[e].attempt = exec[e].attempt
           /\ exec'[e].step = exec[e].step /\ exec'[e].token = exec[e].token
<1>. DEFINE x == exec[e]
<1>1. x \in ExecState
  OBVIOUS
<1>2. CASE At(e, "delete")
  <2>. DEFINE place == AfterJob(e)
              y == [exec[e] EXCEPT !.at = place, !.seen = 0, !.gone = TRUE, !.result = Incomplete]
  <2>1. place \in {"revoke", "return"}
    BY DEF AfterJob
  <2>2. /\ exec' = [exec EXCEPT ![e] = y]
        /\ Exists(MyJob(e)) /\ things[MyJob(e)].uid = exec[e].seen
        /\ things' = [things EXCEPT ![MyJob(e)].state = "absent"]
    BY <1>2 DEF DeleteUnanswered, At
  <2>3. place = AfterJob(e)
    OBVIOUS
  <2>. HIDE DEF place
  <2>4. /\ y.at = place /\ y.todo = x.todo /\ y.attempt = x.attempt /\ y.step = x.step
        /\ y.token = x.token /\ y.gone /\ y.seen = 0 /\ y.result = Incomplete /\ y \in ExecState
    BY <1>1, <2>1 DEF ExecState, Places, StepResults
  <2>. HIDE DEF y
  <2>5. exec'[e] = y
    BY <2>2
  <2>7. x.step \in JobSteps
    BY <1>2 DEF ExecFits, JobPlaces, At
  <2>6. Moved(e)
    BY <1>1, <1>2, <2>1, <2>2, <2>4, <2>7, PlaceMoves DEF JobPlaces, NsPlaces, Reconciling, At
  <2>. QED
    BY <1>2, <2>2, <2>3, <2>4, <2>5, <2>6 DEF Unanswered, At
<1>3. CASE At(e, "revoke")
  <2>. DEFINE y == [exec[e] EXCEPT !.at = "return"]
  <2>1. /\ exec' = [exec EXCEPT ![e] = y]
        /\ Exists(Secret(exec[e].attempt)) /\ things[Secret(exec[e].attempt)].uid = exec[e].token
        /\ things' = [things EXCEPT ![Secret(exec[e].attempt)].state = "absent"]
    BY <1>3 DEF DeleteUnanswered, At, Goto
  <2>2. /\ y.at = "return" /\ y.todo = x.todo /\ y.attempt = x.attempt /\ y.step = x.step
        /\ y.token = x.token /\ y.gone = x.gone /\ y.seen = x.seen /\ y.result = x.result
        /\ y \in ExecState
    BY <1>1 DEF ExecState, Places
  <2>. HIDE DEF y
  <2>3. exec'[e] = y
    BY <2>1
  <2>4. Moved(e)
    BY <1>1, <1>3, <2>1, <2>2, PlaceMoves DEF JobPlaces, NsPlaces, Reconciling, At
  <2>. QED
    BY <1>3, <2>1, <2>2, <2>3, <2>4 DEF Unanswered, At
<1>. QED
  BY <1>2, <1>3 DEF DeleteUnanswered

LEMMA CallFailsMoves ==
    ASSUME NEW e \in Executions, exec \in [Executions -> ExecState], ExecFits(exec[e]), CallFails(e)
    PROVE  Moved(e)
<1>. DEFINE x == exec[e]
<1>1. x \in ExecState /\ ~At(e, "idle") /\ x.at # "return"
  BY DEF CallFails, At
<1>2. CASE At(e, "revoke")
  <2>. DEFINE y == [exec[e] EXCEPT !.at = "return"]
  <2>1. exec' = [exec EXCEPT ![e] = y]
    BY <1>2 DEF CallFails, Goto
  <2>2. /\ y.at = "return" /\ y.todo = x.todo /\ y.attempt = x.attempt /\ y.step = x.step
        /\ y.token = x.token /\ y \in ExecState
    BY <1>1 DEF ExecState, Places
  <2>. HIDE DEF y
  <2>. QED
    BY <1>1, <1>2, <2>1, <2>2, PlaceMoves DEF JobPlaces, NsPlaces, Reconciling, At
<1>3. CASE ~At(e, "revoke")
  <2>1. Throw(e)
    BY <1>3 DEF CallFails
  <2>2. InTry(e) => x.step \in JobSteps
    BY DEF InTry, ExecFits, JobSteps
  <2>. QED
    BY <1>1, <2>1, <2>2, ThrowFits
<1>. QED
  BY <1>2, <1>3

-----------------------------------------------------------------------------
\* The steps of an execution that neither begin nor end it.
Goes(e) ==
    \/ Get(e) \/ Put(e) \/ Note(e) \/ Wait(e) \/ Collect(e) \/ Find(e) \/ Delete(e)
    \/ Unlist(e) \/ Revoke(e) \/ Watch(e)
    \/ NsGet(e) \/ NsDelete(e) \/ NsWait(e) \/ NsMark(e) \/ NsPending(e) \/ CallFails(e)
    \/ DeleteUnanswered(e)

LEMMA NextIs ==
    Next <=> \/ \E e \in Executions : Goes(e) \/ Return(e) \/ Crash(e) \/ LeaseLost(e)
             \/ Begin \/ Skip \/ Retry
             \/ \E n \in Names : JobEnds(n) \/ PreviewStarts(n)
             \/ NamespaceGoes
  BY DEF Next, Works, Goes

LEMMA GoesMoves ==
    ASSUME NEW e \in Executions, exec \in [Executions -> ExecState], ExecFits(exec[e]),
           things \in [Names -> Thing], Goes(e)
    PROVE  Moved(e) /\ ~At(e, "idle")
<1>1. Moved(e)
  BY GetFits, PutFits, NoteFits, JobMoves, OtherMoves, CallFailsMoves, UnansweredMoves DEF Goes
<1>2. ~At(e, "idle")
  BY DEF Goes, Get, Put, Note, Wait, Collect, Find, Delete, Unlist, Revoke, Watch,
         NsGet, NsDelete, NsWait, NsMark, NsPending, CallFails, DeleteUnanswered, At
<1>. QED
  BY <1>1, <1>2

\* The steps of an execution leave the workflow alone.
LEMMA GoesFrame ==
    ASSUME NEW e \in Executions, Goes(e)
    PROVE  attempt' = attempt /\ book' = book /\ owner' = owner
  BY DEF Goes, Get, Put, Note, Wait, Collect, Find, Delete, Unlist, Revoke, Watch,
         NsGet, NsDelete, NsWait, NsMark, NsPending, CallFails, DeleteUnanswered, workflow

-----------------------------------------------------------------------------
\* An object is in a state of its kind; one that exists has been created, and its labels
\* name the attempt of its name.
StatesOf(kind) ==
    CASE kind = "Namespace" -> {"absent", "there", "terminating"}
      [] kind = "Workspace" -> {"absent", "there", "filled"}
      [] kind = "Job"       -> {"absent", "running", "succeeded", "failed"}
      [] OTHER              -> {"absent", "there", "available"}

ThingFits(n, t) ==
    /\ t \in Thing /\ t.state \in StatesOf(n.kind)
    /\ t.state # "absent" /\ n.kind # "Workspace" => t.uid # 0
    /\ t.state # "absent" /\ n.kind \in {"Secret", "Job", "Preview"} => t.of = n.attempt

ThingsFit ==
    /\ things \in [Names -> Thing]
    /\ \A n \in Names : ThingFits(n, things[n]) /\ things[n].of <= attempt

\* An object that is created anew has a new uid.
Succeeds(n) ==
    /\ things[n].uid <= things'[n].uid
    /\ ~Exists(n) /\ Exists(n)' /\ n # Workspace => things'[n].uid = things[n].uid + 1

LEMMA ObjectsOf ==
    ASSUME NEW x \in ExecState, x.todo # <<>>, ExecFits(x)
    PROVE  LET n == Head(x.todo) IN
           /\ n \in Names
           /\ n = Namespace \/ n = Workspace
              \/ n \in {Secret(x.attempt), Preview(x.attempt)}
              \/ (n = Job(x.attempt, x.step) /\ x.step \in JobSteps)
<1>1. Head(x.todo) \in Names /\ Head(x.todo) = Object(x.attempt, x.step, Len(x.todo))
  BY TodoHead DEF ExecFits
<1>2. x.step \in JobSteps \union {"preview"}
  BY DEF ExecFits
<1>. QED
  BY <1>1, <1>2 DEF Object

LEMMA PutThingFits ==
    ASSUME ThingsFit, NEW e \in Executions, exec[e] \in ExecState, exec[e].todo # <<>>, ExecFits(exec[e]),
           exec[e].attempt <= attempt, attempt \in Attempts,
           attempt' = attempt, MayPut(e, Head(exec[e].todo)), PutThing(e, Head(exec[e].todo))
    PROVE  ThingsFit' /\ \A n \in Names : Succeeds(n)
<1>. DEFINE n == Head(exec[e].todo)
            c == Created(e, n)
<1>1. CASE exec[e].seen # 0
  BY <1>1 DEF PutThing, ThingsFit, ThingFits, Succeeds, Exists, Thing
<1>2. CASE exec[e].seen = 0
  <2>1. /\ n \in Names
        /\ n = Namespace \/ n = Workspace
           \/ n \in {Secret(exec[e].attempt), Preview(exec[e].attempt)}
           \/ (n = Job(exec[e].attempt, exec[e].step) /\ exec[e].step \in JobSteps)
    BY ObjectsOf
  <2>2. things' = [things EXCEPT ![n] = c] /\ ~Exists(n)
    BY <1>2 DEF PutThing, MayPut
  <2>3. things[n].uid \in Nat
    BY <2>1 DEF ThingsFit, Thing
  <2>4. exec[e].attempt \in 0..MaxAttempt
    BY ClusterAssumption DEF ExecState, Attempts
  <2>5. /\ c.state = InitialState(n) /\ c.uid = things[n].uid + 1 /\ c.of = exec[e].attempt
        /\ c \in Thing
    BY <2>3, <2>4 DEF Created, Thing, ThingStates, InitialState
  <2>. HIDE DEF n, c
  <2>6. n.kind \in {"Secret", "Job", "Preview"} => n.attempt = exec[e].attempt
    BY <2>1, KindsOf
  <2>7. c.state \in StatesOf(n.kind)
    BY <2>1, <2>5, NamesByKind DEF StatesOf, InitialState
  <2>8. ThingFits(n, c) /\ c.of <= attempt
    BY <2>3, <2>5, <2>6, <2>7 DEF ThingFits
  <2>9. ThingsFit'
    BY <2>1, <2>2, <2>5, <2>8 DEF ThingsFit
  <2>10. \A m \in Names : Succeeds(m)
    BY <2>1, <2>2, <2>3, <2>5 DEF Succeeds, Exists, ThingsFit, Thing
  <2>. QED
    BY <2>9, <2>10
<1>. QED
  BY <1>1, <1>2

\* Whatever changes no more than the state of one object.
LEMMA StateFits ==
    ASSUME ThingsFit, attempt \in Nat, attempt' \in Nat, attempt <= attempt', NEW n \in Names, NEW state \in ThingStates,
           state \in StatesOf(n.kind), state = "absent" \/ Exists(n) \/ n = Workspace,
           things' = [things EXCEPT ![n].state = state]
    PROVE  ThingsFit' /\ \A m \in Names : Succeeds(m)
<1>. DEFINE t == [things[n] EXCEPT !.state = state]
<1>1. things[n] \in Thing /\ things' = [things EXCEPT ![n] = t]
  BY DEF ThingsFit
<1>2. t \in Thing /\ t.state = state /\ t.uid = things[n].uid /\ t.of = things[n].of
  BY <1>1 DEF Thing
<1>. HIDE DEF t
<1>3. ThingFits(n, t)
  BY <1>2, NamesByKind DEF ThingsFit, ThingFits, Exists
<1>4. ThingsFit'
  BY <1>1, <1>2, <1>3 DEF ThingsFit, Thing
<1>5. \A m \in Names : Succeeds(m)
  BY <1>1, <1>2 DEF Succeeds, Exists, ThingsFit, Thing
<1>. QED
  BY <1>4, <1>5

LEMMA SameThings ==
    ASSUME ThingsFit, attempt \in Nat, attempt' \in Nat, attempt <= attempt', things' = things
    PROVE  ThingsFit' /\ \A n \in Names : Succeeds(n)
<1>1. \A n \in Names : things[n] \in Thing
  BY DEF ThingsFit
<1>2. \A n \in Names : things[n].of \in Int /\ things[n].uid \in Int
  BY <1>1 DEF Thing
<1>3. ThingsFit'
  BY <1>2 DEF ThingsFit
<1>. QED
  BY <1>2, <1>3 DEF Succeeds, Exists

LEMMA GoesThings ==
    ASSUME ThingsFit, attempt \in Attempts, NEW e \in Executions, exec \in [Executions -> ExecState],
           ExecFits(exec[e]), exec[e].attempt <= attempt, Goes(e)
    PROVE  ThingsFit' /\ \A n \in Names : Succeeds(n)
<1>1. attempt' = attempt /\ attempt \in Nat /\ attempt <= attempt /\ exec[e] \in ExecState
  BY GoesFrame, ClusterAssumption DEF Attempts
<1>2. CASE things' = things
  BY <1>1, <1>2, SameThings
<1>3. CASE \/ Put(e) /\ MayPut(e, Head(exec[e].todo)) /\ PutThing(e, Head(exec[e].todo))
           \/ CallFails(e) /\ At(e, "put") /\ MayPut(e, Head(exec[e].todo))
                /\ PutThing(e, Head(exec[e].todo))
  <2>1. exec[e].todo # <<>>
    BY <1>3 DEF Put, At, ExecFits, Reconciling
  <2>. QED
    BY <1>1, <1>3, <2>1, PutThingFits
<1>4. ASSUME NEW n \in Names, things' = [things EXCEPT ![n].state = "absent"]
      PROVE  ThingsFit' /\ \A m \in Names : Succeeds(m)
  BY <1>1, <1>4, StateFits, NamesByKind DEF ThingStates, StatesOf
<1>5. ASSUME Exists(Namespace), things' = [things EXCEPT ![Namespace].state = "terminating"]
      PROVE  ThingsFit' /\ \A m \in Names : Succeeds(m)
  BY <1>1, <1>5, StateFits, NamesOf, KindsOf DEF ThingStates, StatesOf
<1>6. CASE Delete(e)
  <2>1. MyJob(e) \in Names
    BY <1>1, <1>6, NamesOf DEF Delete, At, ExecFits, JobPlaces, MyJob, ExecState
  <2>. QED
    BY <1>2, <1>4, <1>6, <2>1 DEF Delete
<1>7. CASE Revoke(e)
  <2>1. Secret(exec[e].attempt) \in Names
    BY <1>1, NamesOf DEF ExecState
  <2>. QED
    BY <1>2, <1>4, <1>7, <2>1 DEF Revoke
<1>8. CASE NsDelete(e)
  <2>1. CASE things' = [things EXCEPT ![Namespace].state = IF @ = "absent" THEN @ ELSE "terminating"]
    <3>1. CASE Exists(Namespace)
      BY <1>5, <2>1, <3>1 DEF Exists
    <3>2. CASE ~Exists(Namespace)
      <4>1. things' = [things EXCEPT ![Namespace].state = "absent"]
        BY <2>1, <3>2 DEF Exists
      <4>. QED
        BY <1>4, <4>1, NamesOf
    <3>. QED
      BY <3>1, <3>2
  <2>. QED
    BY <1>2, <1>8, <2>1 DEF NsDelete
<1>9. CASE CallFails(e)
  BY <1>2, <1>3, <1>5, <1>9 DEF CallFails
<1>10. CASE Put(e)
  BY <1>2, <1>3, <1>10 DEF Put
<1>11. CASE DeleteUnanswered(e)
  <2>1. Secret(exec[e].attempt) \in Names /\ (At(e, "delete") => MyJob(e) \in Names)
    BY <1>1, NamesOf DEF At, ExecFits, JobPlaces, MyJob, ExecState
  <2>. QED
    BY <1>4, <1>11, <2>1 DEF DeleteUnanswered
<1>. QED
  BY <1>2, <1>6, <1>7, <1>8, <1>9, <1>10, <1>11
     DEF Goes, Get, Note, Wait, Collect, Find, Unlist, Watch, NsGet, NsWait, NsMark, NsPending

LEMMA ControllersFrame ==
    ASSUME (\E n \in Names : JobEnds(n) \/ PreviewStarts(n)) \/ NamespaceGoes
    PROVE  /\ attempt' = attempt /\ book' = book /\ owner' = owner /\ listed' = listed
           /\ exec' = exec /\ jobsRun' = jobsRun /\ lateDeaths' = lateDeaths /\ bound' = bound
<1>1. ASSUME NEW n \in Names, JobEnds(n)
      PROVE  /\ attempt' = attempt /\ book' = book /\ owner' = owner /\ listed' = listed
             /\ exec' = exec /\ jobsRun' = jobsRun /\ lateDeaths' = lateDeaths /\ bound' = bound
  BY <1>1 DEF JobEnds, workflow
<1>2. ASSUME NEW n \in Names, PreviewStarts(n)
      PROVE  /\ attempt' = attempt /\ book' = book /\ owner' = owner /\ listed' = listed
             /\ exec' = exec /\ jobsRun' = jobsRun /\ lateDeaths' = lateDeaths /\ bound' = bound
  BY <1>2 DEF PreviewStarts, workflow, history
<1>3. ASSUME NamespaceGoes
      PROVE  /\ attempt' = attempt /\ book' = book /\ owner' = owner /\ listed' = listed
             /\ exec' = exec /\ jobsRun' = jobsRun /\ lateDeaths' = lateDeaths /\ bound' = bound
  BY <1>3 DEF NamespaceGoes, workflow, history
<1>. QED
  BY <1>1, <1>2, <1>3

LEMMA ControllersThings ==
    ASSUME ThingsFit, attempt \in Attempts,
           (\E n \in Names : JobEnds(n) \/ PreviewStarts(n)) \/ NamespaceGoes
    PROVE  ThingsFit' /\ \A n \in Names : Succeeds(n)
<1>1. attempt' = attempt /\ attempt \in Nat /\ attempt <= attempt
  BY ClusterAssumption, ControllersFrame DEF Attempts
<1>2. ASSUME NEW n \in Names, PreviewStarts(n) PROVE ThingsFit' /\ \A m \in Names : Succeeds(m)
  BY <1>1, <1>2, StateFits DEF PreviewStarts, ThingStates, StatesOf, Exists
<1>3. ASSUME NEW n \in Names, JobEnds(n) PROVE ThingsFit' /\ \A m \in Names : Succeeds(m)
  <2>1. PICK state \in {"succeeded", "failed"} :
          things' = [things EXCEPT
                      ![n].state = state,
                      ![Workspace].state = IF n.step = "fetch" /\ state = "succeeded"
                                           THEN "filled" ELSE @]
    BY <1>3 DEF JobEnds
  <2>2. n.kind = "Job" /\ n # Workspace /\ things[n].state = "running"
    BY <1>3, NamesByKind, KindsOf DEF JobEnds, ThingsFit, ThingFits, StatesOf
  <2>. DEFINE full == IF n.step = "fetch" /\ state = "succeeded" THEN "filled" ELSE things[Workspace].state
              t == [things[n] EXCEPT !.state = state]
              w == [things[Workspace] EXCEPT !.state = full]
  <2>3. things[n] \in Thing /\ things[Workspace] \in Thing /\ Workspace \in Names
    BY NamesOf DEF ThingsFit
  <2>4. things' = [things EXCEPT ![n] = t, ![Workspace] = w]
    BY <2>1, <2>2, <2>3 DEF ThingsFit
  <2>5. full \in {"absent", "there", "filled"}
    BY <2>3, KindsOf DEF ThingsFit, ThingFits, StatesOf
  <2>. HIDE DEF full
  <2>6. /\ t \in Thing /\ t.state = state /\ t.uid = things[n].uid /\ t.of = things[n].of
        /\ w \in Thing /\ w.state = full /\ w.uid = things[Workspace].uid /\ w.of = things[Workspace].of
    BY <2>3, <2>5 DEF Thing, ThingStates
  <2>. HIDE DEF t, w
  <2>7. ThingFits(n, t) /\ ThingFits(Workspace, w)
    BY <2>2, <2>3, <2>5, <2>6, KindsOf DEF ThingsFit, ThingFits, StatesOf
  <2>8. things'[n] = t /\ things'[Workspace] = w /\ \A m \in Names \ {n, Workspace} : things'[m] = things[m]
    BY <2>2, <2>3, <2>4 DEF ThingsFit
  <2>9. things' \in [Names -> Thing]
    BY <2>3, <2>4, <2>6 DEF ThingsFit
  <2>10. ThingsFit'
    BY <1>1, <2>6, <2>7, <2>8, <2>9 DEF ThingsFit
  <2>11. \A m \in Names : things[m].uid \in Int
    BY DEF ThingsFit, Thing
  <2>12. \A m \in Names : Succeeds(m)
    BY <2>2, <2>6, <2>8, <2>11 DEF Succeeds, Exists
  <2>. QED
    BY <2>10, <2>12
<1>4. CASE NamespaceGoes
  <2>. DEFINE gone == [n \in Names |-> [things[n] EXCEPT !.state = "absent"]]
  <2>1. things' = gone
    BY <1>4 DEF NamespaceGoes
  <2>2. ASSUME NEW n \in Names
        PROVE  /\ gone[n] \in Thing /\ gone[n].state = "absent" /\ gone[n].uid = things[n].uid
               /\ gone[n].of = things[n].of /\ things[n].uid \in Int /\ gone[n].of <= attempt
    <3>1. things[n] \in Thing /\ things[n].of <= attempt
      BY DEF ThingsFit
    <3>. QED
      BY <3>1 DEF Thing, ThingStates
  <2>. HIDE DEF gone
  <2>3. \A n \in Names : ThingFits(n, gone[n])
    BY <2>2, NamesByKind DEF ThingFits, StatesOf
  <2>4. gone \in [Names -> Thing]
    BY <2>2 DEF gone
  <2>. QED
    BY <1>1, <2>1, <2>2, <2>3, <2>4 DEF ThingsFit, Succeeds, Exists
<1>. QED
  BY <1>2, <1>3, <1>4

-----------------------------------------------------------------------------
\* A Job runs once more when an execution of the current attempt creates it.
Runs(e) ==
    /\ At(e, "put") /\ IsCurrent(e) /\ exec[e].seen = 0
    /\ Left(exec[e]) = 1 /\ Step(e) \in JobSteps /\ Head(exec[e].todo) = MyJob(e)
    /\ ~Exists(MyJob(e)) /\ things[Namespace].state = "there"
    /\ things' = [things EXCEPT ![MyJob(e)] = Created(e, MyJob(e))]
    /\ jobsRun' = [jobsRun EXCEPT ![Step(e)] = @ + 1]

LEMMA PutThingRuns ==
    ASSUME NEW e \in Executions, exec[e] \in ExecState, ExecFits(exec[e]), At(e, "put"),
           MayPut(e, Head(exec[e].todo)), PutThing(e, Head(exec[e].todo))
    PROVE  jobsRun' = jobsRun \/ Runs(e)
<1>. DEFINE n == Head(exec[e].todo)
<1>1. exec[e].todo # <<>> /\ exec[e].step \in JobSteps \union {"preview"}
  BY DEF At, ExecFits, Reconciling
<1>2. n = Object(exec[e].attempt, exec[e].step, Len(exec[e].todo)) /\ Len(exec[e].todo) \in 1..4
  BY <1>1, TodoHead DEF ExecFits
<1>3. n.kind = "Job" => Len(exec[e].todo) = 1 /\ exec[e].step \in JobSteps /\ n = MyJob(e)
  BY <1>1, <1>2, KindsOf DEF Object, MyJob, JobSteps
<1>4. n.kind = "Job" => n.step = Step(e) /\ n # Namespace
  BY <1>3, KindsOf DEF MyJob, Step
<1>. HIDE DEF n
<1>5. CASE n.kind = "Job" /\ IsCurrent(e) /\ exec[e].seen = 0
  BY <1>3, <1>4, <1>5 DEF PutThing, MayPut, Runs, Left, Step, n
<1>6. CASE ~(n.kind = "Job" /\ IsCurrent(e) /\ exec[e].seen = 0)
  BY <1>6 DEF PutThing, n
<1>. QED
  BY <1>5, <1>6

LEMMA GoesHistory ==
    ASSUME NEW e \in Executions, exec \in [Executions -> ExecState], ExecFits(exec[e]), Goes(e)
    PROVE  /\ outcomes' = outcomes /\ lateDeaths' = lateDeaths
           /\ jobsRun' = jobsRun \/ Runs(e)
<1>1. exec[e] \in ExecState
  OBVIOUS
<1>2. CASE Put(e)
  BY <1>1, <1>2, PutThingRuns DEF Put
<1>3. CASE CallFails(e)
  BY <1>1, <1>3, PutThingRuns DEF CallFails
<1>. QED
  BY <1>2, <1>3
     DEF DeleteUnanswered, Goes, Get, Note, Wait, Collect, Find, Delete, Unlist, Revoke, Watch,
         NsGet, NsDelete, NsWait, NsMark, NsPending, history

-----------------------------------------------------------------------------
\* The workflow, as far as the executions of the cluster depend on it: whoever holds a lease
\* carries out the step that is running, which is the next one of the plan; a cleanup has
\* begun only after all other steps, and steps that are not looked at stay untouched.
HoldersAreCurrent ==
    \A s \in ClusterSteps :
        owner[s] # NoExecution =>
            /\ ~At(owner[s], "idle") /\ Step(owner[s]) = s /\ exec[owner[s]].attempt = attempt
            /\ book[s] = Running

RunningIsNext ==
    \A s \in ClusterSteps : book[s] = Running => NextStep = [action |-> "run", step |-> s]

CleanupIsLast ==
    book["cleanup"] # Absent =>
        \A s \in StepsOf[attempt] \ {"cleanup"} : book[s].status \in TerminalStepStatuses

OthersAreBlank ==
    \A s \in ClusterSteps \ StepsOf[attempt] : book[s] = Absent /\ jobsRun[s] = 0

WorkflowFits == HoldersAreCurrent /\ RunningIsNext /\ CleanupIsLast /\ OthersAreBlank

Typed ==
    /\ attempt \in Attempts
    /\ book \in [ClusterSteps -> Record]
    /\ owner \in [ClusterSteps -> Executions \union {NoExecution}]
    /\ listed \in [RowKeys -> RowState]
    /\ exec \in [Executions -> ExecState]
    /\ jobsRun \in [ClusterSteps -> Nat] /\ lateDeaths \in [ClusterSteps -> Nat]
    /\ outcomes \in [ClusterSteps -> SUBSET {"succeeded", "failed"}]

Spends == bound \in [Events -> Nat] /\ \A event \in Events : bound[event] <= Bounds[event]

ExecsFit == \A e \in Executions : ExecFits(exec[e]) /\ exec[e].attempt <= attempt

Sound == Typed /\ Spends /\ ThingsFit /\ ExecsFit /\ WorkflowFits

LEMMA ClusterStepsOfPlan ==
    /\ ClusterSteps \subseteq Steps
    /\ \A a \in Attempts : StepsOf[a] \subseteq ClusterSteps
  BY ElevenSteps, StepsOfAssumption DEF ClusterSteps

LEMMA NextStepIsOurs ==
    ASSUME Typed, NextStep.action # "none"
    PROVE  /\ NextStep.action \in {"run", "skip"}
           /\ NextStep.step \in StepsOf[attempt] /\ NextStep.step \in ClusterSteps
           /\ NextStep.step \in Steps
           /\ ~SettledForRetry(NextStep.step, book[NextStep.step].status)
<1>1. NextStep.action \in {"run", "skip"} /\ NextStep.step \in Steps
      /\ ~SettledIn(Records, NextStep.step)
  BY NextStepIsDue, NextStepIsOpen DEF NextStep
<1>2. NextStep.step \in StepsOf[attempt]
  BY <1>1 DEF Records, SettledIn, SettledForRetry, Passed, TerminalStepStatuses
<1>. QED
  BY <1>1, <1>2, ClusterStepsOfPlan DEF Records, SettledIn, Typed

\* While a step runs the plan asks for nothing else, and no two steps run.
LEMMA OneStepRuns ==
    ASSUME RunningIsNext, NEW s \in ClusterSteps, NEW t \in ClusterSteps,
           book[s] = Running, book[t] = Running
    PROVE  s = t
  BY DEF RunningIsNext

LEMMA TerminalIsNotRunning ==
    /\ \A r \in StepResults \union {Skipped} : r.status \in TerminalStepStatuses /\ r \in Record
    /\ \A r \in StepResults \union {Skipped, Absent} : r # Running
    /\ Running \in Record /\ Absent \in Record /\ Running.status \notin TerminalStepStatuses
    /\ Running # Absent /\ Absent.status \notin TerminalStepStatuses
  BY DEF StepResults, Skipped, Absent, Running, Passed, AppFailure, HardFailed, Incomplete,
         TerminalStepStatuses, Record, StepStatuses, FailureKinds

LEMMA BeginWorkflow ==
    ASSUME Sound, Begin
    PROVE  /\ WorkflowFits'
           /\ attempt' = attempt /\ jobsRun' = jobsRun
           /\ book' \in [ClusterSteps -> Record]
           /\ owner' \in [ClusterSteps -> Executions \union {NoExecution}]
           /\ \E e \in Executions, y \in ExecState :
                /\ At(e, "idle") /\ exec' = [exec EXCEPT ![e] = y]
                /\ ExecFits(y) /\ y.attempt = attempt /\ y.step = NextStep.step /\ y.at = Opening(y.step)
                /\ y.token = 0 /\ y.gone = FALSE /\ y.seen = 0
                /\ y.step \in ClusterSteps /\ y.step \in StepsOf[attempt]
                /\ owner' = [owner EXCEPT ![y.step] = e]
                /\ book' = [book EXCEPT ![y.step] = Running]
<1>. DEFINE s == NextStep.step
            e == CHOOSE f \in Executions : At(f, "idle")
            y == [Idle EXCEPT !.at = Opening(s), !.attempt = attempt, !.step = s,
                              !.todo = Plan(attempt, s)]
<1>1. /\ NextStep.action = "run" /\ s \in StepsOf[attempt] /\ s \in ClusterSteps /\ s \in Steps
      /\ ~SettledForRetry(s, book[s].status)
  BY NextStepIsOurs DEF Begin, Sound
<1>2. e \in Executions /\ At(e, "idle")
  BY DEF Begin
<1>3. /\ owner[s] = NoExecution
      /\ book' = [book EXCEPT ![s] = Running] /\ owner' = [owner EXCEPT ![s] = e]
      /\ exec' = [exec EXCEPT ![e] = y]
      /\ attempt' = attempt /\ jobsRun' = jobsRun
  BY DEF Begin, history
<1>. HIDE DEF e
<1>4. attempt \in Attempts
  BY DEF Sound, Typed
<1>5. \A z : z.todo = Plan(attempt, s) /\ z.attempt = attempt /\ z.step = s =>
        /\ z.todo \in Seq(Names) /\ TodoFits(z)
        /\ s \in JobSteps \union {"preview"} => Len(z.todo) \in {3, 4}
        /\ s \notin JobSteps \union {"preview"} => z.todo = <<>>
  BY <1>1, <1>4, PlansOf
<1>6. /\ y.todo = Plan(attempt, s) /\ y.attempt = attempt /\ y.step = s /\ y.at = Opening(s)
      /\ y.token = 0 /\ y.gone = FALSE /\ y.seen = 0
  BY DEF Idle
<1>7. Opening(s) = (CASE s = "health" -> "watch" [] s = "cleanup" -> "nsGet" [] OTHER -> "get")
  BY DEF Opening
<1>8. Opening(s) \in Places
  BY <1>7 DEF Places
<1>9. Plan(attempt, s) \in Seq(Names)
  BY <1>5, <1>6
<1>10. y \in ExecState
  BY <1>1, <1>4, <1>8, <1>9 DEF ExecState, Idle, StepResults
<1>. HIDE DEF y
<1>11. /\ TodoFits(y)
       /\ s \in JobSteps \union {"preview"} => Len(y.todo) \in {3, 4}
       /\ s \notin JobSteps \union {"preview"} => y.todo = <<>>
  BY <1>5, <1>6
<1>12. s \in JobSteps \union {"preview"} => y.todo # <<>> /\ Left(y) # 2
  <2>1. ASSUME s \in JobSteps \union {"preview"} PROVE y.todo # <<>> /\ Left(y) # 2
    <3>1. Len(y.todo) \in {3, 4}
      BY <1>11, <2>1
    <3>2. Len(y.todo) # 0 /\ Len(y.todo) # 2
      BY <3>1
    <3>. QED
      BY <3>2 DEF Left
  <2>. QED
    BY <2>1
<1>13. ExecFits(y)
  BY <1>1, <1>6, <1>7, <1>11, <1>12
     DEF ExecFits, ClusterSteps, JobSteps, Reconciling, JobPlaces, NsPlaces
<1>14. book \in [ClusterSteps -> Record] /\ owner \in [ClusterSteps -> Executions \union {NoExecution}]
       /\ exec \in [Executions -> ExecState]
  BY DEF Sound, Typed
<1>15. book' \in [ClusterSteps -> Record] /\ owner' \in [ClusterSteps -> Executions \union {NoExecution}]
  BY <1>1, <1>2, <1>3, <1>14, TerminalIsNotRunning
<1>16. \A t \in ClusterSteps : book[t] = Running => t = s
  BY DEF Sound, WorkflowFits, RunningIsNext
<1>17. HoldersAreCurrent'
  <2>1. \A t \in ClusterSteps : owner'[t] # NoExecution => t = s
    BY <1>3, <1>14, <1>16 DEF Sound, WorkflowFits, HoldersAreCurrent
  <2>2. owner'[s] = e /\ book'[s] = Running /\ exec'[e] = y
    BY <1>1, <1>2, <1>3, <1>14
  <2>3. y.at # "idle"
    BY <1>6, <1>7
  <2>. QED
    BY <1>3, <1>6, <2>1, <2>2, <2>3 DEF HoldersAreCurrent, At, Step
<1>18. s = "cleanup" => \A t \in StepsOf[attempt] \ {"cleanup"} : book[t].status \in TerminalStepStatuses
  <2>1. SUFFICES ASSUME s = "cleanup", book["cleanup"] = Absent
                 PROVE  \A t \in StepsOf[attempt] \ {"cleanup"} : book[t].status \in TerminalStepStatuses
    BY DEF Sound, WorkflowFits, CleanupIsLast
  <2>2. Records["cleanup"] = Absent
    BY <1>1, <2>1, StepsBeforeCleanup DEF Records
  <2>3. \A t \in StepsBefore("cleanup") : SettledIn(Records, t)
    BY <1>1, <2>1, <2>2, NextStepIsDue DEF NextStep, Absent
  <2>. QED
    BY <1>4, <2>3, StepsBeforeCleanup, ClusterStepsOfPlan DEF SettledIn, SettledForRetry, Records
<1>19. RunningIsNext'
  <2>. DEFINE new == [t \in Steps |-> IF t = s THEN Running ELSE Records[t]]
  <2>1. Records' = new
    BY <1>1, <1>3, <1>4, <1>14, ClusterStepsOfPlan DEF Records
  <2>2. s = "cleanup" => \A t \in StepsBefore(s) : SettledIn(Records, t)
    <3>1. \A t \in Steps \ {"cleanup"} : s = "cleanup" => SettledIn(Records, t)
      BY <1>18 DEF SettledIn, SettledForRetry, Records, Passed, TerminalStepStatuses
    <3>. QED
      BY <3>1, StepsBeforeCleanup
  <2>3. NextStepAction(Records) = [action |-> "run", step |-> s]
    <3>1. NextStepAction(Records).action = "run" /\ NextStepAction(Records).step = s
      BY <1>1 DEF NextStep
    <3>2. NextStepAction(Records) = [action |-> NextStepAction(Records).action,
                                     step |-> NextStepAction(Records).step]
      BY DEF NextStepAction, NoAction
    <3>. QED
      BY <3>1, <3>2
  <2>. HIDE DEF new, s
  <2>4. NextStepAction(new) = [action |-> "run", step |-> s]
    BY <1>1, <2>2, <2>3, RunningStepStays DEF new, Running
  <2>5. NextStep' = [action |-> "run", step |-> s]
    BY <2>1, <2>4 DEF NextStep
  <2>6. \A t \in ClusterSteps : book'[t] = Running => t = s
    BY <1>1, <1>3, <1>14, <1>16
  <2>. QED
    BY <2>5, <2>6 DEF RunningIsNext
<1>20. CleanupIsLast'
  <2>1. CASE s = "cleanup"
    BY <1>3, <1>14, <1>18, <2>1, <1>4, ClusterStepsOfPlan DEF CleanupIsLast
  <2>2. CASE s # "cleanup"
    <3>1. book["cleanup"] = Absent
      <4>1. book[s].status \notin TerminalStepStatuses
        BY <1>1, <2>2 DEF SettledForRetry
      <4>. QED
        BY <1>1, <2>2, <4>1 DEF Sound, WorkflowFits, CleanupIsLast
    <3>2. book'["cleanup"] = Absent
      BY <1>3, <1>14, <2>2, <3>1 DEF ClusterSteps
    <3>. QED
      BY <3>2 DEF CleanupIsLast
  <2>. QED
    BY <2>1, <2>2
<1>21. OthersAreBlank'
  BY <1>1, <1>3, <1>14 DEF OthersAreBlank, Sound, WorkflowFits
<1>. QED
  BY <1>1, <1>2, <1>3, <1>6, <1>10, <1>13, <1>15, <1>17, <1>19, <1>20, <1>21 DEF WorkflowFits

LEMMA SkipWorkflow ==
    ASSUME Sound, Skip
    PROVE  /\ WorkflowFits' /\ book' \in [ClusterSteps -> Record]
           /\ attempt' = attempt /\ owner' = owner /\ exec' = exec
           /\ \E s \in StepsOf[attempt] \ {"cleanup"} :
                /\ ~SettledForRetry(s, book[s].status)
                /\ book' = [book EXCEPT ![s] = Skipped]
           /\ \A s \in ClusterSteps : book[s] # Running
<1>. DEFINE s == NextStep.step
<1>1. /\ NextStep.action = "skip" /\ s \in StepsOf[attempt] /\ s \in ClusterSteps /\ s \in Steps
      /\ ~SettledForRetry(s, book[s].status) /\ s # "cleanup"
  BY NextStepIsOurs, NextStepIsDue DEF Skip, Sound, NextStep
<1>2. /\ book' = [book EXCEPT ![s] = Skipped] /\ owner' = owner /\ exec' = exec /\ attempt' = attempt
      /\ jobsRun' = jobsRun
  BY DEF Skip, history
<1>3. book \in [ClusterSteps -> Record] /\ attempt \in Attempts
  BY DEF Sound, Typed
<1>4. book' \in [ClusterSteps -> Record]
  BY <1>1, <1>2, <1>3, TerminalIsNotRunning
<1>5. \A t \in ClusterSteps : book[t] # Running
  BY <1>1 DEF Sound, WorkflowFits, RunningIsNext
<1>. HIDE DEF s
<1>6. \A t \in ClusterSteps : book'[t] # Running
  BY <1>1, <1>2, <1>3, <1>5, TerminalIsNotRunning
<1>7. HoldersAreCurrent' /\ RunningIsNext'
  BY <1>2, <1>5, <1>6 DEF Sound, WorkflowFits, HoldersAreCurrent, RunningIsNext
<1>8. CleanupIsLast'
  BY <1>1, <1>2, <1>3, TerminalIsNotRunning, ClusterStepsOfPlan
     DEF Sound, WorkflowFits, CleanupIsLast, ClusterSteps
<1>9. OthersAreBlank'
  BY <1>1, <1>2, <1>3 DEF Sound, WorkflowFits, OthersAreBlank
<1>. QED
  BY <1>1, <1>2, <1>4, <1>5, <1>7, <1>8, <1>9 DEF WorkflowFits

LEMMA RetryWorkflow ==
    ASSUME Sound, Retry
    PROVE  /\ WorkflowFits' /\ Typed' /\ attempt' = attempt + 1 /\ exec' = exec
           /\ \A s \in ClusterSteps : owner[s] = NoExecution
<1>1. /\ attempt' = attempt + 1 /\ attempt < MaxAttempt /\ exec' = exec /\ owner' = owner
      /\ listed' = listed
      /\ book' = [s \in ClusterSteps |-> Absent] /\ jobsRun' = [s \in ClusterSteps |-> 0]
      /\ lateDeaths' = [s \in ClusterSteps |-> 0] /\ outcomes' = [s \in ClusterSteps |-> {}]
      /\ \A s \in StepsOf[attempt] : book[s].status \in TerminalStepStatuses
  BY DEF Retry
<1>2. \A s \in ClusterSteps : book[s] # Running
  BY <1>1, TerminalIsNotRunning DEF Sound, WorkflowFits, OthersAreBlank
<1>3. \A s \in ClusterSteps : owner[s] = NoExecution
  BY <1>2 DEF Sound, WorkflowFits, HoldersAreCurrent
<1>4. HoldersAreCurrent'
  BY <1>1, <1>3 DEF HoldersAreCurrent
<1>5. RunningIsNext' /\ CleanupIsLast' /\ OthersAreBlank'
  BY <1>1, TerminalIsNotRunning DEF RunningIsNext, CleanupIsLast, OthersAreBlank, ClusterSteps
<1>6. attempt' \in Attempts
  BY <1>1, ClusterAssumption DEF Sound, Typed, Attempts
<1>7. Typed'
  BY <1>1, <1>6, TerminalIsNotRunning DEF Sound, Typed
<1>. QED
  BY <1>1, <1>3, <1>4, <1>5, <1>7 DEF WorkflowFits

\* A step that holds no lease is nobody's, and at most one step is somebody's.
LEMMA HolderHolds ==
    ASSUME Sound, NEW e \in Executions, NEW s \in ClusterSteps, owner[s] = e
    PROVE  /\ Holds(e) /\ Step(e) = s /\ book[s] = Running
           /\ \A t \in ClusterSteps \ {s} : owner[t] = NoExecution /\ book[t] # Running
<1>1. owner[s] # NoExecution
  BY ClusterAssumption
<1>2. Step(e) = s /\ exec[e].attempt = attempt /\ book[s] = Running
  BY <1>1 DEF Sound, WorkflowFits, HoldersAreCurrent
<1>3. \A t \in ClusterSteps : book[t] = Running => t = s
  BY <1>2, OneStepRuns DEF Sound, WorkflowFits
<1>. QED
  BY <1>2, <1>3 DEF Holds, IsCurrent, Sound, WorkflowFits, HoldersAreCurrent

LEMMA EndWorkflow ==
    ASSUME Sound, NEW e \in Executions, Return(e) \/ Crash(e)
    PROVE  /\ WorkflowFits' /\ book' \in [ClusterSteps -> Record]
           /\ owner' \in [ClusterSteps -> Executions \union {NoExecution}]
           /\ attempt' = attempt /\ exec' = [exec EXCEPT ![e] = Idle]
<1>1. attempt' = attempt /\ exec' = [exec EXCEPT ![e] = Idle] /\ jobsRun' = jobsRun
  BY DEF Return, Crash, history
<1>2. /\ exec[e] \in ExecState /\ exec \in [Executions -> ExecState] /\ attempt \in Attempts
      /\ book \in [ClusterSteps -> Record]
      /\ owner \in [ClusterSteps -> Executions \union {NoExecution}]
  BY DEF Sound, Typed
<1>3. Step(e) \in ClusterSteps /\ exec[e].result \in StepResults
  BY <1>2 DEF Step, ExecState
<1>4. CASE ~Holds(e)
  <2>1. book' = book /\ owner' = owner
    BY <1>4 DEF Return, Crash
  <2>2. \A s \in ClusterSteps : owner[s] # e
    BY <1>4, HolderHolds
  <2>3. HoldersAreCurrent'
    BY <1>1, <1>2, <2>1, <2>2 DEF Sound, WorkflowFits, HoldersAreCurrent, At, Step
  <2>4. RunningIsNext' /\ CleanupIsLast' /\ OthersAreBlank'
    BY <1>1, <2>1 DEF Sound, WorkflowFits, RunningIsNext, CleanupIsLast, OthersAreBlank,
       NextStep, Records
  <2>. QED
    BY <1>1, <1>2, <2>1, <2>3, <2>4 DEF WorkflowFits
<1>5. CASE Holds(e)
  <2>. DEFINE s == Step(e)
  <2>1. owner[s] = e /\ owner' = [owner EXCEPT ![s] = NoExecution]
        /\ (book' = [book EXCEPT ![s] = exec[e].result] \/ book' = book)
    BY <1>5 DEF Return, Crash, Holds
  <2>2. /\ book[s] = Running /\ s \in StepsOf[attempt]
        /\ \A t \in ClusterSteps \ {s} : owner[t] = NoExecution /\ book[t] # Running
    BY <1>3, <2>1, HolderHolds, TerminalIsNotRunning DEF Sound, WorkflowFits, OthersAreBlank
  <2>. HIDE DEF s
  <2>3. s \in ClusterSteps
    BY <1>3 DEF s
  <2>4. HoldersAreCurrent'
    BY <1>2, <2>1, <2>2, <2>3 DEF HoldersAreCurrent
  <2>5. CASE book' = book
    <3>1. RunningIsNext' /\ CleanupIsLast' /\ OthersAreBlank'
      BY <1>1, <2>5 DEF Sound, WorkflowFits, RunningIsNext, CleanupIsLast, OthersAreBlank,
         NextStep, Records
    <3>. QED
      BY <1>1, <1>2, <2>1, <2>3, <2>4, <2>5, <3>1 DEF WorkflowFits
  <2>6. CASE book' = [book EXCEPT ![s] = exec[e].result]
    <3>1. \A t \in ClusterSteps : book'[t] # Running
      BY <1>2, <1>3, <2>2, <2>3, <2>6, TerminalIsNotRunning
    <3>2. RunningIsNext'
      BY <3>1 DEF RunningIsNext
    <3>3. CleanupIsLast'
      <4>1. CASE s = "cleanup"
        <5>1. \A t \in StepsOf[attempt] \ {"cleanup"} : book[t].status \in TerminalStepStatuses
          BY <2>2, <4>1, TerminalIsNotRunning DEF Sound, WorkflowFits, CleanupIsLast
        <5>. QED
          BY <1>1, <1>2, <2>6, <4>1, <5>1, ClusterStepsOfPlan DEF CleanupIsLast
      <4>2. CASE s # "cleanup"
        <5>1. book["cleanup"] = Absent
          BY <2>2, <4>2, TerminalIsNotRunning DEF Sound, WorkflowFits, CleanupIsLast
        <5>. QED
          BY <1>2, <2>6, <4>2, <5>1 DEF CleanupIsLast, ClusterSteps
      <4>. QED
        BY <4>1, <4>2
    <3>4. OthersAreBlank'
      BY <1>1, <1>2, <2>2, <2>6 DEF Sound, WorkflowFits, OthersAreBlank
    <3>5. book' \in [ClusterSteps -> Record]
      BY <1>2, <1>3, <2>3, <2>6, TerminalIsNotRunning
    <3>. QED
      BY <1>1, <1>2, <2>1, <2>3, <2>4, <3>2, <3>3, <3>4, <3>5 DEF WorkflowFits
  <2>. QED
    BY <2>1, <2>5, <2>6
<1>. QED
  BY <1>4, <1>5

LEMMA LeaseLostWorkflow ==
    ASSUME Sound, NEW e \in Executions, LeaseLost(e)
    PROVE  /\ WorkflowFits' /\ owner' \in [ClusterSteps -> Executions \union {NoExecution}]
<1>1. /\ attempt' = attempt /\ book' = book /\ exec' = exec /\ jobsRun' = jobsRun
      /\ owner' = [owner EXCEPT ![Step(e)] = NoExecution]
  BY DEF LeaseLost, history
<1>2. owner \in [ClusterSteps -> Executions \union {NoExecution}]
  BY DEF Sound, Typed
<1>3. HoldersAreCurrent'
  BY <1>1, <1>2 DEF Sound, WorkflowFits, HoldersAreCurrent, At, Step
<1>4. RunningIsNext' /\ CleanupIsLast' /\ OthersAreBlank'
  BY <1>1 DEF Sound, WorkflowFits, RunningIsNext, CleanupIsLast, OthersAreBlank,
     NextStep, Records
<1>. QED
  BY <1>1, <1>2, <1>3, <1>4 DEF WorkflowFits

LEMMA GoesWorkflow ==
    ASSUME Sound, NEW e \in Executions, Goes(e)
    PROVE  WorkflowFits'
<1>1. /\ attempt' = attempt /\ book' = book /\ owner' = owner
  BY GoesFrame
<1>2. /\ exec \in [Executions -> ExecState] /\ ExecFits(exec[e]) /\ things \in [Names -> Thing]
      /\ jobsRun \in [ClusterSteps -> Nat] /\ exec[e] \in ExecState
  BY DEF Sound, Typed, ThingsFit, ExecsFit
<1>3. Moved(e) /\ ~At(e, "idle")
  BY <1>2, GoesMoves
<1>4. HoldersAreCurrent'
  <2>1. \A f \in Executions : /\ exec'[f].step = exec[f].step /\ exec'[f].attempt = exec[f].attempt
                              /\ exec[f].at # "idle" => exec'[f].at # "idle"
    BY <1>2, <1>3 DEF Moved
  <2>2. owner \in [ClusterSteps -> Executions \union {NoExecution}]
    BY DEF Sound, Typed
  <2>. QED
    BY <1>1, <2>1, <2>2 DEF Sound, WorkflowFits, HoldersAreCurrent, At, Step
<1>5. RunningIsNext' /\ CleanupIsLast'
  BY <1>1 DEF Sound, WorkflowFits, RunningIsNext, CleanupIsLast, NextStep, Records
<1>6. OthersAreBlank'
  <2>1. Runs(e) => Step(e) \in StepsOf[attempt]
    BY <1>2, <1>3 DEF Runs, IsCurrent, ExecFits, At, Step
  <2>2. jobsRun' = jobsRun \/ (Runs(e) /\ jobsRun' = [jobsRun EXCEPT ![Step(e)] = @ + 1])
    BY <1>2, GoesHistory DEF Runs
  <2>. QED
    BY <1>1, <1>2, <2>1, <2>2 DEF Sound, WorkflowFits, OthersAreBlank
<1>. QED
  BY <1>4, <1>5, <1>6 DEF WorkflowFits

-----------------------------------------------------------------------------
\* What is spent of a bound stays spent.
LEMMA SpendSpends ==
    ASSUME Spends, NEW event \in Events, Spend(event)
    PROVE  /\ Spends' /\ bound'[event] < bound[event]
           /\ \A other \in Events : bound'[other] <= bound[other]
           /\ \A other \in Events \ {event} : bound'[other] = bound[other]
<1>1. bound \in [Events -> Nat] /\ bound[event] > 0 /\ bound' = [bound EXCEPT ![event] = @ - 1]
  BY DEF Spends, Spend
<1>2. Bounds \in [Events -> Nat]
  BY ClusterAssumption
<1>3. bound'[event] = bound[event] - 1 /\ \A other \in Events \ {event} : bound'[other] = bound[other]
  BY <1>1
<1>4. bound' \in [Events -> Nat]
  BY <1>1
<1>5. \A other \in Events : bound'[other] <= bound[other]
  BY <1>1, <1>3
<1>6. bound'[event] < bound[event]
  BY <1>1, <1>3
<1>7. \A other \in Events : bound'[other] <= Bounds[other]
  BY <1>1, <1>2, <1>4, <1>5 DEF Spends
<1>. QED
  BY <1>3, <1>4, <1>5, <1>6, <1>7 DEF Spends

LEMMA BoundStep ==
    ASSUME Spends, Next
    PROVE  Spends' /\ \A event \in Events : bound'[event] <= bound[event]
<1>1. CASE bound' = bound
  BY <1>1 DEF Spends
<1>2. ASSUME NEW e \in Executions, NsPending(e) \/ CallFails(e) \/ DeleteUnanswered(e) \/ Crash(e) \/ LeaseLost(e)
      PROVE  Spends' /\ \A event \in Events : bound'[event] <= bound[event]
  <2>1. Spend("failure") \/ Spend("crash") \/ Spend("overlap")
    BY <1>2 DEF NsPending, CallFails, DeleteUnanswered, Crash, LeaseLost
  <2>. QED
    BY <2>1, SpendSpends DEF Events
<1>3. ASSUME NEW e \in Executions, Works(e) PROVE bound' = bound
  BY <1>3 DEF Works, Get, Put, Note, Wait, Collect, Find, Delete, Unlist, Revoke, Watch,
     NsGet, NsDelete, NsWait, NsMark, Return
<1>4. ASSUME Begin \/ Skip \/ Retry PROVE bound' = bound
  BY <1>4 DEF Begin, Skip, Retry
<1>. QED
  BY <1>1, <1>2, <1>3, <1>4, ControllersFrame DEF Next

\* The rows of k8s_resources.
LEMMA RowsOf ==
    /\ \A a \in Attempts : Secret(a) \in RowKeys /\ Row(Namespace, a) \in RowKeys
    /\ \A a \in Attempts : \A s \in JobSteps : Job(a, s) \in RowKeys
  BY NamesOf, KindsOf DEF RowKeys

LEMMA UpsertTyped ==
    ASSUME listed \in [RowKeys -> RowState], NEW key, NEW uid \in Nat, Upsert(key, uid)
    PROVE  listed' \in [RowKeys -> RowState]
  BY DEF Upsert, RowState

LEMMA MarkTyped ==
    ASSUME listed \in [RowKeys -> RowState], NEW key \in RowKeys, NEW uid, MarkDeleted(key, uid)
    PROVE  listed' \in [RowKeys -> RowState]
<1>. DEFINE r == [listed[key] EXCEPT !.deleted = TRUE]
<1>1. r \in RowState
  BY DEF RowState
<1>2. listed' = listed \/ listed' = [listed EXCEPT ![key] = r]
  BY DEF MarkDeleted
<1>. QED
  BY <1>1, <1>2

\* Which steps touch the rows.
LEMMA GoesRows ==
    ASSUME NEW e \in Executions, Goes(e)
    PROVE  \/ listed' = listed
           \/ Note(e) /\ Upsert(Row(Head(exec[e].todo), exec[e].attempt), exec[e].seen)
           \/ Collect(e) /\ Upsert(MyJob(e), exec[e].seen)
           \/ Unlist(e) /\ MarkDeleted(MyJob(e), exec[e].seen)
           \/ Revoke(e) /\ MarkDeleted(Secret(exec[e].attempt), exec[e].token)
                /\ things' = [things EXCEPT ![Secret(exec[e].attempt)].state = "absent"]
           \/ NsMark(e) /\ MarkDeleted(Row(Namespace, exec[e].attempt), exec[e].seen)
  BY DEF Goes, Get, Put, Note, Wait, Collect, Find, Delete, Unlist, Revoke, Watch,
     NsGet, NsDelete, NsWait, NsMark, NsPending, CallFails, DeleteUnanswered

LEMMA MyJobNamed ==
    ASSUME NEW e \in Executions, exec[e] \in ExecState, ExecFits(exec[e]), exec[e].at \in JobPlaces
    PROVE  MyJob(e) \in Names /\ MyJob(e) \in RowKeys /\ Step(e) \in JobSteps
           /\ exec[e].attempt \in Attempts
  BY NamesOf, RowsOf DEF ExecFits, MyJob, ExecState, Step

LEMMA RowsTyped ==
    ASSUME Sound, Next
    PROVE  listed' \in [RowKeys -> RowState]
<1>1. listed \in [RowKeys -> RowState] /\ exec \in [Executions -> ExecState]
  BY DEF Sound, Typed
<1>2. CASE listed' = listed
  BY <1>1, <1>2
<1>3. ASSUME NEW e \in Executions, Goes(e) PROVE listed' \in [RowKeys -> RowState]
  <2>1. exec[e] \in ExecState /\ ExecFits(exec[e]) /\ exec[e].seen \in Nat /\ exec[e].attempt \in Attempts
    BY <1>1 DEF Sound, ExecsFit, ExecState
  <2>2. Unlist(e) => MyJob(e) \in RowKeys
    BY <2>1, MyJobNamed DEF Unlist, At, JobPlaces
  <2>3. Secret(exec[e].attempt) \in RowKeys /\ Row(Namespace, exec[e].attempt) \in RowKeys
    BY <2>1, RowsOf
  <2>. QED
    BY <1>1, <1>3, <2>1, <2>2, <2>3, GoesRows, UpsertTyped, MarkTyped
<1>4. ASSUME NEW e \in Executions, Return(e) \/ Crash(e) \/ LeaseLost(e) PROVE listed' = listed
  BY <1>4 DEF Return, Crash, LeaseLost
<1>5. ASSUME Begin \/ Skip \/ Retry PROVE listed' = listed
  BY <1>5 DEF Begin, Skip, Retry
<1>. QED
  BY <1>2, <1>3, <1>4, <1>5, ControllersFrame, NextIs

LEMMA HistoryTyped ==
    ASSUME Sound, Next, ~Retry
    PROVE  /\ jobsRun' \in [ClusterSteps -> Nat] /\ lateDeaths' \in [ClusterSteps -> Nat]
           /\ outcomes' \in [ClusterSteps -> SUBSET {"succeeded", "failed"}]
<1>1. /\ jobsRun \in [ClusterSteps -> Nat] /\ lateDeaths \in [ClusterSteps -> Nat]
      /\ outcomes \in [ClusterSteps -> SUBSET {"succeeded", "failed"}]
      /\ exec \in [Executions -> ExecState]
  BY DEF Sound, Typed
<1>2. ASSUME NEW e \in Executions, Goes(e)
      PROVE  /\ jobsRun' \in [ClusterSteps -> Nat] /\ lateDeaths' \in [ClusterSteps -> Nat]
             /\ outcomes' \in [ClusterSteps -> SUBSET {"succeeded", "failed"}]
  <2>1. ExecFits(exec[e])
    BY DEF Sound, ExecsFit
  <2>2. jobsRun' = jobsRun \/ jobsRun' = [jobsRun EXCEPT ![Step(e)] = @ + 1]
    BY <1>1, <1>2, <2>1, GoesHistory DEF Runs
  <2>3. outcomes' = outcomes /\ lateDeaths' = lateDeaths
    BY <1>1, <1>2, <2>1, GoesHistory
  <2>. QED
    BY <1>1, <2>2, <2>3
<1>3. ASSUME NEW e \in Executions, Return(e) \/ LeaseLost(e) PROVE UNCHANGED history
  BY <1>3 DEF Return, LeaseLost
<1>4. ASSUME NEW e \in Executions, Crash(e)
      PROVE  /\ jobsRun' = jobsRun /\ outcomes' = outcomes
             /\ lateDeaths' = lateDeaths \/ lateDeaths' = [lateDeaths EXCEPT ![Step(e)] = @ + 1]
  BY <1>4 DEF Crash
<1>5. ASSUME Begin \/ Skip PROVE UNCHANGED history
  BY <1>5 DEF Begin, Skip
<1>6. ASSUME NEW n \in Names, JobEnds(n)
      PROVE  outcomes' \in [ClusterSteps -> SUBSET {"succeeded", "failed"}]
  <2>1. PICK state \in {"succeeded", "failed"} :
          outcomes' = IF n.attempt = attempt
                      THEN [outcomes EXCEPT ![n.step] = @ \union {state}] ELSE outcomes
    BY <1>6 DEF JobEnds
  <2>. QED
    BY <1>1, <2>1
<1>7. ASSUME NEW n \in Names, PreviewStarts(n) PROVE outcomes' = outcomes
  BY <1>7 DEF PreviewStarts, history
<1>8. ASSUME NamespaceGoes PROVE outcomes' = outcomes
  BY <1>8 DEF NamespaceGoes, history
<1>. QED
  BY <1>1, <1>2, <1>3, <1>4, <1>5, <1>6, <1>7, <1>8, ControllersFrame, NextIs DEF history

-----------------------------------------------------------------------------
\* An execution that has not begun is where it should be.
LEMMA IdleFits == Idle \in ExecState /\ ExecFits(Idle)
<1>1. Idle \in ExecState
  BY ClusterAssumption DEF Idle, ExecState, Places, Attempts, ClusterSteps, StepResults
<1>2. Len(Idle.todo) = 0 /\ TodoFits(Idle)
  BY DEF Idle, TodoFits
<1>. QED
  BY <1>1, <1>2 DEF ExecFits, Idle, Reconciling, JobPlaces, NsPlaces

\* How a step changes the executions: one of them moves on, ends or begins, or none does.
LEMMA ExecsStep ==
    ASSUME Sound, Next
    PROVE  /\ exec' \in [Executions -> ExecState]
           /\ \A e \in Executions : ExecFits(exec'[e]) /\ exec'[e].attempt <= attempt'
<1>1. exec \in [Executions -> ExecState] /\ attempt \in Attempts /\ things \in [Names -> Thing]
      /\ \A e \in Executions : ExecFits(exec[e]) /\ exec[e].attempt <= attempt
  BY DEF Sound, Typed, ExecsFit, ThingsFit
<1>2. attempt \in Nat /\ attempt >= 1 /\ \A e \in Executions : exec[e].attempt \in Int
  BY <1>1, ClusterAssumption DEF Attempts, ExecState
<1>3. ASSUME NEW e \in Executions, Goes(e)
      PROVE  /\ exec' \in [Executions -> ExecState]
             /\ \A f \in Executions : ExecFits(exec'[f]) /\ exec'[f].attempt <= attempt'
  BY <1>1, <1>3, GoesMoves, GoesFrame DEF Moved
<1>4. ASSUME NEW e \in Executions, Return(e) \/ Crash(e)
      PROVE  /\ exec' \in [Executions -> ExecState]
             /\ \A f \in Executions : ExecFits(exec'[f]) /\ exec'[f].attempt <= attempt'
  <2>1. attempt' = attempt /\ exec' = [exec EXCEPT ![e] = Idle] /\ Idle.attempt = 1
    BY <1>4, EndWorkflow DEF Idle
  <2>. QED
    BY <1>1, <1>2, <2>1, IdleFits
<1>5. ASSUME exec' = exec, attempt' \in Nat, attempt <= attempt'
      PROVE  /\ exec' \in [Executions -> ExecState]
             /\ \A f \in Executions : ExecFits(exec'[f]) /\ exec'[f].attempt <= attempt'
  BY <1>1, <1>2, <1>5
<1>6. ASSUME NEW e \in Executions, LeaseLost(e) PROVE exec' = exec /\ attempt' = attempt
  BY <1>6 DEF LeaseLost
<1>7. ASSUME Begin
      PROVE  /\ exec' \in [Executions -> ExecState]
             /\ \A f \in Executions : ExecFits(exec'[f]) /\ exec'[f].attempt <= attempt'
  <2>1. PICK e \in Executions, y \in ExecState :
          exec' = [exec EXCEPT ![e] = y] /\ ExecFits(y) /\ y.attempt = attempt
    BY <1>7, BeginWorkflow
  <2>2. attempt' = attempt
    BY <1>7, BeginWorkflow
  <2>. QED
    BY <1>1, <1>2, <2>1, <2>2
<1>8. ASSUME Skip \/ Retry PROVE exec' = exec /\ attempt' \in Nat /\ attempt <= attempt'
  BY <1>2, <1>8 DEF Skip, Retry
<1>. QED
  BY <1>2, <1>3, <1>4, <1>5, <1>6, <1>7, <1>8, ControllersFrame, NextIs

LEMMA WorkflowStep ==
    ASSUME Sound, Next
    PROVE  /\ WorkflowFits' /\ attempt' \in Attempts /\ attempt <= attempt'
           /\ book' \in [ClusterSteps -> Record]
           /\ owner' \in [ClusterSteps -> Executions \union {NoExecution}]
<1>1. /\ attempt \in Attempts /\ attempt \in Nat /\ book \in [ClusterSteps -> Record]
      /\ owner \in [ClusterSteps -> Executions \union {NoExecution}]
  BY ClusterAssumption DEF Sound, Typed, Attempts
<1>2. ASSUME NEW e \in Executions, Goes(e)
      PROVE  WorkflowFits' /\ attempt' = attempt /\ book' = book /\ owner' = owner
  BY <1>2, GoesWorkflow, GoesFrame
<1>3. ASSUME NEW e \in Executions, Return(e) \/ Crash(e)
      PROVE  /\ WorkflowFits' /\ attempt' = attempt /\ book' \in [ClusterSteps -> Record]
             /\ owner' \in [ClusterSteps -> Executions \union {NoExecution}]
  BY <1>3, EndWorkflow
<1>4. ASSUME NEW e \in Executions, LeaseLost(e)
      PROVE  /\ WorkflowFits' /\ attempt' = attempt /\ book' = book
             /\ owner' \in [ClusterSteps -> Executions \union {NoExecution}]
  BY <1>4, LeaseLostWorkflow DEF LeaseLost
<1>5. ASSUME Retry
      PROVE  /\ WorkflowFits' /\ attempt' \in Attempts /\ attempt' = attempt + 1
             /\ book' \in [ClusterSteps -> Record]
             /\ owner' \in [ClusterSteps -> Executions \union {NoExecution}]
  BY <1>5, RetryWorkflow DEF Typed
<1>6. ASSUME (\E n \in Names : JobEnds(n) \/ PreviewStarts(n)) \/ NamespaceGoes
      PROVE  WorkflowFits' /\ attempt' = attempt /\ book' = book /\ owner' = owner
  <2>1. /\ attempt' = attempt /\ book' = book /\ owner' = owner /\ exec' = exec /\ jobsRun' = jobsRun
    BY <1>6, ControllersFrame
  <2>. QED
    BY <2>1 DEF Sound, WorkflowFits, HoldersAreCurrent, RunningIsNext, CleanupIsLast,
       OthersAreBlank, NextStep, Records, At, Step
<1>7. ASSUME Begin \/ Skip
      PROVE  /\ WorkflowFits' /\ attempt' = attempt /\ book' \in [ClusterSteps -> Record]
             /\ owner' \in [ClusterSteps -> Executions \union {NoExecution}]
  BY <1>1, <1>7, BeginWorkflow, SkipWorkflow
<1>8. attempt' = attempt \/ attempt' = attempt + 1 => attempt <= attempt'
  BY <1>1
<1>. QED
  BY <1>1, <1>2, <1>3, <1>4, <1>5, <1>6, <1>7, <1>8, NextIs

LEMMA ThingsStep ==
    ASSUME Sound, Next
    PROVE  ThingsFit' /\ \A n \in Names : Succeeds(n)
<1>1. /\ ThingsFit /\ attempt \in Attempts /\ attempt \in Nat /\ attempt' \in Nat
      /\ attempt <= attempt' /\ exec \in [Executions -> ExecState]
      /\ \A e \in Executions : ExecFits(exec[e]) /\ exec[e].attempt <= attempt
  BY WorkflowStep, ClusterAssumption DEF Sound, Typed, Attempts, ExecsFit
<1>2. CASE things' = things
  BY <1>1, <1>2, SameThings
<1>3. ASSUME NEW e \in Executions, Goes(e) PROVE ThingsFit' /\ \A n \in Names : Succeeds(n)
  BY <1>1, <1>3, GoesThings
<1>4. ASSUME NEW e \in Executions, Return(e) \/ Crash(e) \/ LeaseLost(e) PROVE things' = things
  BY <1>4 DEF Return, Crash, LeaseLost
<1>5. ASSUME Begin \/ Skip \/ Retry PROVE things' = things
  BY <1>5 DEF Begin, Skip, Retry
<1>. QED
  BY <1>1, <1>2, <1>3, <1>4, <1>5, ControllersThings, NextIs

LEMMA SoundInit == Init => Sound
<1>. SUFFICES ASSUME Init PROVE Sound
  OBVIOUS
<1>. USE DEF Init
<1>1. 1 \in Attempts /\ 1 \in Nat
  BY ClusterAssumption DEF Attempts
<1>2. Typed
  BY <1>1, IdleFits, TerminalIsNotRunning DEF Typed, RowState
<1>3. Spends
  BY ClusterAssumption DEF Spends
<1>4. ThingsFit
  <2>1. NoThing \in Thing /\ NoThing.state = "absent" /\ NoThing.of = 0
    BY ClusterAssumption DEF NoThing, Thing, ThingStates
  <2>2. \A n \in Names : ThingFits(n, NoThing)
    BY <2>1, NamesByKind DEF ThingFits, StatesOf
  <2>. QED
    BY <1>1, <2>1, <2>2 DEF ThingsFit
<1>5. ExecsFit
  <2>1. Idle.attempt = 1
    BY DEF Idle
  <2>. QED
    BY <1>1, <2>1, IdleFits DEF ExecsFit
<1>6. WorkflowFits
  BY TerminalIsNotRunning
     DEF WorkflowFits, HoldersAreCurrent, RunningIsNext, CleanupIsLast, OthersAreBlank, ClusterSteps
<1>. QED
  BY <1>2, <1>3, <1>4, <1>5, <1>6 DEF Sound

LEMMA SoundStutter == Sound /\ UNCHANGED vars => Sound'
  BY DEF Sound, vars, workflow, history, Typed, Spends, ThingsFit, ExecsFit, WorkflowFits,
     HoldersAreCurrent, RunningIsNext, CleanupIsLast, OthersAreBlank, NextStep, Records, At, Step

LEMMA SoundStep == Sound /\ [Next]_vars => Sound'
<1>. SUFFICES ASSUME Sound, [Next]_vars PROVE Sound'
  OBVIOUS
<1>1. CASE UNCHANGED vars
  BY <1>1, SoundStutter
<1>2. CASE Next
  <2>1. /\ WorkflowFits' /\ attempt' \in Attempts
        /\ book' \in [ClusterSteps -> Record]
        /\ owner' \in [ClusterSteps -> Executions \union {NoExecution}]
    BY <1>2, WorkflowStep
  <2>2. listed' \in [RowKeys -> RowState]
    BY <1>2, RowsTyped
  <2>3. exec' \in [Executions -> ExecState] /\ ExecsFit'
    BY <1>2, ExecsStep DEF ExecsFit
  <2>4. Typed'
    BY <1>2, <2>1, <2>2, <2>3, HistoryTyped, RetryWorkflow DEF Typed
  <2>5. Spends' /\ ThingsFit'
    BY <1>2, BoundStep, ThingsStep DEF Sound
  <2>. QED
    BY <2>1, <2>3, <2>4, <2>5 DEF Sound
<1>. QED
  BY <1>1, <1>2

\* Whatever the bounds and the plans of the attempts, all that is kept has its type, and a
\* lease is held by an execution of its step.
THEOREM TypeCorrect == Spec => []TypeOK
<1>1. Sound => TypeOK
  BY DEF Sound, Typed, Spends, ThingsFit, WorkflowFits, HoldersAreCurrent, TypeOK
<1>. QED
  BY <1>1, SoundInit, SoundStep, PTL DEF Spec

-----------------------------------------------------------------------------
\* The object that an execution has in view: its uid is not older than the one seen, and
\* what was waited for or deleted is not there under that uid any more.
Uid(n) == things[n].uid

Sees(x, n) ==
    \/ x.at \in Reconciling /\ n = Head(x.todo)
    \/ x.at \in {"wait", "collect", "find", "delete", "unlist"} /\ n = Job(x.attempt, x.step)
    \/ x.at \in NsPlaces /\ n = Namespace

SeenFits(x, objects) ==
    \A n \in Names :
        Sees(x, n) =>
            /\ x.seen <= objects[n].uid
            /\ x.at \in {"unlist", "nsMark"} /\ x.seen = objects[n].uid => objects[n].state = "absent"

SeenKnown == \A e \in Executions : SeenFits(exec[e], things)

\* A row names the object as it is or was, and says DELETED of what is gone.
ObjectOf(key) == IF key.kind = "Namespace" THEN Namespace ELSE key

RowFits(key) ==
    /\ listed[key].uid <= Uid(ObjectOf(key))
    /\ listed[key].deleted /\ listed[key].uid = Uid(ObjectOf(key)) => ~Exists(ObjectOf(key))

RowsKnown == \A key \in RowKeys : RowFits(key)

LEMMA ObjectsOfRows ==
    /\ \A key \in RowKeys : ObjectOf(key) \in Names /\ ObjectOf(key) # Workspace
                            /\ key.kind \in {"Namespace", "Secret", "Job"}
    /\ \A a \in Attempts : ObjectOf(Row(Namespace, a)) = Namespace
    /\ \A n \in Names : n.kind \in {"Secret", "Job"} => ObjectOf(n) = n
<1>1. \A a : Row(Namespace, a).kind = "Namespace"
  BY DEF Row, Namespace
<1>2. \A n \in Names : n.kind = "Namespace" => n = Namespace
  BY NamesByKind
<1>3. \A key \in RowKeys : \/ \E a \in Attempts : key = Row(Namespace, a)
                           \/ key \in Names /\ key.kind \in {"Secret", "Job"}
  BY <1>2 DEF RowKeys
<1>. QED
  BY <1>1, <1>3, NamesOf, KindsOf DEF ObjectOf

\* The row of an object that is reconciled, if it has one that can be marked.
LEMMA RowOfHead ==
    ASSUME NEW x \in ExecState, x.todo # <<>>, ExecFits(x), NEW key, key = Row(Head(x.todo), x.attempt),
           key \in RowKeys
    PROVE  ObjectOf(key) = Head(x.todo)
<1>. DEFINE n == Head(x.todo)
<1>1. /\ n \in Names
      /\ n = Namespace \/ n = Workspace
         \/ n \in {Secret(x.attempt), Preview(x.attempt)}
         \/ (n = Job(x.attempt, x.step) /\ x.step \in JobSteps)
  BY ObjectsOf
<1>2. x.attempt \in Attempts
  BY DEF ExecState
<1>. HIDE DEF n
<1>3. key.kind \in {"Namespace", "Secret", "Job"}
  BY ObjectsOfRows
<1>4. CASE n = Namespace
  BY <1>2, <1>4, ObjectsOfRows DEF n
<1>5. n # Workspace /\ n # Preview(x.attempt)
  BY <1>3 DEF Row, Workspace, Preview, n
<1>6. CASE n = Secret(x.attempt)
  <2>1. key = Secret(x.attempt)
    BY <1>6 DEF Row, Secret, n
  <2>. QED
    BY <1>1, <1>6, <2>1, KindsOf, ObjectsOfRows DEF n
<1>7. CASE n = Job(x.attempt, x.step) /\ x.step \in JobSteps
  <2>1. key = Job(x.attempt, x.step)
    BY <1>7 DEF Row, Job, n
  <2>. QED
    BY <1>1, <1>7, <2>1, KindsOf, ObjectsOfRows DEF n
<1>. QED
  BY <1>1, <1>4, <1>5, <1>6, <1>7

\* What is known of a uid stays true while the execution, or the row, does not change.
LEMMA SeenStays ==
    ASSUME NEW n \in Names, n # Workspace, things[n].uid \in Nat, things'[n].uid \in Nat, Succeeds(n),
           NEW seen \in Nat, seen <= things[n].uid
    PROVE  /\ seen <= things'[n].uid
           /\ (seen = things[n].uid => ~Exists(n)) => (seen = things'[n].uid => ~Exists(n)')
  BY DEF Succeeds, Exists

LEMMA UidsTyped ==
    ASSUME Sound
    PROVE  /\ \A n \in Names : things[n].uid \in Nat /\ things[n] \in Thing
           /\ \A e \in Executions : exec[e] \in ExecState /\ ExecFits(exec[e])
                                    /\ exec[e].seen \in Nat /\ exec[e].token \in Nat
                                    /\ exec[e].attempt \in Attempts
           /\ \A key \in RowKeys : listed[key].uid \in Nat
<1>1. things \in [Names -> Thing] /\ exec \in [Executions -> ExecState]
      /\ listed \in [RowKeys -> RowState] /\ \A e \in Executions : ExecFits(exec[e])
  BY DEF Sound, Typed, ThingsFit, ExecsFit
<1>. QED
  BY <1>1 DEF Thing, ExecState, RowState

LEMMA OldSeenFits ==
    ASSUME Sound, Sound', \A n \in Names : Succeeds(n), NEW x \in ExecState, SeenFits(x, things)
    PROVE  SeenFits(x, things')
<1>. SUFFICES ASSUME NEW n \in Names, Sees(x, n)
              PROVE  /\ x.seen <= things'[n].uid
                     /\ x.at \in {"unlist", "nsMark"} /\ x.seen = things'[n].uid
                        => things'[n].state = "absent"
  BY DEF SeenFits
<1>1. /\ x.seen <= things[n].uid
      /\ x.at \in {"unlist", "nsMark"} /\ x.seen = things[n].uid => things[n].state = "absent"
  BY DEF SeenFits
<1>2. things[n].uid \in Nat /\ things'[n].uid \in Nat /\ x.seen \in Nat
  BY UidsTyped DEF Sound, ThingsFit, Thing, ExecState
<1>3. x.seen <= things'[n].uid
  BY <1>1, <1>2 DEF Succeeds
<1>4. x.at \in {"unlist", "nsMark"} => n # Workspace
  BY KindsOf DEF Sees, Reconciling, NsPlaces
<1>. QED
  BY <1>1, <1>2, <1>3, <1>4, SeenStays DEF Exists

\* The object in view, case by case.
LEMMA SeesOne ==
    ASSUME NEW x \in ExecState, ExecFits(x), NEW objects,
           x.at \in Reconciling => x.seen <= objects[Head(x.todo)].uid,
           x.at \in {"wait", "collect", "find", "delete", "unlist"} =>
               x.seen <= objects[Job(x.attempt, x.step)].uid,
           x.at \in NsPlaces => x.seen <= objects[Namespace].uid,
           x.at = "unlist" /\ x.seen = objects[Job(x.attempt, x.step)].uid =>
               objects[Job(x.attempt, x.step)].state = "absent",
           x.at = "nsMark" /\ x.seen = objects[Namespace].uid => objects[Namespace].state = "absent"
    PROVE  SeenFits(x, objects)
  BY DEF SeenFits, Sees, Reconciling, NsPlaces

LEMMA ThrowSeen ==
    ASSUME NEW e \in Executions, exec \in [Executions -> ExecState], Throw(e), NEW objects
    PROVE  SeenFits(exec'[e], objects)
<1>1. exec'[e].at \in {"revoke", "return"}
  BY DEF Throw, ExecState
<1>. QED
  BY <1>1 DEF SeenFits, Sees, Reconciling, NsPlaces

LEMMA GoesSeen ==
    ASSUME Sound, Sound', NEW e \in Executions, Goes(e), SeenFits(exec[e], things),
           \A n \in Names : Succeeds(n)
    PROVE  SeenFits(exec'[e], things')
<1>. DEFINE x == exec[e]
            y == exec'[e]
<1>1. /\ exec \in [Executions -> ExecState] /\ things \in [Names -> Thing] /\ x \in ExecState
      /\ ExecFits(x) /\ x.seen \in Nat
      /\ \A n \in Names : things[n].uid \in Nat
  BY UidsTyped DEF Sound, Typed, ThingsFit
<1>2. y \in ExecState /\ ExecFits(y) /\ y.step = x.step /\ y.attempt = x.attempt
  BY <1>1, GoesMoves DEF Moved
<1>3. CASE Throw(e)
  BY <1>1, <1>3, ThrowSeen
<1>4. CASE y.at = "return" \/ y.at = "revoke"
  BY <1>4 DEF SeenFits, Sees, Reconciling, NsPlaces
<1>5. CASE Get(e) /\ ~Throw(e)
  <2>1. /\ y.todo = x.todo /\ things' = things /\ x.at = "get" /\ y.at \in {"put", "note"}
        /\ y.seen = IF Exists(Head(x.todo)) THEN things[Head(x.todo)].uid ELSE 0
    BY <1>1, <1>5 DEF Get, ExecState, At
  <2>2. x.todo # <<>>
    BY <1>1, <2>1 DEF ExecFits, Reconciling
  <2>3. Head(x.todo) \in Names
    BY <1>1, <2>2, ObjectsOf
  <2>4. y.seen <= things'[Head(y.todo)].uid
    BY <1>1, <2>1, <2>3
  <2>. QED
    BY <1>2, <2>1, <2>4, SeesOne DEF NsPlaces
<1>6. CASE Put(e) /\ ~Throw(e)
  <2>1. /\ y.todo = x.todo /\ x.at = "put" /\ y.at = "note"
        /\ y.seen = IF x.seen = 0 THEN things[Head(x.todo)].uid + 1 ELSE x.seen
        /\ MayPut(e, Head(x.todo)) /\ PutThing(e, Head(x.todo))
    BY <1>1, <1>6 DEF Put, ExecState, At
  <2>2. x.todo # <<>>
    BY <1>1, <2>1 DEF ExecFits, Reconciling
  <2>3. Head(x.todo) \in Names
    BY <1>1, <2>2, ObjectsOf
  <2>4. CASE x.seen = 0
    <3>1. things'[Head(x.todo)].uid = things[Head(x.todo)].uid + 1
      BY <1>1, <2>1, <2>3, <2>4 DEF PutThing, Created
    <3>2. y.seen <= things'[Head(y.todo)].uid
      BY <1>1, <2>1, <2>3, <2>4, <3>1
    <3>. QED
      BY <1>2, <2>1, <3>2, SeesOne DEF NsPlaces
  <2>5. CASE x.seen # 0
    <3>1. things'[Head(x.todo)].uid = things[Head(x.todo)].uid /\ things[Head(x.todo)].uid = x.seen
      BY <2>1, <2>5 DEF PutThing, MayPut
    <3>2. y.seen <= things'[Head(y.todo)].uid
      BY <1>1, <2>1, <2>3, <2>5, <3>1
    <3>. QED
      BY <1>2, <2>1, <3>2, SeesOne DEF NsPlaces
  <2>. QED
    BY <2>4, <2>5
<1>7. CASE Note(e)
  <2>1. /\ x.at = "note" /\ things' = things /\ y.todo = Tail(x.todo)
        /\ y.at = AfterNote(e, Tail(x.todo))
        /\ y.seen = IF Tail(x.todo) = <<>> THEN x.seen ELSE 0
    BY <1>1, <1>7 DEF Note, ExecState, At
  <2>2. x.todo # <<>>
    BY <1>1, <2>1 DEF ExecFits, Reconciling
  <2>3. /\ Head(x.todo) \in Names /\ Head(x.todo) = Object(x.attempt, x.step, Len(x.todo))
        /\ Tail(x.todo) = <<>> <=> Len(x.todo) = 1
    BY <1>1, <2>2, TodoHead DEF ExecFits
  <2>4. CASE Tail(x.todo) # <<>>
    <3>1. y.seen = 0 /\ y.todo # <<>> /\ y.at \in {"get", "put"}
      BY <2>1, <2>4 DEF AfterNote
    <3>2. Head(y.todo) \in Names
      BY <1>2, <3>1, ObjectsOf
    <3>3. y.seen <= things'[Head(y.todo)].uid
      BY <1>1, <2>1, <3>1, <3>2
    <3>. QED
      BY <1>2, <3>1, <3>3, SeesOne DEF NsPlaces
  <2>5. CASE Tail(x.todo) = <<>>
    <3>1. y.seen = x.seen /\ y.at = IF x.step \in JobSteps THEN "wait" ELSE "return"
      BY <2>1, <2>5 DEF AfterNote
    <3>2. x.step \in JobSteps => Head(x.todo) = Job(x.attempt, x.step)
      <4>1. Head(x.todo) = Object(x.attempt, x.step, 1)
        BY <2>3, <2>5
      <4>. QED
        BY <4>1 DEF Object, JobSteps
    <3>3. x.seen <= things[Head(x.todo)].uid
      BY <2>1, <2>3 DEF SeenFits, Sees, Reconciling
    <3>. QED
      BY <1>2, <1>4, <2>1, <3>1, <3>2, <3>3, SeesOne DEF NsPlaces, Reconciling
  <2>. QED
    BY <2>4, <2>5
<1>8. CASE x.at \in JobPlaces /\ ~Throw(e) /\ y.at # "return" /\ y.at # "revoke"
  <2>. DEFINE n == Job(x.attempt, x.step)
  <2>1. n = MyJob(e) /\ n \in Names
    BY <1>1, <1>8, MyJobNamed DEF MyJob
  <2>2. x.at # "revoke" => x.seen <= things[n].uid
    BY <1>8, <2>1 DEF SeenFits, Sees, JobPlaces
  <2>3. /\ y.at \in {"collect", "find", "delete", "unlist"}
        /\ y.seen = x.seen \/ y.seen = things[n].uid
        /\ things'[n].uid = things[n].uid
        /\ x.at # "revoke"
        /\ y.at = "unlist" => things'[n].state = "absent"
    <3>. USE <1>1, <1>8, <2>1 DEF ExecState, At, JobPlaces
    <3>1. CASE Wait(e)
      BY <3>1 DEF Wait
    <3>2. CASE Collect(e)
      BY <3>2 DEF Collect, Goto
    <3>3. CASE Find(e)
      BY <3>3 DEF Find, AfterJob
    <3>4. CASE Delete(e)
      <4>1. x.at = "delete" /\ things' = [things EXCEPT ![n].state = "absent"]
            /\ y.at = "unlist" /\ y.seen = x.seen
        BY <3>4 DEF Delete
      <4>2. things'[n].uid = things[n].uid /\ things'[n].state = "absent"
        BY <4>1 DEF Thing
      <4>. QED
        BY <4>1, <4>2
    <3>5. ~Unlist(e) /\ ~Revoke(e) /\ ~CallFails(e)
      BY DEF Unlist, Revoke, Goto, AfterJob, CallFails
    <3>6. ~DeleteUnanswered(e)
      BY UnansweredMoves DEF Unanswered, AfterJob
    <3>. QED
      BY <3>1, <3>2, <3>3, <3>4, <3>5, <3>6 DEF Goes, Get, Put, Note, Watch, NsGet, NsDelete, NsWait,
         NsMark, NsPending
  <2>4. y.seen <= things'[n].uid
    BY <1>1, <2>1, <2>2, <2>3
  <2>. QED
    BY <1>2, <2>3, <2>4, SeesOne DEF NsPlaces, Reconciling
<1>9. CASE x.at \in NsPlaces /\ ~Throw(e) /\ y.at # "return"
  <2>1. x.seen <= things[Namespace].uid
    BY <1>9, NamesOf DEF SeenFits, Sees
  <2>2. /\ y.at \in {"nsDelete", "nsWait", "nsMark"}
        /\ y.seen = x.seen \/ y.seen = things[Namespace].uid
        /\ things'[Namespace].uid = things[Namespace].uid
        /\ y.at = "nsMark" => things'[Namespace].state = "absent"
    <3>. USE <1>1, <1>9, NamesOf DEF ExecState, At, NsPlaces
    <3>1. CASE NsGet(e)
      BY <3>1 DEF NsGet
    <3>2. CASE NsDelete(e)
      <4>1. x.at = "nsDelete" /\ y.at = "nsWait" /\ y.seen = x.seen
            /\ things' = [things EXCEPT ![Namespace].state = IF @ = "absent" THEN @ ELSE "terminating"]
        BY <3>2 DEF NsDelete, Goto
      <4>2. things'[Namespace].uid = things[Namespace].uid
        BY <4>1 DEF Thing
      <4>. QED
        BY <4>1, <4>2
    <3>3. CASE NsWait(e)
      BY <3>3 DEF NsWait, Goto, Exists
    <3>4. ~NsMark(e) /\ ~NsPending(e) /\ ~CallFails(e) /\ ~DeleteUnanswered(e)
      BY DEF NsMark, NsPending, Goto, CallFails, DeleteUnanswered
    <3>. QED
      BY <3>1, <3>2, <3>3, <3>4 DEF Goes, Get, Put, Note, Wait, Collect, Find, Delete, Unlist, Revoke, Watch
  <2>3. y.seen <= things'[Namespace].uid
    BY <1>1, <2>1, <2>2, NamesOf
  <2>. QED
    BY <1>2, <2>2, <2>3, SeesOne DEF NsPlaces, Reconciling
<1>10. x.at \in JobPlaces \union NsPlaces \union {"watch"} \/ Get(e) \/ Put(e) \/ Note(e) \/ Throw(e)
  BY DEF Goes, Wait, Collect, Find, Delete, Unlist, Revoke, Watch, NsGet, NsDelete, NsWait,
     NsMark, NsPending, CallFails, DeleteUnanswered, At, JobPlaces, NsPlaces
<1>11. CASE x.at = "watch" /\ ~Throw(e)
  <2>1. Watch(e)
    BY <1>11 DEF Goes, Get, Put, Note, Wait, Collect, Find, Delete, Unlist, Revoke, NsGet, NsDelete,
       NsWait, NsMark, NsPending, CallFails, DeleteUnanswered, At
  <2>2. y.at = "return"
    BY <1>1, <2>1 DEF Watch, ExecState
  <2>. QED
    BY <1>4, <2>2
<1>. QED
  BY <1>3, <1>4, <1>5, <1>6, <1>7, <1>8, <1>9, <1>10, <1>11

LEMMA SeenStep ==
    ASSUME Sound, Sound', SeenKnown, Next
    PROVE  SeenKnown'
<1>1. exec \in [Executions -> ExecState] /\ \A n \in Names : Succeeds(n)
  BY ThingsStep DEF Sound, Typed
<1>2. \A f \in Executions : SeenFits(exec[f], things')
  BY <1>1, OldSeenFits DEF SeenKnown
<1>3. \A x : x.at = "idle" => SeenFits(x, things')
  BY DEF SeenFits, Sees, Reconciling, NsPlaces
<1>4. ASSUME NEW e \in Executions, Goes(e) PROVE SeenKnown'
  <2>1. SeenFits(exec'[e], things') /\ exec' = [exec EXCEPT ![e] = exec'[e]]
    BY <1>1, <1>4, GoesSeen, GoesMoves DEF SeenKnown, Moved, Sound, ExecsFit, ThingsFit
  <2>. QED
    BY <1>1, <1>2, <2>1 DEF SeenKnown
<1>5. ASSUME NEW e \in Executions, Return(e) \/ Crash(e) PROVE SeenKnown'
  <2>1. exec' = [exec EXCEPT ![e] = Idle] /\ Idle.at = "idle"
    BY <1>5, EndWorkflow DEF Idle
  <2>. QED
    BY <1>1, <1>2, <1>3, <2>1 DEF SeenKnown
<1>6. CASE exec' = exec
  BY <1>2, <1>6 DEF SeenKnown
<1>7. CASE Begin
  <2>1. PICK e \in Executions, y \in ExecState :
          exec' = [exec EXCEPT ![e] = y] /\ y.seen = 0 /\ ExecFits(y)
    BY <1>7, BeginWorkflow
  <2>2. SeenFits(y, things')
    <3>1. \A n \in Names : things'[n].uid \in Nat
      BY DEF Sound, ThingsFit, Thing
    <3>2. y.at \notin {"unlist", "nsMark"}
      <4>1. PICK e2 \in Executions, y2 \in ExecState :
              exec' = [exec EXCEPT ![e2] = y2] /\ y2.at = Opening(y2.step) /\ At(e2, "idle")
        BY <1>7, BeginWorkflow
      <4>. QED
        BY <2>1, <4>1, <1>1 DEF Opening, At
    <3>. QED
      BY <2>1, <3>1, <3>2 DEF SeenFits
  <2>. QED
    BY <1>1, <1>2, <2>1, <2>2 DEF SeenKnown
<1>8. ASSUME NEW e \in Executions, LeaseLost(e) PROVE exec' = exec
  BY <1>8 DEF LeaseLost
<1>9. ASSUME Skip \/ Retry PROVE exec' = exec
  BY <1>9 DEF Skip, Retry
<1>. QED
  BY <1>4, <1>5, <1>6, <1>7, <1>8, <1>9, ControllersFrame, NextIs

LEMMA RowsStep ==
    ASSUME Sound, Sound', SeenKnown, RowsKnown, Next
    PROVE  RowsKnown'
<1>1. /\ exec \in [Executions -> ExecState] /\ \A n \in Names : Succeeds(n)
      /\ listed \in [RowKeys -> RowState] /\ listed' \in [RowKeys -> RowState]
      /\ \A n \in Names : things[n].uid \in Nat /\ things'[n].uid \in Nat
  BY ThingsStep, UidsTyped DEF Sound, Typed, ThingsFit, Thing
<1>2. ASSUME NEW key \in RowKeys, listed'[key] = listed[key] PROVE RowFits(key)'
  <2>1. ObjectOf(key) \in Names /\ ObjectOf(key) # Workspace /\ listed[key].uid \in Nat
    BY <1>1, ObjectsOfRows DEF RowState
  <2>2. listed[key].uid <= things[ObjectOf(key)].uid
        /\ (listed[key].deleted => (listed[key].uid = things[ObjectOf(key)].uid => ~Exists(ObjectOf(key))))
    BY DEF RowsKnown, RowFits, Uid
  <2>3. Succeeds(ObjectOf(key)) /\ things[ObjectOf(key)].uid \in Nat /\ things'[ObjectOf(key)].uid \in Nat
    BY <1>1, <2>1
  <2>. DEFINE n == ObjectOf(key)
              seen == listed[key].uid
  <2>4. n \in Names /\ n # Workspace /\ seen \in Nat
    BY <2>1
  <2>. HIDE DEF n
  <2>5. things[n].uid \in Nat /\ things'[n].uid \in Nat /\ Succeeds(n) /\ seen <= things[n].uid
        /\ (listed[key].deleted => (seen = things[n].uid => ~Exists(n)))
    BY <2>2, <2>3 DEF n
  <2>. HIDE DEF seen
  <2>6. seen <= things'[n].uid /\ (listed[key].deleted => (seen = things'[n].uid => ~Exists(n)'))
    BY <2>4, <2>5, SeenStays
  <2>7. n' = n
    BY DEF n, ObjectOf
  <2>. QED
    BY <1>2, <2>6 DEF RowFits, Uid, n, seen
<1>3. ASSUME NEW e \in Executions, Goes(e) PROVE RowsKnown'
  <2>. DEFINE x == exec[e]
  <2>1. x \in ExecState /\ ExecFits(x) /\ SeenFits(x, things) /\ x.attempt \in Attempts /\ x.seen \in Nat
    BY UidsTyped DEF SeenKnown
  <2>2. ASSUME NEW key \in RowKeys, NEW uid \in Nat, Upsert(key, uid), things' = things,
               uid <= things[ObjectOf(key)].uid
        PROVE  RowsKnown'
    <3>1. listed' = [listed EXCEPT ![key] = [uid |-> uid, deleted |-> FALSE]]
      BY <2>2 DEF Upsert
    <3>2. RowFits(key)'
      BY <1>1, <2>2, <3>1 DEF RowFits, Uid
    <3>3. \A k \in RowKeys \ {key} : listed'[k] = listed[k]
      BY <1>1, <3>1
    <3>. QED
      BY <1>2, <3>2, <3>3 DEF RowsKnown
  <2>3. ASSUME NEW key \in RowKeys, NEW uid, MarkDeleted(key, uid),
               uid = things'[ObjectOf(key)].uid => things'[ObjectOf(key)].state = "absent"
        PROVE  RowsKnown'
    <3>1. listed[key].uid = uid \/ listed' = listed
      BY <2>3 DEF MarkDeleted
    <3>2. CASE listed' = listed
      BY <1>2, <3>2 DEF RowsKnown
    <3>3. CASE listed[key].uid = uid /\ listed' # listed
      <4>1. \A k \in RowKeys \ {key} : listed'[k] = listed[k]
        BY <1>1, <2>3, <3>3 DEF MarkDeleted
      <4>2. listed'[key].uid = uid
        BY <1>1, <2>3, <3>3 DEF MarkDeleted, RowState
      <4>3. uid <= things'[ObjectOf(key)].uid
        <5>1. uid <= things[ObjectOf(key)].uid /\ ObjectOf(key) \in Names /\ uid \in Nat
          BY <1>1, <3>3, ObjectsOfRows DEF RowsKnown, RowFits, Uid, RowState
        <5>. QED
          BY <1>1, <5>1 DEF Succeeds
      <4>4. RowFits(key)'
        BY <2>3, <4>2, <4>3 DEF RowFits, Uid, Exists
      <4>. QED
        BY <1>2, <4>1, <4>4 DEF RowsKnown
    <3>. QED
      BY <3>1, <3>2, <3>3
  <2>4. CASE listed' = listed
    BY <1>2, <2>4 DEF RowsKnown
  <2>5. CASE Note(e) /\ Upsert(Row(Head(x.todo), x.attempt), x.seen)
    <3>. DEFINE key == Row(Head(x.todo), x.attempt)
    <3>1. x.at = "note" /\ x.todo # <<>> /\ things' = things
      BY <2>1, <2>5 DEF Note, At, ExecFits, Reconciling
    <3>2. CASE key \notin RowKeys
      BY <2>4, <2>5, <3>2 DEF Upsert
    <3>3. CASE key \in RowKeys
      <4>1. ObjectOf(key) = Head(x.todo) /\ Head(x.todo) \in Names
        BY <2>1, <3>1, <3>3, RowOfHead, ObjectsOf
      <4>2. x.seen <= things[Head(x.todo)].uid
        BY <2>1, <3>1, <4>1 DEF SeenFits, Sees, Reconciling
      <4>. QED
        BY <2>1, <2>2, <2>5, <3>1, <3>3, <4>1, <4>2
    <3>. QED
      BY <3>2, <3>3
  <2>6. CASE Collect(e) /\ Upsert(MyJob(e), x.seen)
    <3>1. x.at = "collect" /\ things' = things
      BY <2>6 DEF Collect, At
    <3>2. MyJob(e) \in Names /\ MyJob(e) \in RowKeys
      BY <2>1, <3>1, MyJobNamed DEF JobPlaces
    <3>3. ObjectOf(MyJob(e)) = MyJob(e)
      BY KindsOf DEF ObjectOf, MyJob
    <3>4. x.seen <= things[MyJob(e)].uid
      BY <2>1, <3>1, <3>2 DEF SeenFits, Sees, MyJob
    <3>. QED
      BY <2>1, <2>2, <2>6, <3>1, <3>2, <3>3, <3>4
  <2>7. CASE Unlist(e) /\ MarkDeleted(MyJob(e), x.seen)
    <3>1. x.at = "unlist" /\ things' = things
      BY <2>7 DEF Unlist, At
    <3>2. MyJob(e) \in Names /\ MyJob(e) \in RowKeys
      BY <2>1, <3>1, MyJobNamed DEF JobPlaces
    <3>3. ObjectOf(MyJob(e)) = MyJob(e)
      BY KindsOf DEF ObjectOf, MyJob
    <3>4. x.seen = things[MyJob(e)].uid => things[MyJob(e)].state = "absent"
      BY <2>1, <3>1, <3>2 DEF SeenFits, Sees, MyJob
    <3>. QED
      BY <2>3, <2>7, <3>1, <3>2, <3>3, <3>4
  <2>8. CASE Revoke(e) /\ MarkDeleted(Secret(x.attempt), x.token)
             /\ things' = [things EXCEPT ![Secret(x.attempt)].state = "absent"]
    <3>1. Secret(x.attempt) \in Names /\ Secret(x.attempt) \in RowKeys
      BY <2>1, NamesOf, RowsOf
    <3>2. ObjectOf(Secret(x.attempt)) = Secret(x.attempt)
      BY KindsOf DEF ObjectOf
    <3>3. things'[Secret(x.attempt)].state = "absent"
      BY <2>8, <3>1 DEF Sound, ThingsFit, Thing
    <3>. QED
      BY <2>3, <2>8, <3>1, <3>2, <3>3
  <2>9. CASE NsMark(e) /\ MarkDeleted(Row(Namespace, x.attempt), x.seen)
    <3>1. x.at = "nsMark" /\ things' = things
      BY <2>9 DEF NsMark, At
    <3>2. Row(Namespace, x.attempt) \in RowKeys /\ ObjectOf(Row(Namespace, x.attempt)) = Namespace
      BY <2>1, RowsOf, ObjectsOfRows
    <3>3. x.seen = things[Namespace].uid => things[Namespace].state = "absent"
      BY <2>1, <3>1, NamesOf DEF SeenFits, Sees, NsPlaces
    <3>. QED
      BY <2>3, <2>9, <3>1, <3>2, <3>3
  <2>. QED
    BY <1>3, <2>4, <2>5, <2>6, <2>7, <2>8, <2>9, GoesRows
<1>4. CASE listed' = listed
  BY <1>2, <1>4 DEF RowsKnown
<1>5. ASSUME NEW e \in Executions, Return(e) \/ Crash(e) \/ LeaseLost(e) PROVE listed' = listed
  BY <1>5 DEF Return, Crash, LeaseLost
<1>6. ASSUME Begin \/ Skip \/ Retry PROVE listed' = listed
  BY <1>6 DEF Begin, Skip, Retry
<1>. QED
  BY <1>3, <1>4, <1>5, <1>6, ControllersFrame, NextIs

Known == Sound /\ SeenKnown /\ RowsKnown

LEMMA KnownInit == Init => Known
<1>. SUFFICES ASSUME Init PROVE Known
  OBVIOUS
<1>1. Sound
  BY SoundInit
<1>2. SeenKnown
  BY DEF Init, SeenKnown, SeenFits, Sees, Idle, Reconciling, NsPlaces
<1>3. RowsKnown
  BY ObjectsOfRows DEF Init, RowsKnown, RowFits, Uid, NoThing
<1>. QED
  BY <1>1, <1>2, <1>3 DEF Known

LEMMA KnownStep == Known /\ [Next]_vars => Known'
<1>. SUFFICES ASSUME Known, [Next]_vars PROVE Known'
  OBVIOUS
<1>1. Sound'
  BY SoundStep DEF Known
<1>2. CASE Next
  BY <1>1, <1>2, SeenStep, RowsStep DEF Known
<1>3. CASE UNCHANGED vars
  BY <1>1, <1>3 DEF Known, SeenKnown, RowsKnown, RowFits, Uid, Exists, vars
<1>. QED
  BY <1>2, <1>3

LEMMA KnownMeansGone == ASSUME Known PROVE DeletedMeansGone
<1>. SUFFICES ASSUME NEW n \in Names, NEW key \in RowKeys,
                     key.kind = n.kind, n.attempt \in {0, key.attempt}, key.step = n.step,
                     listed[key].deleted, listed[key].uid = things[n].uid
              PROVE  ~Exists(n)
  BY DEF DeletedMeansGone
<1>1. key.kind \in {"Namespace", "Secret", "Job"} /\ ObjectOf(key) \in Names
  BY ObjectsOfRows
<1>2. CASE key.kind = "Namespace"
  <2>1. ObjectOf(key) = n
    BY <1>2, NamesByKind DEF ObjectOf
  <2>. QED
    BY <2>1 DEF Known, RowsKnown, RowFits, Uid
<1>3. CASE key.kind \in {"Secret", "Job"}
  <2>1. ObjectOf(key) = key /\ key \in Names
    BY <1>1, <1>3 DEF ObjectOf
  <2>2. n.attempt # 0
    BY <1>3, NamesByKind, ClusterAssumption DEF Attempts
  <2>3. key = n
    BY <1>3, <2>1, <2>2, NamesByKind
  <2>. QED
    BY <2>1, <2>3 DEF Known, RowsKnown, RowFits, Uid
<1>. QED
  BY <1>1, <1>2, <1>3

\* A row that says DELETED names a uid that is gone for good, however executions overlap,
\* fail and die, and whoever creates the object anew.
THEOREM DeletedStaysGone == Spec => []DeletedMeansGone
  BY KnownInit, KnownStep, KnownMeansGone, PTL DEF Spec

-----------------------------------------------------------------------------
\* While no call has failed and nobody has died, an execution has seen to its token when it
\* returns, and a token that exists is in the hands of an execution.
Unfailed == bound["failure"] = Bounds["failure"] /\ bound["crash"] = Bounds["crash"]

TokensKnown == \A e \in Executions : exec[e].token <= Uid(Secret(exec[e].attempt))

HasToken(e, a) == exec[e].attempt = a /\ exec[e].token = Uid(Secret(a))

TokensHeld ==
    \A a \in Attempts : Exists(Secret(a)) => \E e \in Executions : HasToken(e, a)

TokensReturned ==
    \A e \in Executions :
        At(e, "return") /\ exec[e].token # 0 =>
            ~(Exists(Secret(exec[e].attempt)) /\ HasToken(e, exec[e].attempt))

TokensFit == Sound /\ TokensKnown /\ (Unfailed => TokensHeld /\ TokensReturned)

LEMMA NothingFails ==
    ASSUME Sound, Next, Unfailed'
    PROVE  /\ Unfailed
           /\ \A e \in Executions :
                ~NsPending(e) /\ ~CallFails(e) /\ ~DeleteUnanswered(e) /\ ~Crash(e)
<1>1. /\ \A event \in Events : bound'[event] <= bound[event] /\ bound[event] <= Bounds[event]
      /\ \A event \in Events : bound[event] \in Nat /\ Bounds[event] \in Nat /\ bound'[event] \in Nat
  BY BoundStep, ClusterAssumption DEF Sound, Spends
<1>2. "failure" \in Events /\ "crash" \in Events
  BY DEF Events
<1>3. Unfailed
  BY <1>1, <1>2 DEF Unfailed
<1>4. ~Spend("failure") /\ ~Spend("crash")
  <2>1. Spend("failure") => bound'["failure"] < bound["failure"]
    BY <1>2, SpendSpends DEF Sound
  <2>2. Spend("crash") => bound'["crash"] < bound["crash"]
    BY <1>2, SpendSpends DEF Sound
  <2>. QED
    BY <1>1, <1>2, <1>3, <2>1, <2>2 DEF Unfailed
<1>. QED
  BY <1>3, <1>4 DEF NsPending, CallFails, DeleteUnanswered, Crash

\* Where a token comes from and where it goes.
LEMMA GoesToken ==
    ASSUME Sound, NEW e \in Executions, Goes(e), ~CallFails(e), ~DeleteUnanswered(e)
    PROVE  LET a == exec[e].attempt IN
           /\ \/ exec'[e].token = exec[e].token
              \/ /\ exec'[e].token = things[Secret(a)].uid + 1 /\ exec'[e].at # "return"
                 /\ things' = [things EXCEPT ![Secret(a)] = Created(e, Secret(a))]
                 /\ ~Exists(Secret(a))
           /\ exec'[e].at = "return" /\ exec'[e].token # 0 /\ Exists(Secret(a))' =>
                 things'[Secret(a)].uid # exec'[e].token
<1>. DEFINE x == exec[e]
            y == exec'[e]
            a == exec[e].attempt
<1>1. /\ exec \in [Executions -> ExecState] /\ things \in [Names -> Thing] /\ x \in ExecState
      /\ ExecFits(x) /\ x.token \in Nat /\ x.attempt \in Attempts /\ Secret(a) \in Names
  BY UidsTyped, NamesOf DEF Sound, Typed, ThingsFit
<1>2. y \in ExecState /\ ExecFits(y) /\ y.step = x.step /\ y.attempt = x.attempt
  BY <1>1, GoesMoves DEF Moved
<1>3. CASE Throw(e) /\ x.at # "note"
  <2>1. y.token = x.token /\ (y.at = "return" => ~InTry(e))
    BY <1>1, <1>3 DEF Throw, ExecState
  <2>2. ASSUME x.token # 0 PROVE InTry(e)
    <3>1. CASE x.todo = <<>>
      BY <2>2, <3>1 DEF InTry
    <3>2. CASE x.todo # <<>>
      <4>1. x.step = "fetch" /\ Len(x.todo) < 2
        BY <1>1, <1>3, <2>2 DEF ExecFits, Left
      <4>2. Len(x.todo) = 1
        <5>1. Len(x.todo) \in Nat \ {0}
          <6>1. x.todo \in Seq(Names)
            BY <1>1 DEF ExecState
          <6>. QED
            BY ONLY <6>1, <3>2, SeqTail
        <5>2. \A k \in Nat \ {0} : k < 2 => k = 1
          OBVIOUS
        <5>. QED
          BY <4>1, <5>1, <5>2
      <4>3. Head(x.todo) = Object(x.attempt, "fetch", 1)
        BY <1>1, <3>2, <4>1, <4>2, TodoHead DEF ExecFits
      <4>4. Head(x.todo).kind = "Job"
        BY <4>3, KindsOf DEF Object
      <4>. QED
        BY <2>2, <4>4 DEF InTry
    <3>. QED
      BY <3>1, <3>2
  <2>. QED
    BY <2>1, <2>2
<1>4. CASE Put(e) /\ ~Throw(e)
  <2>. DEFINE n == Head(x.todo)
  <2>1. /\ x.at = "put" /\ MayPut(e, n) /\ PutThing(e, n) /\ y.at = "note"
        /\ y.token = IF n.kind = "Secret"
                     THEN IF x.seen = 0 THEN things[n].uid + 1 ELSE x.seen ELSE x.token
    BY <1>1, <1>4 DEF Put, ExecState, At
  <2>2. x.todo # <<>>
    BY <1>1, <2>1 DEF ExecFits, Reconciling
  <2>3. n = Object(x.attempt, x.step, Len(x.todo)) /\ Len(x.todo) \in 1..4
    BY <1>1, <2>2, TodoHead DEF ExecFits
  <2>4. CASE n.kind # "Secret"
    BY <2>1, <2>4
  <2>5. CASE n.kind = "Secret"
    <3>1. x.step = "fetch" /\ Len(x.todo) = 2
      BY <2>3, <2>5, KindsOf DEF Object
    <3>2. n = Secret(a)
      BY <2>3, <3>1 DEF Object
    <3>3. Left(x) = 2 /\ Height(x) = 4
      BY <3>1 DEF Left, Height
    <3>4. x.seen = 0
      BY <1>1, <2>1, <3>1, <3>3 DEF ExecFits
    <3>. QED
      BY <2>1, <3>2, <3>4, KindsOf DEF PutThing, MayPut
  <2>. QED
    BY <2>4, <2>5
<1>5. CASE Revoke(e)
  <2>1. y.token = x.token /\ y.attempt = x.attempt
    BY <1>1, <1>5 DEF Revoke, Goto, ExecState
  <2>2. CASE Exists(Secret(a)) /\ things[Secret(a)].uid # x.token
    BY <1>5, <2>1, <2>2 DEF Revoke
  <2>3. CASE ~(Exists(Secret(a)) /\ things[Secret(a)].uid # x.token)
    <3>1. things' = [things EXCEPT ![Secret(a)].state = "absent"]
      BY <1>5, <2>3 DEF Revoke
    <3>2. things'[Secret(a)].state = "absent"
      BY <1>1, <3>1 DEF Thing
    <3>. QED
      BY <2>1, <3>2 DEF Exists
  <2>. QED
    BY <2>2, <2>3
<1>6. CASE Find(e) \/ Unlist(e)
  <2>1. y.token = x.token /\ (y.at = "return" => x.token = 0)
    BY <1>1, <1>6 DEF Find, Unlist, Goto, AfterJob, ExecState
  <2>. QED
    BY <2>1
<1>7. CASE Watch(e) \/ NsGet(e) \/ ((NsDelete(e) \/ NsWait(e)) /\ ~Throw(e)) \/ NsMark(e) \/ NsPending(e)
  <2>1. y.token = x.token
    BY <1>1, <1>7 DEF Watch, NsGet, NsDelete, NsWait, NsMark, NsPending, Goto, ExecState
  <2>2. x.step # "fetch"
    BY <1>1, <1>7 DEF Watch, NsGet, NsDelete, NsWait, NsMark, NsPending, At, ExecFits, NsPlaces
  <2>. QED
    BY <1>1, <2>1, <2>2 DEF ExecFits
<1>8. CASE (Get(e) \/ Collect(e) \/ Delete(e) \/ Wait(e)) /\ ~Throw(e)
  <2>1. y.token = x.token /\ y.at # "return"
    BY <1>1, <1>8 DEF Get, Collect, Delete, Wait, Goto, ExecState
  <2>. QED
    BY <2>1
<1>9. CASE Note(e)
  <2>1. y.token = x.token /\ y.at = AfterNote(e, Tail(x.todo))
    BY <1>1, <1>9 DEF Note, ExecState
  <2>2. y.at = "return" => x.step # "fetch"
    BY <2>1 DEF AfterNote, JobSteps
  <2>. QED
    BY <1>1, <2>1, <2>2 DEF ExecFits
<1>10. x.at = "note" => Note(e)
  BY DEF Goes, Get, Put, Wait, Collect, Find, Delete, Unlist, Revoke, Watch,
     NsGet, NsDelete, NsWait, NsMark, NsPending, At
<1>. QED
  BY <1>3, <1>4, <1>5, <1>6, <1>7, <1>8, <1>9, <1>10 DEF Goes
-----------------------------------------------------------------------------
\* What a step does to an execution, and what it does to an object.
Begins(f) ==
    LET y == exec'[f] IN
    /\ At(f, "idle") /\ y.attempt = attempt /\ y.step = NextStep.step /\ y.at = Opening(y.step)
    /\ y.token = 0 /\ y.gone = FALSE /\ y.step \in StepsOf[attempt]
    /\ owner' = [owner EXCEPT ![y.step] = f] /\ book' = [book EXCEPT ![y.step] = Running]

LEMMA WhoMoves ==
    ASSUME Sound, Next, NEW f \in Executions
    PROVE  \/ exec'[f] = exec[f]
           \/ Goes(f)
           \/ (Return(f) \/ Crash(f)) /\ exec'[f] = Idle
           \/ Begin /\ Begins(f)
<1>1. exec \in [Executions -> ExecState] /\ things \in [Names -> Thing]
      /\ \A e \in Executions : ExecFits(exec[e])
  BY DEF Sound, Typed, ExecsFit, ThingsFit
<1>2. ASSUME NEW e \in Executions, Goes(e), e # f PROVE exec'[f] = exec[f]
  <2>1. exec' = [exec EXCEPT ![e] = exec'[e]]
    BY <1>1, <1>2, GoesMoves DEF Moved
  <2>. QED
    BY <1>1, <1>2, <2>1
<1>3. ASSUME NEW e \in Executions, Return(e) \/ Crash(e)
      PROVE  exec'[f] = exec[f] \/ ((Return(f) \/ Crash(f)) /\ exec'[f] = Idle)
  <2>1. exec' = [exec EXCEPT ![e] = Idle]
    BY <1>3, EndWorkflow
  <2>. QED
    BY <1>1, <1>3, <2>1
<1>4. CASE Begin
  <2>1. PICK e \in Executions, y \in ExecState :
          /\ At(e, "idle") /\ exec' = [exec EXCEPT ![e] = y]
          /\ ExecFits(y) /\ y.attempt = attempt /\ y.step = NextStep.step /\ y.at = Opening(y.step)
          /\ y.token = 0 /\ y.gone = FALSE /\ y.seen = 0
          /\ y.step \in ClusterSteps /\ y.step \in StepsOf[attempt]
          /\ owner' = [owner EXCEPT ![y.step] = e]
          /\ book' = [book EXCEPT ![y.step] = Running]
    BY <1>4, BeginWorkflow
  <2>2. CASE e = f
    <3>1. exec'[f] = y
      BY <1>1, <2>1, <2>2
    <3>. QED
      BY <1>4, <2>1, <2>2, <3>1 DEF Begins
  <2>3. CASE e # f
    BY <1>1, <2>1, <2>3
  <2>. QED
    BY <2>2, <2>3
<1>5. ASSUME NEW e \in Executions, LeaseLost(e) PROVE exec' = exec
  BY <1>5 DEF LeaseLost
<1>6. ASSUME Skip \/ Retry PROVE exec' = exec
  BY <1>6 DEF Skip, Retry
<1>. QED
  BY <1>2, <1>3, <1>4, <1>5, <1>6, ControllersFrame, NextIs

\* An execution creates the object at the head of its plan.
Puts(e) ==
    LET n == Head(exec[e].todo) IN
    /\ Goes(e) /\ At(e, "put") /\ exec[e].todo # <<>> /\ exec[e].seen = 0 /\ MayPut(e, n)
    /\ n \in Names /\ things' = [things EXCEPT ![n] = Created(e, n)]

Same(n) ==
    /\ things'[n].uid = things[n].uid /\ things'[n].of = things[n].of
    /\ Exists(n)' => Exists(n) \/ n = Workspace

LEMMA GoesOrPuts ==
    ASSUME Sound, NEW e \in Executions, Goes(e)
    PROVE  Puts(e) \/ \A n \in Names : Same(n)
<1>1. /\ exec[e] \in ExecState /\ things \in [Names -> Thing] /\ ExecFits(exec[e])
      /\ exec[e].attempt \in Attempts /\ \A n \in Names : things[n] \in Thing
  BY UidsTyped DEF Sound, Typed, ThingsFit
<1>2. CASE things' = things
  BY <1>2 DEF Same, Exists
<1>3. ASSUME NEW m \in Names, NEW state,
             things' = [things EXCEPT ![m].state = state],
             state # "absent" => things[m].state # "absent"
      PROVE  \A n \in Names : Same(n)
  <2>. SUFFICES ASSUME NEW n \in Names PROVE Same(n)
    OBVIOUS
  <2>1. things'[n] = IF n = m THEN [things[m] EXCEPT !.state = state] ELSE things[n]
    BY <1>1, <1>3
  <2>2. things'[n].uid = things[n].uid /\ things'[n].of = things[n].of
        /\ (n # m => things'[n] = things[n]) /\ (n = m => things'[n].state = state)
    BY <1>1, <2>1 DEF Thing
  <2>. QED
    BY <1>3, <2>2 DEF Same, Exists
<1>4. CASE At(e, "put") /\ exec[e].seen = 0 /\ MayPut(e, Head(exec[e].todo))
           /\ PutThing(e, Head(exec[e].todo))
  <2>1. exec[e].todo # <<>>
    BY <1>1, <1>4 DEF ExecFits, Reconciling, At
  <2>. QED
    BY <1>1, <1>4, <2>1, ObjectsOf DEF Puts, PutThing
<1>5. CASE Put(e)
  <2>1. CASE exec[e].seen = 0
    BY <1>2, <1>4, <1>5, <2>1 DEF Put
  <2>2. CASE exec[e].seen # 0
    BY <1>2, <1>5, <2>2 DEF Put, PutThing
  <2>. QED
    BY <2>1, <2>2
<1>6. MyJob(e) \in Names \/ ~Delete(e)
  BY <1>1, MyJobNamed DEF Delete, At, JobPlaces
<1>7. CASE Delete(e)
  <2>1. CASE things' = [things EXCEPT ![MyJob(e)].state = "absent"]
    BY <1>3, <1>6, <1>7, <2>1
  <2>. QED
    BY <1>2, <1>7, <2>1 DEF Delete
<1>8. CASE Revoke(e)
  <2>1. CASE things' = [things EXCEPT ![Secret(exec[e].attempt)].state = "absent"]
    BY <1>1, <1>3, <2>1, NamesOf
  <2>. QED
    BY <1>2, <1>8, <2>1 DEF Revoke
<1>9. CASE NsDelete(e)
  <2>1. CASE things' = [things EXCEPT ![Namespace].state =
                          IF @ = "absent" THEN @ ELSE "terminating"]
    <3>. DEFINE state == IF things[Namespace].state = "absent" THEN "absent" ELSE "terminating"
    <3>1. things' = [things EXCEPT ![Namespace].state = state]
      BY <2>1
    <3>2. state # "absent" => things[Namespace].state # "absent"
      OBVIOUS
    <3>. QED
      BY <1>3, <3>1, <3>2, NamesOf
  <2>. QED
    BY <1>2, <1>9, <2>1 DEF NsDelete
<1>10. CASE CallFails(e)
  <2>1. CASE At(e, "put") /\ MayPut(e, Head(exec[e].todo)) /\ exec[e].seen = 0
             /\ PutThing(e, Head(exec[e].todo))
    BY <1>4, <2>1
  <2>2. CASE Exists(Namespace) /\ things' = [things EXCEPT ![Namespace].state = "terminating"]
    BY <1>3, <2>2, NamesOf DEF Exists
  <2>. QED
    BY <1>2, <1>10, <2>1, <2>2 DEF CallFails
<1>11. ASSUME Get(e) \/ Note(e) \/ Wait(e) \/ Collect(e) \/ Find(e) \/ Unlist(e) \/ Watch(e)
              \/ NsGet(e) \/ NsWait(e) \/ NsMark(e) \/ NsPending(e)
       PROVE things' = things
  BY <1>11 DEF Get, Note, Wait, Collect, Find, Unlist, Watch, NsGet, NsWait, NsMark, NsPending
<1>12. CASE DeleteUnanswered(e)
  <2>1. PICK m \in Names : things' = [things EXCEPT ![m].state = "absent"]
    BY <1>1, <1>12, MyJobNamed, NamesOf DEF DeleteUnanswered, At, JobPlaces
  <2>. QED
    BY <1>3, <2>1
<1>. QED
  BY <1>2, <1>5, <1>7, <1>8, <1>9, <1>10, <1>11, <1>12 DEF Goes

LEMMA PutsOrSame ==
    ASSUME Sound, Next
    PROVE  (\E e \in Executions : Puts(e)) \/ \A n \in Names : Same(n)
<1>1. things \in [Names -> Thing] /\ \A n \in Names : things[n] \in Thing
  BY UidsTyped DEF Sound, ThingsFit
<1>2. CASE things' = things
  BY <1>2 DEF Same, Exists
<1>3. ASSUME NEW e \in Executions, Return(e) \/ Crash(e) \/ LeaseLost(e) PROVE things' = things
  BY <1>3 DEF Return, Crash, LeaseLost
<1>4. ASSUME Begin \/ Skip \/ Retry PROVE things' = things
  BY <1>4 DEF Begin, Skip, Retry
<1>5. ASSUME NEW m \in Names, JobEnds(m), NEW n \in Names PROVE Same(n)
  <2>1. PICK state \in {"succeeded", "failed"} :
          things' = [things EXCEPT
                      ![m].state = state,
                      ![Workspace].state = IF m.step = "fetch" /\ state = "succeeded"
                                           THEN "filled" ELSE @]
    BY <1>5 DEF JobEnds
  <2>2. things[m].state = "running"
    BY <1>5 DEF JobEnds
  <2>3. things'[n].uid = things[n].uid /\ things'[n].of = things[n].of
        /\ (n # m /\ n # Workspace => things'[n] = things[n])
    BY <1>1, <2>1, NamesOf DEF Thing
  <2>. QED
    BY <2>2, <2>3 DEF Same, Exists
<1>6. ASSUME NEW m \in Names, PreviewStarts(m), NEW n \in Names PROVE Same(n)
  <2>1. things' = [things EXCEPT ![m].state = "available"] /\ things[m].state = "there"
    BY <1>6 DEF PreviewStarts
  <2>2. things'[n].uid = things[n].uid /\ things'[n].of = things[n].of
        /\ (n # m => things'[n] = things[n])
    BY <1>1, <2>1 DEF Thing
  <2>. QED
    BY <2>1, <2>2 DEF Same, Exists
<1>7. ASSUME NamespaceGoes, NEW n \in Names PROVE Same(n)
  <2>1. things'[n] = [things[n] EXCEPT !.state = "absent"]
    BY <1>7 DEF NamespaceGoes
  <2>2. things'[n].uid = things[n].uid /\ things'[n].of = things[n].of /\ things'[n].state = "absent"
    BY <1>1, <2>1 DEF Thing
  <2>. QED
    BY <2>2 DEF Same, Exists
<1>. QED
  BY <1>2, <1>3, <1>4, <1>5, <1>6, <1>7, GoesOrPuts, NextIs
LEMMA TokensKnownStep ==
    ASSUME Sound, TokensKnown, Next
    PROVE  TokensKnown'
<1>. SUFFICES ASSUME NEW f \in Executions
              PROVE  exec'[f].token <= things'[Secret(exec'[f].attempt)].uid
  BY DEF TokensKnown, Uid
<1>1. /\ exec[f] \in ExecState /\ things \in [Names -> Thing] /\ exec \in [Executions -> ExecState]
      /\ exec[f].token \in Nat /\ exec[f].attempt \in Attempts /\ ExecFits(exec[f])
      /\ \A n \in Names : things[n].uid \in Nat
  BY UidsTyped DEF Sound, Typed, ThingsFit
<1>2. \A n \in Names : things'[n].uid \in Nat /\ things[n].uid <= things'[n].uid
  BY ThingsStep DEF Succeeds, ThingsFit, Thing
<1>3. exec[f].token <= things'[Secret(exec[f].attempt)].uid
  <2>1. Secret(exec[f].attempt) \in Names
    BY <1>1, NamesOf
  <2>2. exec[f].token <= things[Secret(exec[f].attempt)].uid
    BY DEF TokensKnown, Uid
  <2>. QED
    BY <1>1, <1>2, <2>1, <2>2
<1>4. CASE exec'[f] = exec[f]
  BY <1>3, <1>4
<1>5. CASE Goes(f)
  <2>1. exec'[f].attempt = exec[f].attempt
    BY <1>1, <1>5, GoesMoves DEF Moved
  <2>2. CASE CallFails(f) \/ DeleteUnanswered(f)
    <3>1. exec'[f].token = exec[f].token
      BY <1>1, <2>2, UnansweredMoves DEF CallFails, Throw, Goto, ExecState
    <3>. QED
      BY <1>3, <2>1, <3>1
  <2>3. CASE ~CallFails(f) /\ ~DeleteUnanswered(f)
    <3>. DEFINE n == Secret(exec[f].attempt)
    <3>1. CASE exec'[f].token = exec[f].token
      BY <1>3, <2>1, <3>1
    <3>2. CASE exec'[f].token = things[n].uid + 1 /\ things' = [things EXCEPT ![n] = Created(f, n)]
      <4>1. things'[n].uid = things[n].uid + 1
        BY <1>1, <3>2, NamesOf DEF Created
      <4>. QED
        BY <1>1, <2>1, <3>2, <4>1, NamesOf
    <3>. QED
      BY <1>5, <2>3, <3>1, <3>2, GoesToken
  <2>. QED
    BY <2>2, <2>3
<1>6. ASSUME exec'[f].token = 0, exec'[f].attempt \in Attempts
      PROVE  exec'[f].token <= things'[Secret(exec'[f].attempt)].uid
  BY <1>2, <1>6, NamesOf
<1>7. CASE exec'[f] = Idle
  BY <1>6, <1>7, IdleFits DEF Idle, ExecState
<1>8. CASE Begins(f)
  BY <1>6, <1>8 DEF Begins, Sound, Typed
<1>. QED
  BY <1>4, <1>5, <1>7, <1>8, WhoMoves

LEMMA TokensHeldStep ==
    ASSUME Sound, TokensKnown, TokensHeld, TokensReturned, Next, Unfailed'
    PROVE  TokensHeld'
<1>. SUFFICES ASSUME NEW a \in Attempts, Exists(Secret(a))'
              PROVE  \E f \in Executions :
                        exec'[f].attempt = a /\ exec'[f].token = things'[Secret(a)].uid
  BY DEF TokensHeld, HasToken, Uid
<1>. DEFINE n == Secret(a)
<1>1. /\ things \in [Names -> Thing] /\ exec \in [Executions -> ExecState] /\ n \in Names
      /\ \A e \in Executions : exec[e] \in ExecState /\ ExecFits(exec[e])
  BY NamesOf, UidsTyped DEF Sound, Typed, ThingsFit
<1>2. \A e \in Executions : ~CallFails(e) /\ ~DeleteUnanswered(e) /\ ~Crash(e)
  BY NothingFails
<1>3. ASSUME NEW e \in Executions, Puts(e), Head(exec[e].todo) = n
      PROVE  exec'[e].attempt = a /\ exec'[e].token = things'[n].uid
  <2>1. Put(e)
    BY <1>2, <1>3 DEF Puts, Goes, Get, Note, Wait, Collect, Find, Delete, Unlist, Revoke,
         Watch, NsGet, NsDelete, NsWait, NsMark, NsPending, At
  <2>2. exec'[e].token = things[n].uid + 1 /\ exec'[e].attempt = exec[e].attempt
    BY <1>1, <1>3, <2>1, KindsOf DEF Puts, Put, ExecState
  <2>3. things'[n].uid = things[n].uid + 1
    BY <1>1, <1>3 DEF Puts, Created
  <2>4. n.attempt = exec[e].attempt
    BY <1>1, <1>3, ObjectsOf, KindsOf DEF Puts
  <2>. QED
    BY <2>2, <2>3, <2>4, KindsOf
<1>4. ASSUME Same(n)
      PROVE  \E f \in Executions : exec'[f].attempt = a /\ exec'[f].token = things'[n].uid
  <2>1. Exists(n) /\ things'[n].uid = things[n].uid
    BY <1>4, KindsOf DEF Same
  <2>2. PICK w \in Executions : exec[w].attempt = a /\ exec[w].token = things[n].uid
    BY <2>1 DEF TokensHeld, HasToken, Uid
  <2>3. things[n].uid # 0
    BY <1>1, <2>1, KindsOf DEF Sound, ThingsFit, ThingFits, Exists
  <2>4. CASE exec'[w] = exec[w]
    BY <2>1, <2>2, <2>4
  <2>5. CASE Goes(w)
    <3>1. exec'[w].attempt = a
      BY <1>1, <2>2, <2>5, GoesMoves DEF Moved
    <3>2. exec'[w].token = exec[w].token
      BY <1>2, <2>1, <2>2, <2>5, GoesToken
    <3>. QED
      BY <2>1, <2>2, <3>1, <3>2
  <2>6. CASE Return(w)
    <3>1. At(w, "return")
      BY <2>6 DEF Return
    <3>. QED
      BY <2>1, <2>2, <2>3, <3>1 DEF TokensReturned, HasToken, Uid
  <2>7. CASE Begins(w)
    <3>1. exec[w].token = 0
      BY <1>1, <2>7 DEF Begins, At, ExecFits, Idle
    <3>. QED
      BY <2>2, <2>3, <3>1
  <2>. QED
    BY <1>2, <2>4, <2>5, <2>6, <2>7, WhoMoves
<1>5. ASSUME NEW e \in Executions, Puts(e), Head(exec[e].todo) # n PROVE Same(n)
  BY <1>1, <1>5 DEF Puts, Same, Exists
<1>. QED
  BY <1>1, <1>3, <1>4, <1>5, PutsOrSame

LEMMA TokensReturnedStep ==
    ASSUME Sound, TokensKnown, TokensReturned, Next, Unfailed'
    PROVE  TokensReturned'
<1>. SUFFICES ASSUME NEW f \in Executions, exec'[f].at = "return", exec'[f].token # 0,
                     NEW n, n = Secret(exec'[f].attempt), things'[n].state # "absent"
              PROVE  exec'[f].token # things'[n].uid
  BY DEF TokensReturned, HasToken, Uid, At, Exists
<1>1. /\ things \in [Names -> Thing] /\ exec \in [Executions -> ExecState]
      /\ exec[f] \in ExecState /\ ExecFits(exec[f]) /\ exec[f].attempt \in Attempts
      /\ exec[f].token \in Nat
      /\ \A m \in Names : things[m].uid \in Nat
  BY UidsTyped DEF Sound, Typed, ThingsFit
<1>2. \A e \in Executions : ~CallFails(e) /\ ~DeleteUnanswered(e) /\ ~Crash(e)
  BY NothingFails
<1>3. CASE exec'[f] = exec[f]
  <2>1. n = Secret(exec[f].attempt) /\ n \in Names /\ n # Workspace
    BY <1>1, <1>3, NamesOf, KindsOf
  <2>2. exec[f].token <= things[n].uid
    BY <2>1 DEF TokensKnown, Uid
  <2>3. ~(Exists(n) /\ exec[f].token = things[n].uid)
    BY <1>3, <2>1 DEF TokensReturned, HasToken, Uid, At
  <2>4. CASE Same(n)
    BY <1>3, <2>1, <2>3, <2>4 DEF Same, Exists
  <2>5. ASSUME NEW e \in Executions, Puts(e), Head(exec[e].todo) = n
        PROVE  exec[f].token # things'[n].uid
    <3>1. things'[n].uid = things[n].uid + 1
      BY <1>1, <2>1, <2>5 DEF Puts, Created
    <3>. QED
      BY <1>1, <2>1, <2>2, <3>1
  <2>6. ASSUME NEW e \in Executions, Puts(e), Head(exec[e].todo) # n PROVE Same(n)
    BY <1>1, <2>1, <2>6 DEF Puts, Same, Exists
  <2>. QED
    BY <1>3, <2>1, <2>4, <2>5, <2>6, PutsOrSame
<1>4. CASE Goes(f)
  <2>1. exec'[f].attempt = exec[f].attempt
    BY <1>1, <1>4, GoesMoves DEF Moved
  <2>. QED
    BY <1>2, <1>4, <2>1, GoesToken DEF Exists
<1>5. exec'[f] # Idle
  BY DEF Idle
<1>6. ~Begins(f)
  BY DEF Begins
<1>. QED
  BY <1>3, <1>4, <1>5, <1>6, WhoMoves

LEMMA TokensStep == TokensFit /\ [Next]_vars => TokensFit'
<1>. SUFFICES ASSUME TokensFit, [Next]_vars PROVE TokensFit'
  OBVIOUS
<1>1. Sound /\ Sound'
  BY SoundStep DEF TokensFit
<1>2. CASE Next
  <2>1. TokensKnown'
    BY <1>1, <1>2, TokensKnownStep DEF TokensFit
  <2>2. ASSUME Unfailed' PROVE TokensHeld' /\ TokensReturned'
    BY <1>1, <1>2, <2>2, NothingFails, TokensHeldStep, TokensReturnedStep DEF TokensFit
  <2>. QED
    BY <1>1, <2>1, <2>2 DEF TokensFit
<1>3. CASE UNCHANGED vars
  BY <1>1, <1>3 DEF vars, TokensFit, TokensKnown, TokensHeld, TokensReturned, HasToken, Uid,
     Exists, Unfailed, At
<1>. QED
  BY <1>2, <1>3

LEMMA TokensInit == Init => TokensFit
<1>. SUFFICES ASSUME Init PROVE TokensFit
  OBVIOUS
<1>1. \A a \in Attempts : things[Secret(a)] = NoThing
  BY NamesOf DEF Init
<1>2. \A e \in Executions : exec[e] = Idle
  BY DEF Init
<1>3. 1 \in Attempts
  BY ClusterAssumption DEF Attempts
<1>. QED
  BY <1>1, <1>2, <1>3, SoundInit
     DEF TokensFit, TokensKnown, TokensHeld, TokensReturned, HasToken, Uid, Exists, NoThing, Idle, At

LEMMA TokensFitRevoked == ASSUME TokensFit PROVE TokensAreRevoked
<1>. SUFFICES ASSUME NEW a \in Attempts, Exists(Secret(a)), ~(Spent("failure") + Spent("crash") > 0)
              PROVE  \E e \in Executions : exec[e].attempt = a /\ exec[e].token = things[Secret(a)].uid
  BY DEF TokensAreRevoked
<1>1. \A event \in Events : bound[event] \in Nat /\ Bounds[event] \in Nat /\ bound[event] <= Bounds[event]
  BY ClusterAssumption DEF TokensFit, Sound, Spends
<1>2. "failure" \in Events /\ "crash" \in Events
  BY DEF Events
<1>3. \A b, c, d, f \in Nat :
        b <= c /\ d <= f /\ ~((c - b) + (f - d) > 0) => b = c /\ d = f
  OBVIOUS
<1>4. Unfailed
  BY <1>1, <1>2, <1>3 DEF Unfailed, Spent
<1>. QED
  BY <1>4 DEF TokensFit, TokensHeld, HasToken, Uid

\* While no Worker has died and no call has failed, a source token that exists is in the
\* hands of the execution that created it, which has not returned yet: none stays behind.
THEOREM TokensRevoked == Spec => []TokensAreRevoked
  BY TokensInit, TokensStep, TokensFitRevoked, PTL DEF Spec
-----------------------------------------------------------------------------
\* How the book of the attempt changes.
LEMMA BookStep ==
    ASSUME Sound, Next, NEW s \in ClusterSteps
    PROVE  \/ attempt' = attempt /\ book'[s] = book[s]
           \/ Begin /\ attempt' = attempt /\ book'[s] = Running /\ ~SettledForRetry(s, book[s].status)
           \/ Skip /\ attempt' = attempt /\ book'[s] = Skipped /\ s # "cleanup"
           \/ \E e \in Executions : /\ Return(e) /\ Holds(e) /\ Step(e) = s
                                    /\ attempt' = attempt /\ book'[s] = exec[e].result
           \/ Retry /\ attempt' = attempt + 1 /\ book'[s] = Absent
<1>1. book \in [ClusterSteps -> Record] /\ Typed /\ exec \in [Executions -> ExecState]
  BY DEF Sound, Typed
<1>2. CASE Begin
  <2>1. NextStep.action = "run" /\ book' = [book EXCEPT ![NextStep.step] = Running]
        /\ attempt' = attempt
    BY <1>2 DEF Begin
  <2>2. NextStep.step \in ClusterSteps /\ ~SettledForRetry(NextStep.step, book[NextStep.step].status)
    BY <1>1, <2>1, NextStepIsOurs
  <2>. QED
    BY <1>1, <1>2, <2>1, <2>2
<1>3. CASE Skip
  <2>1. attempt' = attempt
        /\ \E t \in StepsOf[attempt] \ {"cleanup"} : book' = [book EXCEPT ![t] = Skipped]
    BY <1>3, SkipWorkflow
  <2>. QED
    BY <1>1, <1>3, <2>1
<1>4. CASE Retry
  BY <1>4 DEF Retry
<1>5. ASSUME NEW e \in Executions, Return(e)
      PROVE  /\ attempt' = attempt
             /\ book'[s] = book[s] \/ (Holds(e) /\ Step(e) = s /\ book'[s] = exec[e].result)
  BY <1>1, <1>5 DEF Return
<1>6. ASSUME NEW e \in Executions, Crash(e) \/ LeaseLost(e) PROVE book' = book /\ attempt' = attempt
  BY <1>6 DEF Crash, LeaseLost
<1>. QED
  BY <1>2, <1>3, <1>4, <1>5, <1>6, GoesFrame, ControllersFrame, NextIs

-----------------------------------------------------------------------------
\* While no execution has outlived its lease, whoever executes a step holds its lease:
\* there is one at most, and the plan waits for it.
Alone == \A e \in Executions : At(e, "idle") \/ Holds(e)

LEMMA OverlapStays ==
    ASSUME Sound, Next, Undisturbed'
    PROVE  Undisturbed /\ \A e \in Executions : ~LeaseLost(e)
<1>1. "overlap" \in Events
  BY DEF Events
<1>2. /\ bound["overlap"] \in Nat /\ bound'["overlap"] \in Nat /\ Bounds["overlap"] \in Nat
      /\ bound["overlap"] <= Bounds["overlap"] /\ bound'["overlap"] <= bound["overlap"]
  BY <1>1, BoundStep, ClusterAssumption DEF Sound, Spends
<1>3. Bounds["overlap"] - bound'["overlap"] = 0
  BY DEF Undisturbed, Spent
<1>4. Bounds["overlap"] - bound["overlap"] = 0 /\ bound'["overlap"] = bound["overlap"]
  BY <1>2, <1>3
<1>5. ~Spend("overlap")
  <2>1. Spend("overlap") => bound'["overlap"] < bound["overlap"]
    BY <1>1, SpendSpends DEF Sound
  <2>. QED
    BY <1>2, <1>4, <2>1
<1>. QED
  BY <1>4, <1>5 DEF Undisturbed, Spent, LeaseLost

LEMMA AloneStep ==
    ASSUME Sound, Alone, Next, Undisturbed'
    PROVE  Alone'
<1>. SUFFICES ASSUME NEW f \in Executions, exec'[f].at # "idle"
              PROVE  exec'[f].attempt = attempt' /\ owner'[exec'[f].step] = f
  BY DEF Alone, At, Holds, IsCurrent, Step
<1>1. /\ exec \in [Executions -> ExecState] /\ things \in [Names -> Thing]
      /\ owner \in [ClusterSteps -> Executions \union {NoExecution}]
      /\ exec[f] \in ExecState /\ ExecFits(exec[f]) /\ f # NoExecution
  BY ClusterAssumption DEF Sound, Typed, ExecsFit, ThingsFit
<1>2. \A e \in Executions : ~LeaseLost(e)
  BY OverlapStays
<1>3. ASSUME exec[f].at # "idle", ~Return(f), ~Crash(f)
      PROVE  /\ exec[f].attempt = attempt' /\ owner'[exec[f].step] = f
  <2>1. Holds(f) /\ exec[f].attempt = attempt /\ owner[exec[f].step] = f /\ exec[f].step \in ClusterSteps
    BY <1>1, <1>3 DEF Alone, At, Holds, IsCurrent, Step, ExecState
  <2>2. CASE attempt' = attempt /\ owner' = owner
    BY <2>1, <2>2
  <2>3. ~Retry
    BY <1>1, <2>1, RetryWorkflow
  <2>4. CASE Begin
    <3>1. owner[NextStep.step] = NoExecution /\ attempt' = attempt
          /\ \E e : owner' = [owner EXCEPT ![NextStep.step] = e]
      BY <2>4 DEF Begin
    <3>. QED
      BY <1>1, <2>1, <3>1
  <2>5. ASSUME NEW e \in Executions, Return(e) \/ Crash(e)
        PROVE  attempt' = attempt /\ owner'[exec[f].step] = f
    <3>1. e # f /\ attempt' = attempt
      BY <1>3, <2>5 DEF Return, Crash
    <3>2. owner' = owner \/ (Holds(e) /\ owner' = [owner EXCEPT ![Step(e)] = NoExecution])
      BY <2>5 DEF Return, Crash
    <3>3. Holds(e) => Step(e) # exec[f].step
      BY <2>1, <3>1 DEF Holds
    <3>. QED
      BY <1>1, <2>1, <3>1, <3>2, <3>3
  <2>6. Skip => attempt' = attempt /\ owner' = owner
    BY DEF Skip
  <2>. QED
    BY <1>2, <2>1, <2>2, <2>3, <2>4, <2>5, <2>6, GoesFrame, ControllersFrame, NextIs
<1>4. CASE exec'[f] = exec[f] /\ ~Return(f) /\ ~Crash(f)
  BY <1>3, <1>4
<1>5. CASE Goes(f) /\ ~Return(f) /\ ~Crash(f)
  <2>1. exec'[f].step = exec[f].step /\ exec'[f].attempt = exec[f].attempt /\ exec[f].at # "idle"
    BY <1>1, <1>5, GoesMoves DEF Moved, At
  <2>. QED
    BY <1>3, <1>5, <2>1
<1>6. ASSUME Return(f) \/ Crash(f) PROVE FALSE
  <2>1. exec'[f] = Idle
    BY <1>1, <1>6, EndWorkflow
  <2>. QED
    BY <2>1 DEF Idle
<1>7. CASE Begin /\ Begins(f)
  <2>1. attempt' = attempt /\ exec'[f].attempt = attempt /\ exec'[f].step \in ClusterSteps
        /\ owner' = [owner EXCEPT ![exec'[f].step] = f]
    BY <1>7, ClusterStepsOfPlan DEF Begin, Begins, Sound, Typed
  <2>. QED
    BY <1>1, <2>1
<1>. QED
  BY <1>4, <1>5, <1>6, <1>7, WhoMoves

LEMMA WhoIsAlone ==
    ASSUME Sound, Alone, NEW e \in Executions, ~At(e, "idle")
    PROVE  /\ exec[e].attempt = attempt /\ IsCurrent(e) /\ Holds(e)
           /\ Step(e) \in StepsOf[attempt] /\ Step(e) \in ClusterSteps
           /\ book[Step(e)] = Running
           /\ \A t \in ClusterSteps : book[t] = Running => t = Step(e)
           /\ Step(e) # "cleanup" => book["cleanup"] = Absent
           /\ \A f \in Executions : f # e => exec[f] = Idle
<1>1. Holds(e) /\ Step(e) \in ClusterSteps /\ owner[Step(e)] = e /\ exec[e].attempt = attempt
      /\ IsCurrent(e)
  BY DEF Alone, Holds, IsCurrent, Sound, Typed, ExecState, Step
<1>2. book[Step(e)] = Running
      /\ \A t \in ClusterSteps \ {Step(e)} : owner[t] = NoExecution /\ book[t] # Running
  BY <1>1, HolderHolds
<1>3. Step(e) \in StepsOf[attempt]
  BY <1>1 DEF Sound, ExecsFit, ExecFits, At, Step
<1>4. Step(e) # "cleanup" => book["cleanup"] = Absent
  <2>1. book[Step(e)].status \notin TerminalStepStatuses
    BY <1>2, TerminalIsNotRunning
  <2>. QED
    BY <1>3, <2>1 DEF Sound, WorkflowFits, CleanupIsLast
<1>5. ASSUME NEW f \in Executions, f # e PROVE exec[f] = Idle
  <2>1. CASE At(f, "idle")
    BY <2>1 DEF Sound, ExecsFit, ExecFits, At
  <2>2. CASE Holds(f)
    <3>1. owner[Step(f)] = f /\ Step(f) \in ClusterSteps /\ f # NoExecution
      BY <2>2, ClusterAssumption DEF Holds, Step, Sound, Typed, ExecState
    <3>. QED
      BY <1>1, <1>2, <1>5, <3>1
  <2>. QED
    BY <2>1, <2>2 DEF Alone
<1>. QED
  BY <1>1, <1>2, <1>3, <1>4, <1>5
-----------------------------------------------------------------------------
\* How the state of an object changes.
LEMMA JobEndsIs ==
    ASSUME Sound, NEW m \in Names, JobEnds(m)
    PROVE  /\ m.kind = "Job" /\ m.attempt \in Attempts /\ m.step \in JobSteps
           /\ m = Job(m.attempt, m.step) /\ things[m].state = "running"
           /\ things'[m].state \in {"succeeded", "failed"}
           /\ m.step = "fetch" /\ things'[m].state = "succeeded" => things'[Workspace].state = "filled"
           /\ ~(m.step = "fetch" /\ things'[m].state = "succeeded") =>
                 things'[Workspace].state = things[Workspace].state
           /\ \A n \in Names \ {m, Workspace} : things'[n] = things[n]
           /\ \A n \in Names : things'[n].uid = things[n].uid /\ things'[n].of = things[n].of
           /\ outcomes' = IF m.attempt = attempt
                          THEN [outcomes EXCEPT ![m.step] = @ \union {things'[m].state}]
                          ELSE outcomes
<1>1. PICK state \in {"succeeded", "failed"} :
        /\ things' = [things EXCEPT
                    ![m].state = state,
                    ![Workspace].state = IF m.step = "fetch" /\ state = "succeeded"
                                         THEN "filled" ELSE @]
        /\ outcomes' = IF m.attempt = attempt
                       THEN [outcomes EXCEPT ![m.step] = @ \union {state}] ELSE outcomes
  BY DEF JobEnds
<1>2. m.kind = "Job" /\ m # Workspace /\ things[m].state = "running"
  BY NamesByKind, KindsOf DEF JobEnds, Sound, ThingsFit, ThingFits, StatesOf
<1>3. m.attempt \in Attempts /\ m.step \in JobSteps /\ m = Job(m.attempt, m.step)
  BY <1>2, NamesByKind
<1>4. things \in [Names -> Thing] /\ Workspace \in Names /\ \A n \in Names : things[n] \in Thing
  BY NamesOf DEF Sound, ThingsFit
<1>. DEFINE full == IF m.step = "fetch" /\ state = "succeeded" THEN "filled" ELSE things[Workspace].state
<1>5. things' = [things EXCEPT ![m].state = state, ![Workspace].state = full]
  BY <1>1, <1>2, <1>4
<1>6. things'[m].state = state /\ things'[Workspace].state = full
  <2>. HIDE DEF full
  <2>. QED
    BY <1>2, <1>4, <1>5 DEF Thing
<1>7. /\ \A n \in Names \ {m, Workspace} : things'[n] = things[n]
      /\ \A n \in Names : things'[n].uid = things[n].uid /\ things'[n].of = things[n].of
  <2>. HIDE DEF full
  <2>. QED
    BY <1>2, <1>4, <1>5 DEF Thing
<1>. QED
  BY <1>1, <1>2, <1>3, <1>6, <1>7

LEMMA NamespaceGoesIs ==
    ASSUME Sound, NamespaceGoes, NEW n \in Names
    PROVE  /\ things'[n].state = "absent" /\ things'[n].uid = things[n].uid
           /\ things'[n].of = things[n].of /\ things[Namespace].state = "terminating"
<1>1. things'[n] = [things[n] EXCEPT !.state = "absent"] /\ things[n] \in Thing
  BY DEF NamespaceGoes, Sound, ThingsFit
<1>. QED
  BY <1>1 DEF Thing, NamespaceGoes

LEMMA PutsIs ==
    ASSUME Sound, NEW e \in Executions, Puts(e)
    PROVE  LET m == Head(exec[e].todo) IN
           /\ m \in Names /\ ~Exists(m)
           /\ (m = Namespace \/ things[Namespace].state = "there")
           /\ things'[m].state = InitialState(m) /\ things'[m].of = exec[e].attempt
           /\ things'[m].uid = things[m].uid + 1
           /\ \A n \in Names \ {m} : things'[n] = things[n]
<1>1. things \in [Names -> Thing]
  BY DEF Sound, ThingsFit
<1>. QED
  BY <1>1 DEF Puts, MayPut, Created

Reaped(e) ==
    /\ Delete(e) \/ DeleteUnanswered(e)
    /\ At(e, "delete") /\ things'[MyJob(e)].state = "absent" /\ exec'[e].gone

Terminated(e) == Goes(e) /\ At(e, "nsDelete") /\ things'[Namespace].state # "there"

LEMMA GoesObject ==
    ASSUME Sound, NEW e \in Executions, Goes(e), NEW n \in Names,
           n.kind \in {"Namespace", "Workspace", "Job"}
    PROVE  \/ things'[n].state = things[n].state
           \/ Puts(e) /\ n = Head(exec[e].todo)
           \/ Reaped(e) /\ n = MyJob(e)
           \/ Terminated(e) /\ n = Namespace
<1>1. /\ exec[e] \in ExecState /\ things \in [Names -> Thing] /\ ExecFits(exec[e])
      /\ exec[e].attempt \in Attempts /\ \A m \in Names : things[m] \in Thing
      /\ exec \in [Executions -> ExecState]
  BY UidsTyped DEF Sound, Typed, ThingsFit
<1>2. CASE things' = things
  BY <1>2
<1>3. ASSUME NEW m \in Names, NEW state, things' = [things EXCEPT ![m].state = state]
      PROVE  /\ n # m => things'[n].state = things[n].state
             /\ things'[m].state = state
  BY <1>1, <1>3 DEF Thing
<1>4. CASE At(e, "put") /\ exec[e].seen = 0 /\ MayPut(e, Head(exec[e].todo))
           /\ PutThing(e, Head(exec[e].todo))
  <2>1. exec[e].todo # <<>>
    BY <1>1, <1>4 DEF ExecFits, Reconciling, At
  <2>2. Puts(e)
    BY <1>1, <1>4, <2>1, ObjectsOf DEF Puts, PutThing
  <2>. QED
    BY <2>2, PutsIs
<1>5. CASE Put(e)
  <2>1. CASE exec[e].seen = 0
    BY <1>2, <1>4, <1>5, <2>1 DEF Put
  <2>2. CASE exec[e].seen # 0
    BY <1>2, <1>5, <2>2 DEF Put, PutThing
  <2>. QED
    BY <2>1, <2>2
<1>6. CASE Delete(e)
  <2>1. MyJob(e) \in Names
    BY <1>1, <1>6, MyJobNamed DEF Delete, At, JobPlaces
  <2>2. CASE /\ things' = [things EXCEPT ![MyJob(e)].state = "absent"]
             /\ exec' = [exec EXCEPT ![e].at = "unlist", ![e].gone = TRUE]
    <3>1. exec'[e].gone
      BY <1>1, <2>2 DEF ExecState
    <3>. QED
      BY <1>3, <1>6, <2>1, <2>2, <3>1 DEF Reaped, Delete
  <2>. QED
    BY <1>2, <1>6, <2>2 DEF Delete
<1>7. CASE Revoke(e)
  <2>1. CASE things' = [things EXCEPT ![Secret(exec[e].attempt)].state = "absent"]
    <3>1. n # Secret(exec[e].attempt) /\ Secret(exec[e].attempt) \in Names
      BY <1>1, NamesOf, KindsOf
    <3>. QED
      BY <1>3, <2>1, <3>1
  <2>. QED
    BY <1>2, <1>7, <2>1 DEF Revoke
<1>8. ASSUME At(e, "nsDelete"), NEW state \in {"absent", "terminating"},
             things' = [things EXCEPT ![Namespace].state = state]
      PROVE  things'[n].state = things[n].state \/ (Terminated(e) /\ n = Namespace)
  <2>1. Namespace \in Names
    BY NamesOf
  <2>. QED
    BY <1>3, <1>8, <2>1 DEF Terminated
<1>9. CASE NsDelete(e)
  <2>. DEFINE state == IF things[Namespace].state = "absent" THEN "absent" ELSE "terminating"
  <2>1. state \in {"absent", "terminating"}
    OBVIOUS
  <2>2. CASE things' = [things EXCEPT ![Namespace].state =
                          IF @ = "absent" THEN @ ELSE "terminating"]
    <3>1. things' = [things EXCEPT ![Namespace].state = state]
      BY <2>2
    <3>. HIDE DEF state
    <3>. QED
      BY <1>8, <1>9, <2>1, <3>1 DEF NsDelete
  <2>. QED
    BY <1>2, <1>9, <2>2 DEF NsDelete
<1>10. CASE CallFails(e)
  <2>1. CASE At(e, "put") /\ MayPut(e, Head(exec[e].todo)) /\ exec[e].seen = 0
             /\ PutThing(e, Head(exec[e].todo))
    BY <1>4, <2>1
  <2>2. CASE At(e, "nsDelete") /\ things' = [things EXCEPT ![Namespace].state = "terminating"]
    BY <1>8, <2>2
  <2>. QED
    BY <1>2, <1>10, <2>1, <2>2 DEF CallFails
<1>11. ASSUME Get(e) \/ Note(e) \/ Wait(e) \/ Collect(e) \/ Find(e) \/ Unlist(e) \/ Watch(e)
              \/ NsGet(e) \/ NsWait(e) \/ NsMark(e) \/ NsPending(e)
       PROVE things' = things
  BY <1>11 DEF Get, Note, Wait, Collect, Find, Unlist, Watch, NsGet, NsWait, NsMark, NsPending
<1>12. CASE DeleteUnanswered(e) /\ At(e, "delete")
  <2>1. MyJob(e) \in Names
    BY <1>1, <1>12, MyJobNamed DEF At, JobPlaces
  <2>2. things' = [things EXCEPT ![MyJob(e)].state = "absent"] /\ exec'[e].gone
    BY <1>1, <1>12, UnansweredMoves DEF Unanswered, At
  <2>. QED
    BY <1>3, <1>12, <2>1, <2>2 DEF Reaped
<1>13. CASE DeleteUnanswered(e) /\ ~At(e, "delete")
  <2>1. things' = [things EXCEPT ![Secret(exec[e].attempt)].state = "absent"]
    BY <1>13 DEF DeleteUnanswered
  <2>2. n # Secret(exec[e].attempt) /\ Secret(exec[e].attempt) \in Names
    BY <1>1, NamesOf, KindsOf
  <2>. QED
    BY <1>3, <2>1, <2>2
<1>. QED
  BY <1>2, <1>5, <1>6, <1>7, <1>9, <1>10, <1>11, <1>12, <1>13 DEF Goes

LEMMA ObjectStep ==
    ASSUME Sound, Next, NEW n \in Names, n.kind \in {"Namespace", "Workspace", "Job"}
    PROVE  \/ things'[n].state = things[n].state
           \/ \E e \in Executions : Puts(e) /\ n = Head(exec[e].todo)
           \/ \E e \in Executions : Reaped(e) /\ n = MyJob(e)
           \/ \E e \in Executions : Terminated(e) /\ n = Namespace
           \/ \E m \in Names : JobEnds(m) /\ n \in {m, Workspace}
           \/ NamespaceGoes
<1>1. ASSUME NEW e \in Executions, Return(e) \/ Crash(e) \/ LeaseLost(e) PROVE things' = things
  BY <1>1 DEF Return, Crash, LeaseLost
<1>2. ASSUME Begin \/ Skip \/ Retry PROVE things' = things
  BY <1>2 DEF Begin, Skip, Retry
<1>3. ASSUME NEW m \in Names, JobEnds(m), n \notin {m, Workspace} PROVE things'[n] = things[n]
  BY <1>3, JobEndsIs
<1>4. ASSUME NEW m \in Names, PreviewStarts(m) PROVE things'[n] = things[n]
  BY <1>4 DEF PreviewStarts, Sound, ThingsFit
<1>. QED
  BY <1>1, <1>2, <1>3, <1>4, GoesObject, NextIs
-----------------------------------------------------------------------------
\* The workspace of the attempt. While no execution has outlived its lease: before the
\* cleanup of an attempt the namespace stands with all that the attempt has put in it; a
\* Job runs in a workspace of its own attempt; and what a fetch has put there stays.
MyWorkspace(x, objects) ==
    objects[Workspace].state # "absent" /\ objects[Workspace].of = x.attempt

NsStands ==
    book["cleanup"] = Absent =>
        \A n \in Names \ {Namespace} :
            Exists(n) /\ things[n].of = attempt => things[Namespace].state = "there"

JobsHaveSpace ==
    \A a \in Attempts : \A s \in JobSteps :
        Exists(Job(a, s)) => Exists(Workspace) /\ things[Workspace].of = a

FetchFilled ==
    \A a \in Attempts :
        things[Job(a, "fetch")].state = "succeeded" => things[Workspace].state = "filled"

PastWorkspace(x) ==
    /\ x.at \in Reconciling /\ x.step \in JobSteps
    /\ Left(x) < Height(x) - 1 \/ (x.at = "note" /\ Left(x) = Height(x) - 1)

Spacious(x, objects) == PastWorkspace(x) => MyWorkspace(x, objects)

AtJob(x) == x.step \in JobSteps /\ (x.at = "wait" \/ (x.at = "note" /\ Left(x) = 1))

JobThere(x, objects) == AtJob(x) => objects[Job(x.attempt, x.step)].state # "absent"

Ended == {"collect", "find", "delete", "unlist", "revoke", "return"}

Fetched(x, objects) ==
    x.at \in Ended /\ x.step = "fetch" /\ x.result = Passed =>
        objects[Workspace].state = "filled" /\ objects[Workspace].of = x.attempt

FetchDone ==
    book["fetch"] = Passed =>
        /\ book["cleanup"] = Absent =>
              things[Workspace].state = "filled" /\ things[Workspace].of = attempt
        /\ Exists(Workspace) /\ things[Workspace].of = attempt => things[Workspace].state = "filled"

Spaced ==
    /\ Alone /\ NsStands /\ JobsHaveSpace /\ FetchFilled /\ FetchDone
    /\ \A e \in Executions :
          Spacious(exec[e], things) /\ JobThere(exec[e], things) /\ Fetched(exec[e], things)

LEMMA NotCleanedBefore ==
    ASSUME Sound, Next, attempt' = attempt, book'["cleanup"] = Absent
    PROVE  book["cleanup"] = Absent
<1>1. "cleanup" \in ClusterSteps /\ attempt \in Int
  BY ClusterAssumption DEF ClusterSteps, Sound, Typed, Attempts
<1>2. Running # Absent /\ \A e \in Executions : exec[e].result # Absent
  <2>1. \A e \in Executions : exec[e].result \in StepResults
    BY DEF Sound, Typed, ExecState
  <2>. QED
    BY <2>1, TerminalIsNotRunning
<1>. QED
  BY <1>1, <1>2, BookStep

\* An execution that works on a step other than the cleanup keeps the namespace standing.
LEMMA NamespaceStays ==
    ASSUME Sound, Alone, Next, book["cleanup"] = Absent, things[Namespace].state = "there"
    PROVE  things'[Namespace].state = "there" /\ ~NamespaceGoes
<1>1. ~NamespaceGoes
  BY DEF NamespaceGoes
<1>2. ASSUME NEW e \in Executions, Terminated(e) PROVE FALSE
  <2>1. exec[e].step = "cleanup" /\ ~At(e, "idle")
    BY <1>2 DEF Terminated, At, Sound, ExecsFit, ExecFits, NsPlaces
  <2>. QED
    BY <2>1, WhoIsAlone, TerminalIsNotRunning DEF Step
<1>3. ASSUME NEW e \in Executions, Puts(e) PROVE Namespace # Head(exec[e].todo)
  BY <1>3, PutsIs DEF Exists
<1>4. ASSUME NEW e \in Executions PROVE Namespace # MyJob(e)
  BY KindsOf DEF MyJob
<1>5. ASSUME NEW m \in Names, JobEnds(m) PROVE Namespace \notin {m, Workspace}
  BY <1>5, JobEndsIs, KindsOf
<1>. QED
  BY <1>1, <1>2, <1>3, <1>4, <1>5, ObjectStep, NamesOf, KindsOf

LEMMA WorkspaceStays ==
    ASSUME Sound, Next, ~NamespaceGoes, Exists(Workspace)
    PROVE  /\ things'[Workspace].state # "absent" /\ things'[Workspace].of = things[Workspace].of
           /\ things[Workspace].state = "filled" => things'[Workspace].state = "filled"
<1>1. ASSUME NEW e \in Executions, Puts(e) PROVE Workspace # Head(exec[e].todo)
  BY <1>1, PutsIs
<1>2. things'[Workspace].of = things[Workspace].of
  BY <1>1, PutsOrSame, PutsIs, NamesOf DEF Same
<1>3. ASSUME NEW e \in Executions PROVE Workspace # MyJob(e) /\ Workspace # Namespace
  BY KindsOf DEF MyJob
<1>4. ASSUME NEW m \in Names, JobEnds(m)
      PROVE things'[Workspace].state \in {things[Workspace].state, "filled"}
  BY <1>4, JobEndsIs
<1>. QED
  BY <1>1, <1>2, <1>3, <1>4, ObjectStep, NamesOf, KindsOf DEF Exists

LEMMA NsStandsStep ==
    ASSUME Sound, Spaced, Next
    PROVE  NsStands'
<1>. SUFFICES ASSUME book'["cleanup"] = Absent, NEW n \in Names \ {Namespace},
                     things'[n].state # "absent", things'[n].of = attempt'
              PROVE  things'[Namespace].state = "there"
  BY DEF NsStands, Exists
<1>1. things[n].of \in Nat /\ things[n].of <= attempt /\ attempt \in Nat
  BY ClusterAssumption, UidsTyped DEF Sound, ThingsFit, Thing, Typed, Attempts
<1>2. ~Retry
  BY <1>1, RetryWorkflow DEF Retry
<1>3. attempt' = attempt
  BY <1>2, BookStep DEF ClusterSteps
<1>4. book["cleanup"] = Absent
  BY <1>3, NotCleanedBefore
<1>5. CASE things[Namespace].state = "there"
  BY <1>4, <1>5, NamespaceStays DEF Spaced
<1>6. CASE things[Namespace].state # "there"
  <2>1. ~(Exists(n) /\ things[n].of = attempt)
    BY <1>4, <1>6 DEF Spaced, NsStands
  <2>2. ASSUME NEW e \in Executions, Puts(e) PROVE things'[n] = things[n]
    BY <1>6, <2>2, PutsIs
  <2>3. Same(n)
    BY <2>2, PutsOrSame DEF Same, Exists
  <2>4. n = Workspace /\ ~Exists(n)
    BY <1>3, <2>1, <2>3 DEF Same, Exists
  <2>5. ASSUME NEW m \in Names, JobEnds(m) PROVE FALSE
    <3>1. m.kind = "Job" /\ Exists(m) /\ m.attempt \in Attempts /\ m.step \in JobSteps
          /\ m = Job(m.attempt, m.step)
      BY <2>5, JobEndsIs DEF Exists
    <3>. QED
      BY <2>4, <3>1 DEF Spaced, JobsHaveSpace
  <2>6. ~NamespaceGoes
    BY NamespaceGoesIs
  <2>7. ASSUME NEW e \in Executions PROVE n # MyJob(e)
    BY <2>4, KindsOf DEF MyJob
  <2>. QED
    BY <2>2, <2>4, <2>5, <2>6, <2>7, ObjectStep, KindsOf DEF Exists
<1>. QED
  BY <1>5, <1>6

\* What is at the head of the plan of an execution that creates it.
LEMMA PutsPlace ==
    ASSUME Sound, NEW e \in Executions, Puts(e)
    PROVE  LET n == Head(exec[e].todo) IN
           /\ exec[e].step \in JobSteps \union {"preview"} /\ exec[e].attempt \in Attempts
           /\ n = Object(exec[e].attempt, exec[e].step, Len(exec[e].todo))
           /\ n.kind = "Job" => /\ Len(exec[e].todo) = 1 /\ exec[e].step \in JobSteps
                                /\ n = Job(exec[e].attempt, exec[e].step)
           /\ ~At(e, "idle")
<1>1. exec[e] \in ExecState /\ ExecFits(exec[e]) /\ exec[e].todo # <<>> /\ At(e, "put")
      /\ exec[e].attempt \in Attempts
  BY UidsTyped DEF Puts
<1>2. exec[e].step \in JobSteps \union {"preview"}
  BY <1>1 DEF ExecFits, Reconciling, At
<1>3. Head(exec[e].todo) = Object(exec[e].attempt, exec[e].step, Len(exec[e].todo))
  BY <1>1, TodoHead DEF ExecFits
<1>. QED
  BY <1>1, <1>2, <1>3, KindsOf DEF Object, At

LEMMA JobsHaveSpaceStep ==
    ASSUME Sound, Spaced, Next
    PROVE  JobsHaveSpace'
<1>. SUFFICES ASSUME NEW a \in Attempts, NEW s \in JobSteps, things'[Job(a, s)].state # "absent"
              PROVE  things'[Workspace].state # "absent" /\ things'[Workspace].of = a
  BY DEF JobsHaveSpace, Exists
<1>. DEFINE n == Job(a, s)
<1>1. n \in Names /\ n # Workspace /\ n.kind = "Job" /\ n # Namespace
  BY NamesOf, KindsOf
<1>2. ~NamespaceGoes
  BY <1>1, NamespaceGoesIs
<1>3. CASE Exists(n)
  <2>1. Exists(Workspace) /\ things[Workspace].of = a
    BY <1>3 DEF Spaced, JobsHaveSpace
  <2>. QED
    BY <1>2, <2>1, WorkspaceStays
<1>4. CASE ~Exists(n)
  <2>1. ~Same(n)
    BY <1>1, <1>4 DEF Same, Exists
  <2>2. PICK e \in Executions : Puts(e)
    BY <1>1, <2>1, PutsOrSame
  <2>3. n = Head(exec[e].todo)
    BY <1>1, <1>4, <2>2, PutsIs DEF Exists
  <2>4. Len(exec[e].todo) = 1 /\ exec[e].step \in JobSteps /\ n = Job(exec[e].attempt, exec[e].step)
    BY <1>1, <2>2, <2>3, PutsPlace
  <2>5. PastWorkspace(exec[e]) /\ exec[e].attempt = a
    BY <2>2, <2>4, KindsOf DEF PastWorkspace, Left, Height, Reconciling, Puts, At
  <2>6. Exists(Workspace) /\ things[Workspace].of = a
    BY <2>5 DEF Spaced, Spacious, MyWorkspace, Exists
  <2>. QED
    BY <1>2, <2>6, WorkspaceStays
<1>. QED
  BY <1>3, <1>4

LEMMA FetchFilledStep ==
    ASSUME Sound, Spaced, Next
    PROVE  FetchFilled'
<1>. SUFFICES ASSUME NEW a \in Attempts, things'[Job(a, "fetch")].state = "succeeded"
              PROVE  things'[Workspace].state = "filled"
  BY DEF FetchFilled
<1>. DEFINE n == Job(a, "fetch")
<1>1. n \in Names /\ n # Workspace /\ n # Namespace /\ n.kind = "Job" /\ n.step = "fetch"
  BY NamesOf, KindsOf DEF JobSteps
<1>2. ~NamespaceGoes
  BY <1>1, NamespaceGoesIs
<1>3. CASE things[n].state = "succeeded"
  BY <1>2, <1>3, WorkspaceStays DEF Spaced, FetchFilled, Exists
<1>4. ASSUME NEW e \in Executions, Puts(e), n = Head(exec[e].todo) PROVE FALSE
  BY <1>1, <1>4, PutsIs DEF InitialState
<1>5. ASSUME NEW e \in Executions, Reaped(e), n = MyJob(e) PROVE FALSE
  BY <1>5 DEF Reaped
<1>6. ASSUME NEW m \in Names, JobEnds(m), n = m PROVE things'[Workspace].state = "filled"
  BY <1>1, <1>6, JobEndsIs
<1>. QED
  BY <1>1, <1>2, <1>3, <1>4, <1>5, <1>6, ObjectStep
-----------------------------------------------------------------------------
\* How an execution comes to an object, and to an end.
LEMMA GoesReconciles ==
    ASSUME Sound, NEW e \in Executions, Goes(e), exec'[e].at \in Reconciling \union {"wait"}
    PROVE  LET x == exec[e]
               y == exec'[e]
               n == Head(x.todo)
           IN /\ x.at \in Reconciling /\ x.todo # <<>>
              /\ \/ /\ x.at = "get" /\ y.todo = x.todo /\ y.at \in {"put", "note"}
                    /\ things' = things /\ ~Foreign(e, n)
                    /\ y.at = "note" => Exists(n) /\ Adopted(n)
                 \/ /\ x.at = "put" /\ y.todo = x.todo /\ y.at = "note"
                    /\ Puts(e) \/ (x.seen # 0 /\ things' = things)
                 \/ /\ x.at = "note" /\ y.todo = Tail(x.todo) /\ y.at # "note" /\ things' = things
                    /\ y.at = "wait" => y.todo = <<>>
<1>. DEFINE x == exec[e]
            y == exec'[e]
            n == Head(x.todo)
<1>1. x \in ExecState /\ exec \in [Executions -> ExecState] /\ ExecFits(x)
  BY UidsTyped DEF Sound, Typed
<1>2. x.at \in Reconciling => x.todo # <<>>
  BY <1>1 DEF ExecFits
<1>3. ~Throw(e)
  BY <1>1 DEF Throw, ExecState, Reconciling
<1>4. CASE Get(e)
  <2>1. /\ x.at = "get" /\ ~Foreign(e, n) /\ things' = things
        /\ exec' = [exec EXCEPT
                       ![e].at = IF Exists(n) /\ Adopted(n) THEN "note" ELSE "put",
                       ![e].seen = IF Exists(n) THEN things[n].uid ELSE 0]
    BY <1>3, <1>4 DEF Get, At
  <2>2. y.todo = x.todo /\ y.at = IF Exists(n) /\ Adopted(n) THEN "note" ELSE "put"
    BY <1>1, <2>1 DEF ExecState
  <2>. QED
    BY <1>2, <2>1, <2>2 DEF Reconciling
<1>5. CASE Put(e)
  <2>1. x.at = "put" /\ MayPut(e, n) /\ PutThing(e, n) /\ y.todo = x.todo /\ y.at = "note"
    BY <1>1, <1>3, <1>5 DEF Put, At, ExecState
  <2>2. x.todo # <<>>
    BY <1>2, <2>1 DEF Reconciling
  <2>3. Puts(e) \/ (x.seen # 0 /\ things' = things)
    BY <1>1, <1>5, <2>1, <2>2, ObjectsOf DEF Puts, PutThing, Goes, At
  <2>. QED
    BY <2>1, <2>2, <2>3 DEF Reconciling
<1>6. CASE Note(e)
  <2>1. x.at = "note" /\ y.todo = Tail(x.todo) /\ y.at = AfterNote(e, Tail(x.todo)) /\ things' = things
    BY <1>1, <1>6 DEF Note, At, ExecState
  <2>2. y.at # "note" /\ (y.at = "wait" => y.todo = <<>>)
    BY <2>1 DEF AfterNote
  <2>. QED
    BY <1>2, <2>1, <2>2 DEF Reconciling
<1>7. ASSUME Wait(e) \/ Collect(e) \/ Find(e) \/ Delete(e) \/ Unlist(e) \/ Revoke(e) \/ Watch(e)
             \/ NsGet(e) \/ NsDelete(e) \/ NsWait(e) \/ NsMark(e) \/ NsPending(e) \/ CallFails(e)
             \/ DeleteUnanswered(e)
      PROVE  FALSE
  <2>1. CASE Wait(e) \/ Collect(e) \/ Find(e)
    BY <1>1, <1>3, <2>1 DEF Wait, Collect, Find, Goto, AfterJob, ExecState, Reconciling
  <2>2. CASE Delete(e) \/ Unlist(e) \/ Revoke(e) \/ Watch(e)
    BY <1>1, <1>3, <2>2 DEF Delete, Unlist, Revoke, Watch, Goto, AfterJob, ExecState, Reconciling
  <2>3. CASE NsGet(e) \/ NsDelete(e) \/ NsWait(e)
    BY <1>1, <1>3, <2>3 DEF NsGet, NsDelete, NsWait, Goto, ExecState, Reconciling
  <2>4. CASE NsMark(e) \/ NsPending(e) \/ CallFails(e)
    BY <1>1, <1>3, <2>4 DEF NsMark, NsPending, CallFails, Goto, ExecState, Reconciling
  <2>5. CASE DeleteUnanswered(e)
    BY <1>1, <2>5, UnansweredMoves DEF Unanswered, AfterJob, Reconciling
  <2>. QED
    BY <1>7, <2>1, <2>2, <2>3, <2>4, <2>5
<1>. QED
  BY <1>4, <1>5, <1>6, <1>7 DEF Goes

LEMMA GoesEnds ==
    ASSUME Sound, NEW e \in Executions, Goes(e), exec'[e].at \in Ended, exec[e].step \in JobSteps
    PROVE  \/ exec'[e].result = Incomplete
           \/ exec[e].at \in Ended /\ exec'[e].result = exec[e].result
           \/ Wait(e)
<1>. DEFINE x == exec[e]
            y == exec'[e]
<1>1. x \in ExecState /\ exec \in [Executions -> ExecState] /\ ExecFits(x)
  BY UidsTyped DEF Sound, Typed
<1>2. CASE Throw(e)
  BY <1>1, <1>2 DEF Throw, ExecState
<1>3. CASE Get(e) /\ ~Throw(e)
  BY <1>1, <1>3 DEF Get, ExecState, Ended
<1>4. CASE Put(e) /\ ~Throw(e)
  BY <1>1, <1>4 DEF Put, ExecState, Ended
<1>5. CASE Note(e)
  <2>1. y.at = AfterNote(e, Tail(x.todo))
    BY <1>1, <1>5 DEF Note, ExecState
  <2>. QED
    BY <2>1 DEF AfterNote, Ended
<1>6. CASE (Collect(e) \/ Find(e) \/ Delete(e) \/ Unlist(e) \/ Revoke(e)) /\ ~Throw(e)
  <2>1. x.at \in Ended
    BY <1>6 DEF Collect, Find, Delete, Unlist, Revoke, At, Ended
  <2>2. y.result = x.result
    BY <1>1, <1>6 DEF Collect, Find, Delete, Unlist, Revoke, Goto, ExecState
  <2>. QED
    BY <2>1, <2>2
<1>7. CASE CallFails(e) /\ ~Throw(e)
  <2>1. At(e, "revoke") /\ Goto(e, "return")
    BY <1>7 DEF CallFails
  <2>2. y.result = x.result
    BY <1>1, <2>1 DEF Goto, ExecState
  <2>. QED
    BY <2>1, <2>2 DEF Ended, At
<1>8. ASSUME Watch(e) \/ NsGet(e) \/ NsDelete(e) \/ NsWait(e) \/ NsMark(e) \/ NsPending(e)
      PROVE  FALSE
  BY <1>1, <1>8 DEF Watch, NsGet, NsDelete, NsWait, NsMark, NsPending, At, ExecFits, NsPlaces,
     JobSteps
<1>9. CASE DeleteUnanswered(e)
  BY <1>1, <1>9, UnansweredMoves DEF Unanswered, At, Ended
<1>. QED
  BY <1>2, <1>3, <1>4, <1>5, <1>6, <1>7, <1>8, <1>9 DEF Goes

LEMMA WaitIs ==
    ASSUME Sound, NEW e \in Executions, Wait(e)
    PROVE  /\ things' = things /\ outcomes' = outcomes /\ exec[e].at = "wait"
           /\ exec[e].step \in JobSteps /\ exec[e].attempt \in Attempts
           /\ exec'[e].result = Passed => things[MyJob(e)].state = "succeeded"
           /\ exec'[e].result = AppFailure => things[MyJob(e)].state \notin {"succeeded", "running"}
<1>1. exec[e] \in ExecState /\ exec \in [Executions -> ExecState] /\ ExecFits(exec[e])
      /\ exec[e].attempt \in Attempts /\ exec[e].step \in JobSteps
  BY UidsTyped DEF Sound, Typed, Wait, At, ExecFits, JobPlaces
<1>. DEFINE state == things[MyJob(e)].state
<1>2. PICK result \in CASE state = "succeeded" -> {Passed}
                       [] state = "running"   -> {Incomplete}
                       [] OTHER               -> {AppFailure} :
         exec' = [exec EXCEPT ![e].at = "collect", ![e].result = result]
  BY DEF Wait
<1>3. exec'[e].result = result
  BY <1>1, <1>2 DEF ExecState
<1>4. result = Passed => state = "succeeded"
  BY <1>2 DEF Passed, Incomplete, AppFailure
<1>5. result = AppFailure => state \notin {"succeeded", "running"}
  BY <1>2 DEF Passed, Incomplete, AppFailure
<1>. QED
  BY <1>1, <1>3, <1>4, <1>5 DEF Wait, At, history

\* An execution with something of its attempt in the cluster keeps the namespace standing.
LEMMA AliveStands ==
    ASSUME Sound, Spaced, NEW e \in Executions, ~At(e, "idle"), exec[e].step # "cleanup",
           NEW n \in Names, n # Namespace, Exists(n), things[n].of = exec[e].attempt
    PROVE  ~NamespaceGoes
<1>1. book["cleanup"] = Absent /\ exec[e].attempt = attempt
  BY WhoIsAlone DEF Spaced, Step
<1>. QED
  BY <1>1 DEF Spaced, NsStands, NamespaceGoes

LEMMA PlanHeight ==
    ASSUME NEW a \in Attempts, NEW s \in JobSteps
    PROVE  Len(Plan(a, s)) = IF s = "fetch" THEN 4 ELSE 3
<1>1. Plan(a, "fetch") = JobPlan(a, "fetch") /\ Plan(a, "test") = JobPlan(a, "test")
  BY DEF Plan, JobSteps
<1>. QED
  BY <1>1, PlanSeqs DEF JobSteps

LEMMA SpaciousStep ==
    ASSUME Sound, Spaced, Next, NEW f \in Executions
    PROVE  Spacious(exec'[f], things')
<1>. SUFFICES ASSUME PastWorkspace(exec'[f]) PROVE MyWorkspace(exec'[f], things')
  BY DEF Spacious
<1>. DEFINE x == exec[f]
            y == exec'[f]
<1>1. /\ x \in ExecState /\ exec \in [Executions -> ExecState] /\ ExecFits(x)
      /\ things \in [Names -> Thing]
  BY UidsTyped DEF Sound, Typed, ThingsFit
<1>2. Workspace \in Names /\ Workspace # Namespace
  BY NamesOf, KindsOf
<1>3. ASSUME PastWorkspace(x) PROVE MyWorkspace(x, things')
  <2>1. ~At(f, "idle") /\ x.step # "cleanup"
    BY <1>3 DEF PastWorkspace, Reconciling, At, JobSteps
  <2>2. Exists(Workspace) /\ things[Workspace].of = x.attempt
    BY <1>3 DEF Spaced, Spacious, MyWorkspace, Exists
  <2>3. ~NamespaceGoes
    BY <1>2, <2>1, <2>2, AliveStands
  <2>. QED
    BY <2>2, <2>3, WorkspaceStays DEF MyWorkspace
<1>4. CASE y = x
  BY <1>3, <1>4
<1>5. CASE Goes(f)
  <2>1. y.at \in Reconciling /\ y.step \in JobSteps /\ y.step = x.step /\ y.attempt = x.attempt
        /\ Height(y) = Height(x) /\ Height(x) \in {3, 4}
    BY <1>1, <1>5, GoesMoves DEF Moved, PastWorkspace, Height
  <2>2. CASE PastWorkspace(x)
    BY <1>3, <2>1, <2>2 DEF MyWorkspace
  <2>3. CASE ~PastWorkspace(x)
    <3>1. x.at \in Reconciling /\ x.todo # <<>>
      BY <1>5, <2>1, GoesReconciles
    <3>2. Len(x.todo) \in Nat \ {0} /\ Len(Tail(x.todo)) = Len(x.todo) - 1
          /\ Head(x.todo) = Object(x.attempt, x.step, Len(x.todo))
      BY <1>1, <3>1, TodoHead DEF ExecFits
    <3>3. ~(Left(x) < Height(x) - 1) /\ ~(x.at = "note" /\ Left(x) = Height(x) - 1)
      BY <2>1, <2>3, <3>1 DEF PastWorkspace
    <3>4. Left(y) < Height(x) - 1 \/ (y.at = "note" /\ Left(y) = Height(x) - 1)
      BY <2>1 DEF PastWorkspace
    <3>5. ASSUME y.todo = x.todo PROVE y.at = "note" /\ Left(x) = Height(x) - 1
      BY <3>3, <3>4, <3>5 DEF Left
    <3>6. y.todo = x.todo => Head(x.todo) = Workspace
      <4>1. CASE x.step = "fetch"
        <5>1. y.todo = x.todo => Len(x.todo) = 3
          BY <3>5, <4>1 DEF Left, Height
        <5>2. Object(x.attempt, "fetch", 3) = Workspace
          BY DEF Object
        <5>. QED
          BY <3>2, <4>1, <5>1, <5>2
      <4>2. CASE x.step # "fetch"
        <5>1. y.todo = x.todo => Len(x.todo) = 2
          <6>1. Height(x) = 3
            BY <4>2 DEF Height
          <6>2. y.todo = x.todo => Left(x) = 3 - 1
            BY <3>5, <6>1
          <6>. QED
            BY <6>2 DEF Left
        <5>2. Object(x.attempt, x.step, 2) = Workspace
          BY <4>2 DEF Object
        <5>. QED
          BY <3>2, <5>1, <5>2
      <4>. QED
        BY <4>1, <4>2
    <3>7. CASE x.at = "get" /\ y.todo = x.todo
      <4>1. Exists(Workspace) /\ ~Foreign(f, Workspace) /\ things' = things
        BY <1>5, <2>1, <3>5, <3>6, <3>7, GoesReconciles
      <4>. QED
        BY <2>1, <4>1, KindsOf DEF Foreign, MyWorkspace, Exists
    <3>8. CASE x.at = "put" /\ y.todo = x.todo
      <4>1. x.seen = 0
        <5>1. Left(x) # Height(x) /\ Left(x) # 1
          BY <2>1, <3>5, <3>8
        <5>. QED
          BY <1>1, <3>8, <5>1 DEF ExecFits
      <4>2. Puts(f)
        BY <1>5, <2>1, <3>8, <4>1, GoesReconciles
      <4>3. things'[Workspace].state = InitialState(Workspace) /\ things'[Workspace].of = x.attempt
        BY <3>6, <3>8, <4>2, PutsIs
      <4>. QED
        BY <2>1, <4>3 DEF MyWorkspace, InitialState
    <3>9. CASE x.at = "note" /\ y.todo = Tail(x.todo)
      <4>1. y.at # "note" /\ Left(y) = Len(x.todo) - 1
        BY <1>5, <2>1, <3>2, <3>9, GoesReconciles DEF Left
      <4>2. \A h, k \in Nat : k - 1 < h - 1 => k < h - 1 \/ k = h - 1
        OBVIOUS
      <4>. QED
        BY <2>1, <3>2, <3>3, <3>4, <3>9, <4>1, <4>2 DEF Left
    <3>. QED
      BY <1>5, <2>1, <3>7, <3>8, <3>9, GoesReconciles
  <2>. QED
    BY <2>2, <2>3
<1>6. CASE y = Idle
  BY <1>6 DEF Idle, PastWorkspace, Reconciling
<1>7. CASE Begin /\ Begins(f)
  <2>1. PICK e \in Executions :
          exec' = [exec EXCEPT ![e] = [Idle EXCEPT !.at = Opening(NextStep.step), !.attempt = attempt,
                                          !.step = NextStep.step, !.todo = Plan(attempt, NextStep.step)]]
    BY <1>7 DEF Begin
  <2>2. CASE e # f
    BY <1>1, <1>4, <2>1, <2>2
  <2>3. CASE e = f
    <3>1. y.todo = Plan(attempt, y.step) /\ y.attempt = attempt
      BY <1>1, <2>1, <2>3 DEF Idle
    <3>2. y.at = Opening(y.step) /\ y.step \in JobSteps
      BY <1>7 DEF Begins, PastWorkspace
    <3>3. Len(y.todo) = Height(y)
      BY <3>1, <3>2, PlanHeight DEF Height, Sound, Typed
    <3>4. Height(y) \in {3, 4} /\ y.at # "note"
      BY <3>2 DEF Height, Opening
    <3>. QED
      BY <3>3, <3>4 DEF PastWorkspace, Left
  <2>. QED
    BY <2>2, <2>3
<1>. QED
  BY <1>4, <1>5, <1>6, <1>7, WhoMoves
LEMMA JobThereStep ==
    ASSUME Sound, Spaced, Next, NEW f \in Executions
    PROVE  JobThere(exec'[f], things')
<1>. DEFINE x == exec[f]
            y == exec'[f]
            n == Job(x.attempt, x.step)
<1>. SUFFICES ASSUME AtJob(y) PROVE things'[Job(y.attempt, y.step)].state # "absent"
  BY DEF JobThere
<1>1. /\ x \in ExecState /\ exec \in [Executions -> ExecState] /\ ExecFits(x)
      /\ things \in [Names -> Thing] /\ x.attempt \in Attempts
  BY UidsTyped DEF Sound, Typed, ThingsFit
<1>2. CASE y = x
  <2>1. ~At(f, "idle") /\ x.step \in JobSteps /\ x.step # "cleanup" /\ Exists(n)
        /\ x.at \in {"wait", "note"}
    BY <1>2 DEF AtJob, At, JobSteps, Spaced, JobThere, Exists
  <2>2. n \in Names /\ n.kind = "Job" /\ n # Namespace /\ n # Workspace /\ n.attempt = x.attempt
    BY <1>1, <2>1, NamesOf, KindsOf
  <2>3. things[n].of = x.attempt
    BY <2>1, <2>2 DEF Sound, ThingsFit, ThingFits, Exists
  <2>4. ~NamespaceGoes
    BY <2>1, <2>2, <2>3, AliveStands
  <2>5. ASSUME NEW e \in Executions, Reaped(e) PROVE FALSE
    <3>1. exec[e].at = "delete" /\ ~At(e, "idle")
      BY <2>5 DEF Reaped, Delete, At
    <3>2. e # f
      BY <2>1, <3>1
    <3>3. x = Idle
      BY <3>1, <3>2, WhoIsAlone DEF Spaced
    <3>. QED
      BY <2>1, <3>3 DEF Idle
  <2>6. ASSUME NEW e \in Executions, Puts(e), n = Head(exec[e].todo) PROVE things'[n].state # "absent"
    BY <2>6, PutsIs DEF InitialState
  <2>7. ASSUME NEW m \in Names, JobEnds(m), n \in {m, Workspace} PROVE things'[n].state # "absent"
    BY <2>2, <2>7, JobEndsIs
  <2>. QED
    BY <1>2, <2>1, <2>2, <2>4, <2>5, <2>6, <2>7, ObjectStep DEF Exists
<1>3. CASE Goes(f)
  <2>1. y.at \in Reconciling \union {"wait"} /\ y.step \in JobSteps /\ y.step = x.step
        /\ y.attempt = x.attempt /\ (y.at = "note" => Len(y.todo) = 1)
    BY <1>1, <1>3, GoesMoves DEF Moved, AtJob, Reconciling, Left
  <2>2. x.at \in Reconciling /\ x.todo # <<>>
    BY <1>3, <2>1, GoesReconciles
  <2>3. /\ Tail(x.todo) = <<>> <=> Len(x.todo) = 1
        /\ Len(x.todo) = 1 => Head(x.todo) = n
    <3>1. Object(x.attempt, x.step, 1) = n
      BY <2>1 DEF Object, JobSteps
    <3>. QED
      BY <1>1, <2>2, <3>1, TodoHead DEF ExecFits
  <2>4. CASE x.at = "get"
    BY <1>3, <2>1, <2>3, <2>4, GoesReconciles DEF Reconciling, AtJob, Exists
  <2>5. CASE x.at = "put"
    <3>1. y.at = "note" /\ Len(x.todo) = 1 /\ (Puts(f) \/ (x.seen # 0 /\ things' = things))
      BY <1>3, <2>1, <2>5, GoesReconciles
    <3>2. x.seen = 0
      <4>1. Left(x) # Height(x) /\ x.step # "preview"
        BY <2>1, <3>1 DEF Left, Height, JobSteps
      <4>. QED
        BY <1>1, <2>5, <4>1 DEF ExecFits
    <3>. QED
      BY <2>1, <2>3, <3>1, <3>2, PutsIs DEF InitialState
  <2>6. CASE x.at = "note"
    <3>1. y.at = "wait" /\ Tail(x.todo) = <<>> /\ things' = things
      BY <1>3, <2>1, <2>6, GoesReconciles DEF AtJob
    <3>2. AtJob(x)
      BY <2>1, <2>3, <2>6, <3>1 DEF AtJob, Left
    <3>. QED
      BY <2>1, <3>1, <3>2 DEF Spaced, JobThere
  <2>. QED
    BY <2>2, <2>4, <2>5, <2>6 DEF Reconciling
<1>4. CASE y = Idle
  BY <1>4 DEF Idle, AtJob
<1>5. CASE Begin /\ Begins(f)
  BY <1>5 DEF Begins, AtJob, Opening
<1>. QED
  BY <1>2, <1>3, <1>4, <1>5, WhoMoves

LEMMA FetchedStep ==
    ASSUME Sound, Spaced, Next, NEW f \in Executions
    PROVE  Fetched(exec'[f], things')
<1>. DEFINE x == exec[f]
            y == exec'[f]
<1>. SUFFICES ASSUME y.at \in Ended, y.step = "fetch", y.result = Passed
              PROVE  things'[Workspace].state = "filled" /\ things'[Workspace].of = y.attempt
  BY DEF Fetched
<1>1. /\ x \in ExecState /\ exec \in [Executions -> ExecState] /\ ExecFits(x)
      /\ things \in [Names -> Thing] /\ x.attempt \in Attempts
  BY UidsTyped DEF Sound, Typed, ThingsFit
<1>2. Workspace \in Names /\ Workspace # Namespace /\ "fetch" \in JobSteps /\ Passed # Incomplete
  BY NamesOf, KindsOf DEF JobSteps, Passed, Incomplete
<1>3. ASSUME x.at \in Ended, x.step = "fetch", x.result = Passed
      PROVE  things'[Workspace].state = "filled" /\ things'[Workspace].of = x.attempt
  <2>1. things[Workspace].state = "filled" /\ things[Workspace].of = x.attempt
    BY <1>3 DEF Spaced, Fetched
  <2>2. ~At(f, "idle") /\ Exists(Workspace)
    BY <1>3, <2>1 DEF At, Ended, Exists
  <2>3. ~NamespaceGoes
    BY <1>2, <1>3, <2>1, <2>2, AliveStands
  <2>. QED
    BY <2>1, <2>2, <2>3, WorkspaceStays
<1>4. CASE y = x
  BY <1>3, <1>4
<1>5. CASE Goes(f)
  <2>1. y.step = x.step /\ y.attempt = x.attempt
    BY <1>1, <1>5, GoesMoves DEF Moved
  <2>2. CASE x.at \in Ended /\ y.result = x.result
    BY <1>3, <2>1, <2>2
  <2>3. CASE Wait(f)
    <3>1. things' = things /\ things[MyJob(f)].state = "succeeded"
      BY <2>3, WaitIs
    <3>2. MyJob(f) = Job(x.attempt, "fetch")
      BY <2>1 DEF MyJob
    <3>3. things[Workspace].state = "filled"
      BY <1>1, <3>1, <3>2 DEF Spaced, FetchFilled
    <3>4. things[Workspace].of = x.attempt
      BY <1>1, <1>2, <3>1, <3>2 DEF Spaced, JobsHaveSpace, Exists
    <3>. QED
      BY <2>1, <3>1, <3>3, <3>4
  <2>. QED
    BY <1>2, <1>5, <2>1, <2>2, <2>3, GoesEnds
<1>6. CASE y = Idle
  BY <1>6 DEF Idle, Ended
<1>7. CASE Begin /\ Begins(f)
  BY <1>7 DEF Begins, Ended, Opening
<1>. QED
  BY <1>4, <1>5, <1>6, <1>7, WhoMoves

LEMMA FetchDoneStep ==
    ASSUME Sound, Spaced, Next
    PROVE  FetchDone'
<1>. SUFFICES ASSUME book'["fetch"] = Passed
              PROVE  /\ book'["cleanup"] = Absent =>
                          things'[Workspace].state = "filled" /\ things'[Workspace].of = attempt'
                     /\ things'[Workspace].state # "absent" /\ things'[Workspace].of = attempt' =>
                          things'[Workspace].state = "filled"
  BY DEF FetchDone, Exists
<1>1. Workspace \in Names /\ Workspace # Namespace /\ "fetch" \in ClusterSteps
      /\ Passed # Absent /\ Passed # Running /\ Passed # Skipped
  BY NamesOf, KindsOf DEF ClusterSteps, Passed, Absent, Running, Skipped
<1>2. ASSUME NEW e \in Executions, Return(e), Holds(e), Step(e) = "fetch",
             attempt' = attempt, exec[e].result = Passed
      PROVE  things'[Workspace].state = "filled" /\ things'[Workspace].of = attempt'
  <2>1. things' = things /\ exec[e].at = "return" /\ exec[e].attempt = attempt
    BY <1>2 DEF Return, At, Holds, IsCurrent
  <2>. QED
    BY <1>2, <2>1 DEF Spaced, Fetched, Ended, Step
<1>3. ASSUME attempt' = attempt, book["fetch"] = Passed
      PROVE  /\ book'["cleanup"] = Absent =>
                  things'[Workspace].state = "filled" /\ things'[Workspace].of = attempt'
             /\ things'[Workspace].state # "absent" /\ things'[Workspace].of = attempt' =>
                  things'[Workspace].state = "filled"
  <2>1. ASSUME NEW e \in Executions, Puts(e) PROVE Workspace # Head(exec[e].todo)
    <3>1. exec[e].step # "cleanup" /\ ~At(e, "idle")
      BY <2>1, PutsPlace DEF JobSteps
    <3>2. book["cleanup"] = Absent
      BY <3>1, WhoIsAlone DEF Spaced, Step
    <3>3. Exists(Workspace)
      BY <1>3, <3>2 DEF Spaced, FetchDone, Exists
    <3>. QED
      BY <2>1, <3>3, PutsIs
  <2>2. things'[Workspace].of = things[Workspace].of
    BY <1>1, <2>1, PutsOrSame, PutsIs DEF Same
  <2>3. ASSUME NEW e \in Executions PROVE Workspace # MyJob(e)
    BY KindsOf DEF MyJob
  <2>4. things'[Workspace].state \in {things[Workspace].state, "filled", "absent"}
        /\ (things'[Workspace].state = "absent" => NamespaceGoes \/ ~Exists(Workspace))
    <3>1. ASSUME NEW m \in Names, JobEnds(m)
          PROVE  things'[Workspace].state \in {things[Workspace].state, "filled"}
      BY <3>1, JobEndsIs
    <3>. QED
      BY <1>1, <2>1, <2>3, <3>1, NamespaceGoesIs, ObjectStep, KindsOf DEF Exists
  <2>5. ASSUME book'["cleanup"] = Absent
        PROVE  things'[Workspace].state = "filled" /\ things'[Workspace].of = attempt'
    <3>1. book["cleanup"] = Absent
      BY <1>3, <2>5, NotCleanedBefore
    <3>2. things[Workspace].state = "filled" /\ things[Workspace].of = attempt
      BY <1>3, <3>1 DEF Spaced, FetchDone
    <3>3. ~NamespaceGoes
      BY <1>1, <3>1, <3>2 DEF Spaced, NsStands, NamespaceGoes, Exists
    <3>. QED
      BY <1>3, <2>2, <2>4, <3>2, <3>3 DEF Exists
  <2>. QED
    BY <1>3, <2>2, <2>4, <2>5 DEF Spaced, FetchDone, Exists
<1>. QED
  BY <1>1, <1>2, <1>3, BookStep

LEMMA SpacedStep ==
    ASSUME Sound, Spaced, Next, Undisturbed'
    PROVE  Spaced'
<1>1. Alone' /\ NsStands' /\ JobsHaveSpace' /\ FetchFilled' /\ FetchDone'
  BY AloneStep, NsStandsStep, JobsHaveSpaceStep, FetchFilledStep, FetchDoneStep DEF Spaced
<1>2. \A e \in Executions :
        Spacious(exec'[e], things') /\ JobThere(exec'[e], things') /\ Fetched(exec'[e], things')
  BY SpaciousStep, JobThereStep, FetchedStep
<1>. QED
  BY <1>1, <1>2 DEF Spaced
Settled == Sound /\ (Undisturbed => Spaced)

LEMMA SettledInit == Init => Settled
<1>. SUFFICES ASSUME Init PROVE Settled
  OBVIOUS
<1>1. /\ \A n \in Names : things[n].state = "absent"
      /\ \A e \in Executions : exec[e] = Idle
  BY DEF Init, NoThing
<1>2. Idle.at = "idle"
  BY DEF Idle
<1>3. Alone /\ NsStands /\ JobsHaveSpace
  BY <1>1, <1>2, NamesOf DEF Alone, At, NsStands, JobsHaveSpace, Exists
<1>4. FetchFilled
  BY <1>1, NamesOf DEF FetchFilled, JobSteps
<1>5. FetchDone
  BY DEF Init, FetchDone, ClusterSteps, Passed, Absent
<1>6. \A e \in Executions :
        Spacious(exec[e], things) /\ JobThere(exec[e], things) /\ Fetched(exec[e], things)
  BY <1>1, <1>2 DEF Spacious, PastWorkspace, Reconciling, JobThere, AtJob, Fetched, Ended
<1>. QED
  BY <1>3, <1>4, <1>5, <1>6, SoundInit DEF Settled, Spaced

LEMMA SettledStep == Settled /\ [Next]_vars => Settled'
<1>. SUFFICES ASSUME Settled, [Next]_vars PROVE Settled'
  OBVIOUS
<1>1. Sound /\ Sound'
  BY SoundStep DEF Settled
<1>2. CASE Next
  BY <1>1, <1>2, OverlapStays, SpacedStep DEF Settled
<1>3. CASE UNCHANGED vars
  <2>1. Undisturbed' <=> Undisturbed
    BY <1>3 DEF vars, Undisturbed, Spent
  <2>2. Alone' <=> Alone
    BY <1>3 DEF vars, workflow, Alone, At, Holds, IsCurrent, Step
  <2>3. NsStands' <=> NsStands
    BY <1>3 DEF vars, workflow, NsStands, Exists
  <2>4. JobsHaveSpace' <=> JobsHaveSpace
    BY <1>3 DEF vars, JobsHaveSpace, Exists
  <2>5. FetchFilled' <=> FetchFilled
    BY <1>3 DEF vars, FetchFilled
  <2>6. FetchDone' <=> FetchDone
    BY <1>3 DEF vars, workflow, FetchDone, Exists
  <2>7. exec' = exec /\ things' = things
    BY <1>3 DEF vars
  <2>. QED
    BY <1>1, <2>1, <2>2, <2>3, <2>4, <2>5, <2>6, <2>7 DEF Settled, Spaced
<1>. QED
  BY <1>2, <1>3

\* As long as no execution outlives its lease: while the test Job of the attempt runs, the
\* workspace is filled and its own attempt's, whatever retries, failed cleanups and deaths
\* of the Worker came before.
THEOREM TestsUseTheirSource == Spec => []TestsRunOnTheirSource
<1>1. ASSUME Settled PROVE TestsRunOnTheirSource
  <2>. SUFFICES ASSUME things[Job(attempt, "test")].state = "running", book["fetch"] = Passed, Undisturbed
                PROVE  things[Workspace].state = "filled" /\ things[Workspace].of = attempt
    BY DEF TestsRunOnTheirSource
  <2>1. attempt \in Attempts /\ "test" \in JobSteps /\ Spaced
    BY <1>1 DEF Settled, Sound, Typed, JobSteps
  <2>2. Exists(Workspace) /\ things[Workspace].of = attempt
    BY <2>1 DEF Spaced, JobsHaveSpace, Exists
  <2>. QED
    BY <2>1, <2>2 DEF Spaced, FetchDone
<1>. QED
  BY <1>1, SettledInit, SettledStep, PTL DEF Spec

-----------------------------------------------------------------------------
\* The cleanup. While no execution has outlived its lease, one that has seen to the
\* namespace leaves none behind that is not being deleted.
Leaving(objects) == objects[Namespace].state \in {"absent", "terminating"}

Cleans(x) ==
    /\ x.step = "cleanup"
    /\ x.at \in {"nsWait", "nsMark"} \/ (x.at = "return" /\ x.result = Passed)

Cleaned ==
    /\ Sound
    /\ Undisturbed =>
         /\ Alone
         /\ \A e \in Executions : Cleans(exec[e]) => Leaving(things)
         /\ book["cleanup"] = Passed => Leaving(things)

LEMMA LeavingStays ==
    ASSUME Sound, Next, Leaving(things), \A e \in Executions : Puts(e) => Head(exec[e].todo) # Namespace
    PROVE  Leaving(things')
<1>1. ASSUME NEW e \in Executions PROVE Namespace # MyJob(e)
  BY KindsOf DEF MyJob
<1>2. ASSUME NEW m \in Names, JobEnds(m) PROVE Namespace \notin {m, Workspace}
  BY <1>2, JobEndsIs, KindsOf
<1>3. ThingsFit'
  BY ThingsStep
<1>4. things'[Namespace].state \in {"absent", "there", "terminating"}
  BY <1>3, NamesOf, KindsOf DEF ThingsFit, ThingFits, StatesOf
<1>5. ASSUME NEW e \in Executions, Terminated(e) PROVE Leaving(things')
  BY <1>4, <1>5 DEF Terminated, Leaving
<1>. QED
  BY <1>1, <1>2, <1>5, ObjectStep, NamespaceGoesIs, NamesOf, KindsOf DEF Leaving

\* Nobody creates anything while the cleanup runs or once it is recorded.
LEMMA NobodyPuts ==
    ASSUME Sound, Alone, book["cleanup"] # Absent
    PROVE  \A e \in Executions : ~Puts(e)
<1>. SUFFICES ASSUME NEW e \in Executions, Puts(e) PROVE FALSE
  OBVIOUS
<1>1. exec[e].step # "cleanup" /\ ~At(e, "idle")
  BY PutsPlace DEF JobSteps
<1>. QED
  BY <1>1, WhoIsAlone DEF Step

LEMMA GoesCleans ==
    ASSUME Sound, NEW e \in Executions, Goes(e), Cleans(exec'[e])
    PROVE  Cleans(exec[e]) \/ Leaving(things')
<1>. DEFINE x == exec[e]
            y == exec'[e]
<1>1. /\ x \in ExecState /\ exec \in [Executions -> ExecState] /\ ExecFits(x)
      /\ things \in [Names -> Thing] /\ Namespace \in Names /\ things[Namespace] \in Thing
  BY UidsTyped, NamesOf DEF Sound, Typed, ThingsFit
<1>2. y.step = x.step /\ x.step = "cleanup"
  BY <1>1, GoesMoves DEF Moved, Cleans
<1>3. ThingsFit' /\ things'[Namespace].state \in {"absent", "there", "terminating"}
      /\ things[Namespace].state \in {"absent", "there", "terminating"}
  <2>1. ThingsFit'
    BY <1>1, GoesThings DEF Sound, Typed, ExecsFit
  <2>. QED
    BY <2>1, NamesOf, KindsOf DEF Sound, ThingsFit, ThingFits, StatesOf
<1>4. ASSUME Throw(e) PROVE FALSE
  <2>1. y.result = Incomplete /\ y.at \in {"revoke", "return"}
    BY <1>1, <1>4 DEF Throw, ExecState
  <2>. QED
    BY <2>1 DEF Cleans, Incomplete, Passed
<1>5. CASE NsGet(e)
  <2>1. y.at = (CASE things[Namespace].state = "absent" -> "return"
                  [] things[Namespace].state = "there"  -> "nsDelete"
                  [] OTHER                              -> "nsWait")
        /\ things' = things
    BY <1>1, <1>5 DEF NsGet, ExecState
  <2>2. things[Namespace].state = "there" => y.at = "nsDelete"
    BY <2>1
  <2>. QED
    BY <1>3, <2>1, <2>2 DEF Cleans, Leaving
<1>6. CASE NsDelete(e)
  <2>1. things' = [things EXCEPT ![Namespace].state = IF @ = "absent" THEN @ ELSE "terminating"]
    BY <1>4, <1>6 DEF NsDelete
  <2>. DEFINE state == IF things[Namespace].state = "absent" THEN "absent" ELSE "terminating"
  <2>2. things' = [things EXCEPT ![Namespace].state = state] /\ state \in {"absent", "terminating"}
    BY <2>1
  <2>. HIDE DEF state
  <2>3. things'[Namespace].state = state
    BY <1>1, <2>2 DEF Thing
  <2>. QED
    BY <2>2, <2>3 DEF Leaving
<1>7. CASE NsWait(e)
  <2>1. At(e, "nsWait")
    BY <1>7 DEF NsWait
  <2>. QED
    BY <1>2, <2>1 DEF Cleans, At
<1>8. CASE NsMark(e) \/ NsPending(e)
  <2>1. At(e, "nsWait") \/ At(e, "nsMark")
    BY <1>8 DEF NsMark, NsPending
  <2>. QED
    BY <1>2, <2>1 DEF Cleans, At
<1>9. CASE CallFails(e)
  <2>1. At(e, "revoke")
    BY <1>4, <1>9 DEF CallFails
  <2>. QED
    BY <1>1, <1>2, <2>1 DEF ExecFits, At, JobPlaces, JobSteps
<1>10. ASSUME Get(e) \/ Put(e) \/ Note(e) \/ Wait(e) \/ Collect(e) \/ Find(e) \/ Delete(e)
              \/ Unlist(e) \/ Revoke(e) \/ Watch(e)
       PROVE FALSE
  BY <1>1, <1>2, <1>10 DEF Get, Put, Note, Wait, Collect, Find, Delete, Unlist, Revoke, Watch, At,
     ExecFits, JobPlaces, Reconciling, JobSteps
<1>11. ~DeleteUnanswered(e)
  BY <1>1, <1>2, UnansweredMoves DEF ExecFits, JobPlaces, JobSteps
<1>. QED
  BY <1>5, <1>6, <1>7, <1>8, <1>9, <1>10, <1>11 DEF Goes

LEMMA CleanedStep == Cleaned /\ [Next]_vars => Cleaned'
<1>. SUFFICES ASSUME Cleaned, [Next]_vars PROVE Cleaned'
  OBVIOUS
<1>1. Sound /\ Sound'
  BY SoundStep DEF Cleaned
<1>2. CASE UNCHANGED vars
  BY <1>1, <1>2 DEF vars, workflow, Cleaned, Undisturbed, Spent, Alone, At, Holds, IsCurrent, Step, Leaving
<1>3. CASE Next
  <2>. SUFFICES ASSUME Undisturbed'
                PROVE  /\ Alone'
                       /\ \A f \in Executions : Cleans(exec'[f]) => Leaving(things')
                       /\ book'["cleanup"] = Passed => Leaving(things')
    BY <1>1 DEF Cleaned
  <2>1. Undisturbed /\ Alone /\ (\A e \in Executions : Cleans(exec[e]) => Leaving(things))
        /\ (book["cleanup"] = Passed => Leaving(things))
    BY <1>1, <1>3, OverlapStays DEF Cleaned
  <2>2. ASSUME NEW f \in Executions, Cleans(exec[f]) PROVE Leaving(things')
    <3>1. ~At(f, "idle") /\ exec[f].step = "cleanup"
      BY <2>2 DEF Cleans, At
    <3>2. book["cleanup"] # Absent
      BY <1>1, <2>1, <3>1, WhoIsAlone, TerminalIsNotRunning DEF Step
    <3>. QED
      BY <1>1, <1>3, <2>1, <2>2, <3>2, NobodyPuts, LeavingStays
  <2>3. ASSUME NEW f \in Executions, Cleans(exec'[f]) PROVE Leaving(things')
    <3>1. exec'[f] # Idle
      BY <2>3 DEF Idle, Cleans
    <3>2. ~Begins(f)
      BY <2>3 DEF Begins, Cleans, Opening
    <3>. QED
      BY <1>1, <1>3, <2>2, <2>3, <3>1, <3>2, WhoMoves, GoesCleans
  <2>4. ASSUME book'["cleanup"] = Passed PROVE Leaving(things')
    <3>1. "cleanup" \in ClusterSteps /\ Passed # Running /\ Passed # Absent
      BY DEF ClusterSteps, Passed, Running, Absent
    <3>2. CASE book["cleanup"] = Passed
      BY <1>1, <1>3, <2>1, <3>1, <3>2, NobodyPuts, LeavingStays
    <3>3. ASSUME NEW e \in Executions, Return(e), Holds(e), Step(e) = "cleanup", exec[e].result = Passed
          PROVE  Leaving(things')
      <4>1. Cleans(exec[e])
        BY <3>3 DEF Return, At, Step, Cleans
      <4>. QED
        BY <2>2, <4>1
    <3>. QED
      BY <1>1, <1>3, <2>4, <3>1, <3>2, <3>3, BookStep
  <2>. QED
    BY <1>1, <1>3, <2>1, <2>3, <2>4, AloneStep
<1>. QED
  BY <1>2, <1>3

LEMMA CleanedInit == Init => Cleaned
<1>. SUFFICES ASSUME Init PROVE Cleaned
  OBVIOUS
<1>1. \A e \in Executions : exec[e].at = "idle"
  BY DEF Init, Idle
<1>2. book["cleanup"] # Passed
  BY DEF Init, ClusterSteps, Passed, Absent
<1>. QED
  BY <1>1, <1>2, SoundInit DEF Cleaned, Alone, At, Cleans

\* What a row calls deleted is gone for good, and a cleanup that passed leaves no namespace
\* that is not being deleted, as long as no execution has outlived its lease.
THEOREM CleanupStaysFinal == Spec => []CleanupIsFinal
<1>1. ASSUME Cleaned PROVE CleanedMeansGone
  BY <1>1 DEF Cleaned, CleanedMeansGone, Leaving
<1>2. ASSUME Known, Cleaned PROVE CleanupIsFinal
  BY <1>1, <1>2, KnownMeansGone DEF CleanupIsFinal
<1>. QED
  BY <1>2, KnownInit, KnownStep, CleanedInit, CleanedStep, PTL DEF Spec
-----------------------------------------------------------------------------
\* Results. How Jobs of the attempt have ended is remembered; a result that an execution
\* holds, or the book records, is one of them.
EndsAreKnown ==
    \A s \in JobSteps : \A end \in {"succeeded", "failed"} :
        things[Job(attempt, s)].state = end => end \in outcomes[s]

Earned(s, result) ==
    /\ result = Passed => "succeeded" \in outcomes[s]
    /\ result = AppFailure /\ Undisturbed => "failed" \in outcomes[s]

ReportsAreEarned ==
    \A e \in Executions :
        IsCurrent(e) /\ exec[e].at \in Ended /\ Step(e) \in JobSteps => Earned(Step(e), exec[e].result)

LEMMA OutcomesGrow ==
    ASSUME Sound, Next, ~Retry, NEW s \in ClusterSteps
    PROVE  outcomes[s] \subseteq outcomes'[s]
<1>1. exec \in [Executions -> ExecState] /\ outcomes \in [ClusterSteps -> SUBSET {"succeeded", "failed"}]
      /\ \A e \in Executions : ExecFits(exec[e])
  BY DEF Sound, Typed, ExecsFit
<1>2. ASSUME NEW e \in Executions, Return(e) \/ LeaseLost(e) \/ Crash(e) PROVE outcomes' = outcomes
  BY <1>2 DEF Return, LeaseLost, Crash, history
<1>3. ASSUME Begin \/ Skip PROVE outcomes' = outcomes
  BY <1>3 DEF Begin, Skip, history
<1>4. ASSUME NEW m \in Names, JobEnds(m) PROVE outcomes[s] \subseteq outcomes'[s]
  <2>1. outcomes' = outcomes
        \/ outcomes' = [outcomes EXCEPT ![m.step] = @ \union {things'[m].state}]
    BY <1>4, JobEndsIs
  <2>. QED
    BY <1>1, <2>1
<1>5. ASSUME NEW m \in Names, PreviewStarts(m) PROVE outcomes' = outcomes
  BY <1>5 DEF PreviewStarts, history
<1>6. NamespaceGoes => outcomes' = outcomes
  BY DEF NamespaceGoes, history
<1>7. ASSUME NEW e \in Executions, Goes(e) PROVE outcomes' = outcomes
  BY <1>1, <1>7, GoesHistory
<1>. QED
  BY <1>2, <1>3, <1>4, <1>5, <1>6, <1>7, NextIs

\* No object bears the label of an attempt to come.
LEMMA NothingAhead ==
    ASSUME Sound, Retry, NEW s \in JobSteps
    PROVE  things'[Job(attempt', s)].state = "absent" /\ attempt' = attempt + 1 /\ attempt' \in Attempts
<1>1. attempt \in Nat /\ attempt' = attempt + 1 /\ attempt' \in Attempts /\ things' = things
  BY RetryWorkflow, ClusterAssumption DEF Sound, Typed, Attempts, Retry
<1>. DEFINE n == Job(attempt + 1, s)
<1>2. n \in Names /\ n.kind = "Job" /\ n.attempt = attempt + 1
  BY <1>1, NamesOf, KindsOf
<1>3. things[n].of <= attempt /\ (things[n].state # "absent" => things[n].of = attempt + 1)
  BY <1>2 DEF Sound, ThingsFit, ThingFits
<1>. QED
  BY <1>1, <1>3

LEMMA EndsAreKnownStep ==
    ASSUME Sound, EndsAreKnown, Next
    PROVE  EndsAreKnown'
<1>. SUFFICES ASSUME NEW s \in JobSteps, NEW end \in {"succeeded", "failed"},
                     things'[Job(attempt', s)].state = end
              PROVE  end \in outcomes'[s]
  BY DEF EndsAreKnown
<1>1. ~Retry
  BY NothingAhead
<1>2. attempt' = attempt /\ attempt \in Attempts /\ s \in ClusterSteps
      /\ outcomes \in [ClusterSteps -> SUBSET {"succeeded", "failed"}]
  BY <1>1, BookStep DEF ClusterSteps, JobSteps, Sound, Typed
<1>. DEFINE n == Job(attempt, s)
<1>3. n \in Names /\ n.kind = "Job" /\ n.attempt = attempt /\ n.step = s /\ n # Workspace /\ n # Namespace
  BY <1>2, NamesOf, KindsOf
<1>4. CASE things[n].state = end
  BY <1>1, <1>2, <1>4, OutcomesGrow DEF EndsAreKnown
<1>5. ASSUME NEW e \in Executions, Puts(e), n = Head(exec[e].todo) PROVE FALSE
  BY <1>2, <1>3, <1>5, PutsIs DEF InitialState
<1>6. ASSUME NEW e \in Executions, Reaped(e), n = MyJob(e) PROVE FALSE
  BY <1>2, <1>6 DEF Reaped
<1>7. ~NamespaceGoes
  BY <1>2, <1>3, NamespaceGoesIs
<1>8. ASSUME NEW m \in Names, JobEnds(m), n = m PROVE end \in outcomes'[s]
  <2>1. outcomes' = [outcomes EXCEPT ![s] = @ \union {end}]
    BY <1>2, <1>3, <1>8, JobEndsIs
  <2>. QED
    BY <1>2, <2>1
<1>. QED
  BY <1>2, <1>3, <1>4, <1>5, <1>6, <1>7, <1>8, ObjectStep

LEMMA ReportsAreEarnedStep ==
    ASSUME Settled, EndsAreKnown, ReportsAreEarned, Next
    PROVE  ReportsAreEarned'
<1>. SUFFICES ASSUME NEW f \in Executions, exec'[f].attempt = attempt', exec'[f].at \in Ended,
                     exec'[f].step \in JobSteps
              PROVE  /\ exec'[f].result = Passed => "succeeded" \in outcomes'[exec'[f].step]
                     /\ exec'[f].result = AppFailure /\ Undisturbed' => "failed" \in outcomes'[exec'[f].step]
  BY DEF ReportsAreEarned, Earned, IsCurrent, Step
<1>. DEFINE x == exec[f]
            y == exec'[f]
<1>1. /\ Sound /\ x \in ExecState /\ exec \in [Executions -> ExecState] /\ ExecFits(x)
      /\ things \in [Names -> Thing] /\ x.attempt \in Attempts
  BY UidsTyped DEF Settled, Sound, Typed, ThingsFit
<1>2. Undisturbed' => Undisturbed
  BY <1>1, OverlapStays
<1>3. ASSUME NEW s \in JobSteps, ~Retry PROVE outcomes[s] \subseteq outcomes'[s]
  BY <1>1, <1>3, OutcomesGrow DEF JobSteps, ClusterSteps
<1>4. ASSUME x.attempt = attempt, x.at \in Ended, x.step \in JobSteps, ~Retry,
             y.step = x.step, y.result = x.result
      PROVE  /\ y.result = Passed => "succeeded" \in outcomes'[y.step]
             /\ y.result = AppFailure /\ Undisturbed' => "failed" \in outcomes'[y.step]
  BY <1>2, <1>3, <1>4 DEF ReportsAreEarned, Earned, IsCurrent, Step
<1>5. CASE y = x
  <2>1. ~Retry
    <3>1. x.attempt <= attempt /\ attempt \in Nat
      BY <1>1, ClusterAssumption DEF Sound, ExecsFit, Typed, Attempts
    <3>. QED
      BY <1>1, <1>5, <3>1, RetryWorkflow
  <2>2. attempt' = attempt
    BY <1>1, <2>1, BookStep DEF ClusterSteps
  <2>. QED
    BY <1>4, <1>5, <2>1, <2>2
<1>6. CASE Goes(f)
  <2>1. y.step = x.step /\ y.attempt = x.attempt /\ attempt' = attempt /\ outcomes' = outcomes
    BY <1>1, <1>6, GoesMoves, GoesFrame, GoesHistory DEF Moved
  <2>2. ~Retry
    <3>1. attempt \in Int
      BY <1>1, ClusterAssumption DEF Sound, Typed, Attempts
    <3>2. attempt + 1 # attempt
      BY <3>1
    <3>. QED
      BY <2>1, <3>2 DEF Retry
  <2>3. CASE y.result = Incomplete
    BY <2>3 DEF Incomplete, Passed, AppFailure
  <2>4. CASE x.at \in Ended /\ y.result = x.result
    BY <1>4, <2>1, <2>2, <2>4
  <2>5. CASE Wait(f)
    <3>. DEFINE n == MyJob(f)
    <3>1. /\ y.result = Passed => things[n].state = "succeeded"
          /\ y.result = AppFailure => things[n].state \notin {"succeeded", "running"}
          /\ x.at = "wait"
      BY <1>1, <2>5, WaitIs DEF n
    <3>. HIDE DEF n
    <3>2. n = Job(attempt, x.step) /\ n \in Names /\ n.kind = "Job"
      <4>1. x.attempt = attempt /\ x.step \in JobSteps /\ attempt \in Attempts
        BY <1>1, <2>1
      <4>2. n = Job(x.attempt, x.step)
        BY DEF MyJob, n
      <4>. QED
        BY <4>1, <4>2, NamesOf, KindsOf
    <3>3. Undisturbed => things[n].state # "absent"
      BY <2>1, <3>1, <3>2 DEF Settled, Spaced, JobThere, AtJob
    <3>4. things[n].state \in {"absent", "running", "succeeded", "failed"}
      BY <1>1, <3>2 DEF Sound, ThingsFit, ThingFits, StatesOf
    <3>5. y.result = AppFailure /\ Undisturbed => things[n].state = "failed"
      BY <3>1, <3>3, <3>4
    <3>. QED
      BY <1>2, <2>1, <3>1, <3>2, <3>5 DEF EndsAreKnown
  <2>. QED
    BY <1>1, <1>6, <2>1, <2>3, <2>4, <2>5, GoesEnds
<1>7. y # Idle
  BY DEF Idle, Ended
<1>8. ~Begins(f)
  BY DEF Begins, Ended, Opening
<1>. QED
  BY <1>1, <1>5, <1>6, <1>7, <1>8, WhoMoves

LEMMA ResultsAreEarnedStep ==
    ASSUME Settled, ReportsAreEarned, ResultsAreEarned, Next
    PROVE  ResultsAreEarned'
<1>. SUFFICES ASSUME NEW s \in JobSteps
              PROVE  /\ book'[s] = Passed => "succeeded" \in outcomes'[s]
                     /\ book'[s] = AppFailure /\ Undisturbed' => "failed" \in outcomes'[s]
  BY DEF ResultsAreEarned
<1>1. Sound /\ s \in ClusterSteps /\ attempt \in Int
  BY ClusterAssumption DEF Settled, Sound, Typed, Attempts, JobSteps, ClusterSteps
<1>2. Undisturbed' => Undisturbed
  BY <1>1, OverlapStays
<1>3. \A r \in {Passed, AppFailure} : r # Running /\ r # Skipped /\ r # Absent
  BY DEF Passed, AppFailure, Running, Skipped, Absent
<1>4. CASE attempt' = attempt /\ book'[s] = book[s]
  <2>1. outcomes[s] \subseteq outcomes'[s]
    BY <1>1, <1>4, OutcomesGrow DEF Retry
  <2>. QED
    BY <1>2, <1>4, <2>1 DEF ResultsAreEarned
<1>5. ASSUME NEW e \in Executions, Return(e), Holds(e), Step(e) = s, book'[s] = exec[e].result
      PROVE  /\ book'[s] = Passed => "succeeded" \in outcomes'[s]
             /\ book'[s] = AppFailure /\ Undisturbed' => "failed" \in outcomes'[s]
  <2>1. outcomes' = outcomes /\ exec[e].at \in Ended /\ IsCurrent(e)
    BY <1>5 DEF Return, history, At, Ended, Holds
  <2>. QED
    BY <1>2, <1>5, <2>1 DEF ReportsAreEarned, Earned
<1>. QED
  BY <1>1, <1>3, <1>4, <1>5, BookStep

-----------------------------------------------------------------------------
\* Runs of a Job are counted: there is one more than there were late deaths only while its
\* Job exists, or its execution has deleted it, or its step has ended.
HasRun(s) ==
    \/ jobsRun[s] <= lateDeaths[s]
    \/ /\ jobsRun[s] <= lateDeaths[s] + 1
       /\ \/ Exists(Job(attempt, s))
          \/ book[s].status \in TerminalStepStatuses
          \/ \E e \in Executions : IsCurrent(e) /\ Step(e) = s /\ exec[e].gone

LEMMA GoneStays ==
    ASSUME Sound, NEW e \in Executions, Goes(e), exec[e].gone
    PROVE  exec'[e].gone
<1>1. exec[e] \in ExecState /\ exec \in [Executions -> ExecState] /\ ExecFits(exec[e])
  BY UidsTyped DEF Sound, Typed
<1>2. exec[e].at \in {"unlist", "revoke", "return"}
  BY <1>1 DEF ExecFits
<1>3. CASE Unlist(e) \/ Revoke(e)
  BY <1>1, <1>3 DEF Unlist, Revoke, Goto, ExecState
<1>4. CASE CallFails(e)
  BY <1>1, <1>4 DEF CallFails, Throw, Goto, ExecState
<1>5. CASE DeleteUnanswered(e)
  BY <1>1, <1>5, UnansweredMoves DEF Unanswered
<1>. QED
  BY <1>2, <1>3, <1>4, <1>5 DEF Goes, Get, Put, Note, Wait, Collect, Find, Delete, Watch,
     NsGet, NsDelete, NsWait, NsMark, NsPending, At

LEMMA CountsStep ==
    ASSUME Sound, Alone, Next, ~Retry, NEW s \in JobSteps
    PROVE  /\ jobsRun[s] \in Nat /\ lateDeaths[s] \in Nat /\ lateDeaths'[s] \in Nat
           /\ lateDeaths[s] <= lateDeaths'[s]
           /\ \/ jobsRun'[s] = jobsRun[s]
              \/ \E e \in Executions : Runs(e) /\ Step(e) = s /\ jobsRun'[s] = jobsRun[s] + 1
                                       /\ lateDeaths'[s] = lateDeaths[s]
           /\ \A e \in Executions : Crash(e) /\ IsCurrent(e) /\ Step(e) = s /\ exec[e].gone =>
                                       lateDeaths'[s] = lateDeaths[s] + 1
<1>1. /\ jobsRun \in [ClusterSteps -> Nat] /\ lateDeaths \in [ClusterSteps -> Nat]
      /\ s \in ClusterSteps /\ exec \in [Executions -> ExecState]
      /\ \A e \in Executions : ExecFits(exec[e])
  BY DEF Sound, Typed, ExecsFit, JobSteps, ClusterSteps
<1>2. ASSUME NEW e \in Executions, Goes(e)
      PROVE  /\ lateDeaths' = lateDeaths
             /\ \/ jobsRun'[s] = jobsRun[s]
                \/ Runs(e) /\ Step(e) = s /\ jobsRun'[s] = jobsRun[s] + 1
  <2>1. lateDeaths' = lateDeaths /\ (jobsRun' = jobsRun \/ Runs(e))
    BY <1>1, <1>2, GoesHistory
  <2>2. Runs(e) => jobsRun' = [jobsRun EXCEPT ![Step(e)] = @ + 1]
    BY DEF Runs
  <2>. QED
    BY <1>1, <2>1, <2>2
<1>3. ASSUME NEW e \in Executions, Crash(e)
      PROVE  /\ jobsRun' = jobsRun /\ lateDeaths'[s] \in {lateDeaths[s], lateDeaths[s] + 1}
             /\ IsCurrent(e) /\ Step(e) = s /\ exec[e].gone => lateDeaths'[s] = lateDeaths[s] + 1
  BY <1>1, <1>3 DEF Crash
<1>4. ASSUME NEW e \in Executions, Return(e) \/ LeaseLost(e) PROVE jobsRun' = jobsRun /\ lateDeaths' = lateDeaths
  BY <1>4 DEF Return, LeaseLost, history
<1>5. ASSUME Begin \/ Skip PROVE jobsRun' = jobsRun /\ lateDeaths' = lateDeaths
  BY <1>5 DEF Begin, Skip, history
<1>6. jobsRun[s] \in Nat /\ lateDeaths[s] \in Nat
  BY <1>1
<1>7. /\ lateDeaths'[s] \in {lateDeaths[s], lateDeaths[s] + 1}
      /\ \/ jobsRun'[s] = jobsRun[s]
         \/ \E e \in Executions : Runs(e) /\ Step(e) = s /\ jobsRun'[s] = jobsRun[s] + 1
                                  /\ lateDeaths'[s] = lateDeaths[s]
  BY <1>2, <1>3, <1>4, <1>5, ControllersFrame, NextIs
<1>. QED
  BY <1>3, <1>6, <1>7
LEMMA HasRunStep ==
    ASSUME Sound, Spaced, Next, Undisturbed', NEW s \in JobSteps, HasRun(s)
    PROVE  HasRun(s)'
<1>1. /\ Alone /\ s \in ClusterSteps /\ s # "cleanup" /\ attempt \in Attempts /\ attempt \in Int
      /\ exec \in [Executions -> ExecState] /\ jobsRun \in [ClusterSteps -> Nat]
  BY ClusterAssumption DEF Spaced, Sound, Typed, Attempts, JobSteps, ClusterSteps
<1>2. CASE Retry
  <2>1. jobsRun'[s] = 0 /\ lateDeaths'[s] = 0
    BY <1>1, <1>2 DEF Retry
  <2>. QED
    BY <2>1 DEF HasRun
<1>3. CASE ~Retry
  <2>. DEFINE n == Job(attempt, s)
  <2>1. attempt' = attempt
    BY <1>1, <1>3, BookStep
  <2>2. n \in Names /\ n.kind = "Job" /\ n # Namespace /\ n # Workspace /\ n.attempt = attempt
    BY <1>1, NamesOf, KindsOf
  <2>3. /\ jobsRun[s] \in Nat /\ lateDeaths[s] \in Nat /\ lateDeaths'[s] \in Nat
        /\ lateDeaths[s] <= lateDeaths'[s]
    BY <1>1, <1>3, CountsStep
  <2>4. ASSUME NEW e \in Executions, Runs(e), Step(e) = s, jobsRun'[s] = jobsRun[s] + 1,
               lateDeaths'[s] = lateDeaths[s]
        PROVE  HasRun(s)'
    <3>1. /\ exec[e].at = "put" /\ exec[e].attempt = attempt /\ MyJob(e) = n /\ ~Exists(n)
          /\ things' = [things EXCEPT ![n] = Created(e, n)]
      BY <2>4 DEF Runs, At, IsCurrent, MyJob, Step, Exists
    <3>2. things'[n].state # "absent"
      BY <2>2, <3>1 DEF Created, InitialState, Sound, ThingsFit
    <3>3. book[s].status \notin TerminalStepStatuses
      BY <1>1, <2>4, <3>1, WhoIsAlone, TerminalIsNotRunning DEF At
    <3>4. ASSUME NEW g \in Executions, exec[g].gone PROVE FALSE
      <4>1. exec[g].at \in {"unlist", "revoke", "return"}
        BY <3>4 DEF Sound, ExecsFit, ExecFits
      <4>2. g # e
        BY <3>1, <4>1
      <4>3. exec[g] = Idle
        BY <1>1, <3>1, <4>2, WhoIsAlone DEF At
      <4>. QED
        BY <4>1, <4>3 DEF Idle
    <3>5. jobsRun[s] <= lateDeaths[s]
      BY <3>1, <3>3, <3>4 DEF HasRun
    <3>6. jobsRun'[s] <= lateDeaths'[s] + 1
      BY <2>3, <2>4, <3>5
    <3>. QED
      BY <2>1, <3>2, <3>6 DEF HasRun, Exists
  <2>5. CASE jobsRun'[s] = jobsRun[s]
    <3>1. \A j, d, c \in Nat : j <= d /\ d <= c => j <= c
      OBVIOUS
    <3>2. CASE jobsRun[s] <= lateDeaths[s]
      BY <2>3, <2>5, <3>1, <3>2 DEF HasRun
    <3>3. CASE jobsRun[s] <= lateDeaths[s] + 1
      <4>1. jobsRun'[s] <= lateDeaths'[s] + 1
        BY <2>3, <2>5, <3>3
      <4>2. CASE Exists(n)
        <5>1. ASSUME NamespaceGoes PROVE HasRun(s)'
          <6>1. things[n].of = attempt
            BY <2>2, <4>2 DEF Sound, ThingsFit, ThingFits, Exists
          <6>2. book["cleanup"] # Absent
            BY <2>2, <4>2, <5>1, <6>1 DEF Spaced, NsStands, NamespaceGoes
          <6>3. CASE s \in StepsOf[attempt]
            <7>1. book[s].status \in TerminalStepStatuses /\ book' = book
              BY <1>1, <5>1, <6>2, <6>3, ControllersFrame DEF Sound, WorkflowFits, CleanupIsLast
            <7>. QED
              BY <4>1, <7>1 DEF HasRun
          <6>4. CASE s \notin StepsOf[attempt]
            <7>1. jobsRun[s] = 0
              BY <1>1, <6>4 DEF Sound, WorkflowFits, OthersAreBlank
            <7>. QED
              BY <2>3, <2>5, <7>1 DEF HasRun
          <6>. QED
            BY <6>3, <6>4
        <5>2. ASSUME NEW e \in Executions, Reaped(e), n = MyJob(e) PROVE HasRun(s)'
          <6>1. exec[e].attempt = attempt /\ exec[e].step = s
            BY <5>2, KindsOf DEF MyJob
          <6>2. exec'[e].attempt = attempt /\ exec'[e].step = s /\ exec'[e].gone
            BY <1>1, <5>2, <6>1, GoesMoves DEF Reaped, Goes, Moved, Sound, ExecsFit, ThingsFit
          <6>. QED
            BY <2>1, <4>1, <6>2 DEF HasRun, IsCurrent, Step
        <5>3. ASSUME NEW e \in Executions, Puts(e), n = Head(exec[e].todo) PROVE things'[n].state # "absent"
          BY <5>3, PutsIs DEF InitialState
        <5>4. ASSUME NEW m \in Names, JobEnds(m), n \in {m, Workspace} PROVE things'[n].state # "absent"
          BY <2>2, <5>4, JobEndsIs
        <5>5. things'[n].state # "absent" => HasRun(s)'
          BY <2>1, <4>1 DEF HasRun, Exists
        <5>. QED
          BY <2>2, <4>2, <5>1, <5>2, <5>3, <5>4, <5>5, ObjectStep DEF Exists
      <4>3. CASE book[s].status \in TerminalStepStatuses
        <5>1. SettledForRetry(s, book[s].status)
          BY <1>1, <4>3 DEF SettledForRetry
        <5>2. \A e \in Executions : exec[e].result \in StepResults
          BY DEF Sound, Typed, ExecState
        <5>3. book'[s].status \in TerminalStepStatuses
          BY <1>1, <1>3, <4>3, <5>1, <5>2, TerminalIsNotRunning, BookStep
        <5>. QED
          BY <4>1, <5>3 DEF HasRun
      <4>4. ASSUME NEW g \in Executions, IsCurrent(g), Step(g) = s, exec[g].gone PROVE HasRun(s)'
        <5>1. exec[g].gone /\ exec[g].attempt = attempt /\ exec[g].step = s
              /\ exec[g].at \in {"unlist", "revoke", "return"}
          BY <4>4 DEF IsCurrent, Step, Sound, ExecsFit, ExecFits
        <5>2. ASSUME exec'[g].attempt = attempt, exec'[g].step = s, exec'[g].gone PROVE HasRun(s)'
          BY <2>1, <4>1, <5>2 DEF HasRun, IsCurrent, Step
        <5>3. CASE Goes(g)
          <6>1. exec'[g].attempt = attempt /\ exec'[g].step = s
            BY <1>1, <5>1, <5>3, GoesMoves DEF Moved, Sound, ExecsFit, ThingsFit
          <6>2. exec'[g].gone
            BY <5>1, <5>3, GoneStays
          <6>. QED
            BY <5>2, <6>1, <6>2
        <5>4. CASE Return(g)
          <6>1. Holds(g)
            BY <5>1 DEF Spaced, Alone, At
          <6>2. book' = [book EXCEPT ![s] = exec[g].result]
            BY <4>4, <5>4, <6>1 DEF Return
          <6>3. book'[s].status \in TerminalStepStatuses
            BY <1>1, <6>2, TerminalIsNotRunning DEF Sound, Typed, ExecState
          <6>. QED
            BY <4>1, <6>3 DEF HasRun
        <5>5. CASE Crash(g)
          <6>1. lateDeaths'[s] = lateDeaths[s] + 1
            BY <1>1, <1>3, <4>4, <5>5, CountsStep
          <6>. QED
            BY <2>3, <2>5, <3>3, <6>1 DEF HasRun
        <5>6. ~Begins(g)
          BY <5>1 DEF Begins, At
        <5>. QED
          BY <5>1, <5>2, <5>3, <5>4, <5>5, <5>6, WhoMoves
      <4>. QED
        BY <3>2, <4>2, <4>3, <4>4 DEF HasRun
    <3>. QED
      BY <3>2, <3>3 DEF HasRun
  <2>. QED
    BY <1>1, <1>3, <2>4, <2>5, CountsStep
<1>. QED
  BY <1>2, <1>3

Earns ==
    /\ Settled /\ EndsAreKnown /\ ReportsAreEarned /\ ResultsAreEarned
    /\ Undisturbed => \A s \in JobSteps : HasRun(s)

LEMMA EarnsInit == Init => Earns
<1>. SUFFICES ASSUME Init PROVE Earns
  OBVIOUS
<1>1. JobSteps \subseteq ClusterSteps /\ 1 \in Attempts
  BY ClusterAssumption DEF JobSteps, ClusterSteps, Attempts
<1>2. EndsAreKnown
  BY <1>1, NamesOf DEF Init, EndsAreKnown, NoThing
<1>3. ReportsAreEarned
  BY DEF Init, ReportsAreEarned, Idle, Ended
<1>4. ResultsAreEarned
  BY <1>1 DEF Init, ResultsAreEarned, Passed, AppFailure, Absent
<1>5. \A s \in JobSteps : HasRun(s)
  BY <1>1 DEF Init, HasRun
<1>. QED
  BY <1>2, <1>3, <1>4, <1>5, SettledInit DEF Earns

LEMMA EarnsStep == Earns /\ [Next]_vars => Earns'
<1>. SUFFICES ASSUME Earns, [Next]_vars PROVE Earns'
  OBVIOUS
<1>1. Settled /\ Settled' /\ Sound
  BY SettledStep DEF Earns, Settled
<1>2. CASE Next
  <2>1. EndsAreKnown' /\ ReportsAreEarned' /\ ResultsAreEarned'
    BY <1>1, <1>2, EndsAreKnownStep, ReportsAreEarnedStep, ResultsAreEarnedStep DEF Earns
  <2>2. ASSUME Undisturbed', NEW s \in JobSteps PROVE HasRun(s)'
    BY <1>1, <1>2, <2>2, OverlapStays, HasRunStep DEF Earns, Settled
  <2>. QED
    BY <1>1, <2>1, <2>2 DEF Earns
<1>3. CASE UNCHANGED vars
  <2>1. EndsAreKnown'
    BY <1>3 DEF vars, workflow, history, Earns, EndsAreKnown
  <2>2. ReportsAreEarned'
    BY <1>3 DEF vars, workflow, history, Earns, ReportsAreEarned, Earned, IsCurrent, Step, Undisturbed, Spent
  <2>3. ResultsAreEarned'
    BY <1>3 DEF vars, workflow, history, Earns, ResultsAreEarned, Undisturbed, Spent
  <2>4. Undisturbed' => Undisturbed
    BY <1>3 DEF vars, Undisturbed, Spent
  <2>5. ASSUME NEW s \in JobSteps, HasRun(s) PROVE HasRun(s)'
    BY <1>3, <2>5 DEF vars, workflow, history, HasRun, IsCurrent, Step, Exists
  <2>. QED
    BY <1>1, <2>1, <2>2, <2>3, <2>4, <2>5 DEF Earns
<1>. QED
  BY <1>2, <1>3

\* What the book says of a test or a fetch is what a Job of that very step and attempt did,
\* and the code under test runs once more only when the Worker died after it had deleted
\* the Job and before its result was recorded (as long as no execution outlives its lease).
THEOREM ExecutionsStaySound == Spec => []ExecutionsAreSound
<1>1. ASSUME Earns PROVE JobsRunOnce
  <2>. SUFFICES ASSUME Undisturbed, NEW s \in JobSteps PROVE jobsRun[s] <= 1 + lateDeaths[s]
    BY DEF JobsRunOnce
  <2>1. jobsRun[s] \in Nat /\ lateDeaths[s] \in Nat
    BY <1>1 DEF Earns, Settled, Sound, Typed, JobSteps, ClusterSteps
  <2>2. HasRun(s)
    BY <1>1 DEF Earns
  <2>3. jobsRun[s] <= lateDeaths[s] \/ jobsRun[s] <= lateDeaths[s] + 1
    BY <2>2 DEF HasRun
  <2>. QED
    BY <2>1, <2>3
<1>2. ASSUME Earns PROVE ExecutionsAreSound
  BY <1>1, <1>2 DEF Earns, ExecutionsAreSound
<1>. QED
  BY <1>2, EarnsInit, EarnsStep, PTL DEF Spec
=============================================================================
