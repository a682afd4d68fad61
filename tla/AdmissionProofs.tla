-------------------------- MODULE AdmissionProofs --------------------------
(***************************************************************************)
(* The queue, the work and the decisions stay within their limits for any  *)
(* number of Runs, pull requests, transactions and attempts, and for any   *)
(* limit; and no circle of transactions waits for each other's locks.      *)
(***************************************************************************)
EXTENDS Admission, FiniteSetTheorems, TLAPS

\* Sets of Runs are finite, so that counting them makes sense.
LEMMA Countable ==
    ASSUME NEW S \in SUBSET Runs
    PROVE  IsFiniteSet(S) /\ Cardinality(S) \in Nat
  BY AdmissionAssumption, FS_Subset, FS_CardinalityType

LEMMA FewerRuns ==
    ASSUME NEW T \in SUBSET Runs, NEW S \in SUBSET T
    PROVE  Cardinality(S) <= Cardinality(T)
  BY Countable, FS_Subset

LEMMA OneMoreRun ==
    ASSUME NEW T \in SUBSET Runs, NEW r \in Runs, NEW S \in SUBSET (T \union {r})
    PROVE  Cardinality(S) <= Cardinality(T) + 1
<1>1. IsFiniteSet(T) /\ Cardinality(T) \in Nat
  BY Countable
<1>2. /\ IsFiniteSet(T \union {r})
      /\ Cardinality(T \union {r}) = IF r \in T THEN Cardinality(T) ELSE Cardinality(T) + 1
  BY <1>1, FS_AddElement
<1>3. Cardinality(S) <= Cardinality(T \union {r})
  BY <1>2, FS_Subset
<1>4. T \union {r} \in SUBSET Runs /\ S \in SUBSET Runs
  OBVIOUS
<1>5. Cardinality(S) \in Nat
  BY <1>4, Countable
<1>. QED
  BY <1>1, <1>2, <1>3, <1>5

\* What a transaction writes, before the triggers have their say.
Writes(q, row) ==
    \/ request[q].kind = "webhook" /\ row.status = Decided(q)
    \/ /\ request[q].kind = "retry" /\ row.status = "QUEUED"
       /\ HasRetryCapacity(q)
    \/ request[q].kind = "cancel" /\ row.status = "CANCEL_REQUESTED"
    \/ request[q].kind = "start" /\ row.status = "PLANNING"

Stored(q, row) ==
    [row EXCEPT !.status = IF Overruled(runs[request[q].run].status, row.status)
                           THEN "REJECTED_BY_CAPACITY" ELSE row.status]

Stores(q, row) == At(q, "storing") /\ Writes(q, row) /\ Store(q, row)

\* The disjuncts of Next, named once for the step proofs below.
LEMMA NextCases ==
    ASSUME TypeOK, [Next]_vars
    PROVE  \/ \E q \in Requests, r \in Runs : Deliver(q, r)
           \/ \E q \in Requests, r \in Runs : AskRetry(q, r)
           \/ \E q \in Requests, r \in Runs : AskCancel(q, r)
           \/ \E q \in Requests, r \in Runs : AskStart(q, r)
           \/ \E q \in Requests : LockRun(q)
           \/ \E q \in Requests : LockCapacity(q)
           \/ \E q \in Requests : CountActive(q)
           \/ \E q \in Requests : CountQueued(q)
           \/ \E q \in Requests, row \in Run : Stores(q, row)
           \/ \E q \in Requests : At(q, "storing") /\ Done(q) /\ UNCHANGED runs
           \/ \E q \in Requests : Commit(q)
           \/ \E r \in Runs : End(r)
           \/ \E r \in Runs : CleanUp(r)
           \/ UNCHANGED vars
<1>. USE AdmissionAssumption
<1>0. runs \in [Runs -> Run] /\ \A q \in Requests : request[q].at # "idle" => request[q].run \in Runs
  BY DEF TypeOK
<1>1. ASSUME NEW q \in Requests, Create(q) PROVE \E row \in Run : Stores(q, row)
  <2>1. [NewRun EXCEPT !.status = Decided(q)] \in Run
    BY DEF NewRun, Run, Decided, Statuses, RunStatuses, CleanupStatuses
  <2>2. [NewRun EXCEPT !.status = Decided(q)].status = Decided(q)
    BY DEF NewRun
  <2>. QED
    BY <1>1, <2>1, <2>2 DEF Create, Stores, Writes
<1>2. ASSUME NEW q \in Requests, Retry(q)
      PROVE  \/ \E row \in Run : Stores(q, row)
             \/ At(q, "storing") /\ Done(q) /\ UNCHANGED runs
  <2>. DEFINE n == [status |-> "QUEUED", cleanup |-> "NOT_SCHEDULED",
                    attempt |-> runs[request[q].run].attempt + 1]
  <2>1. CASE Store(q, n) /\ HasRetryCapacity(q) /\ runs[request[q].run].attempt + 1 \in Attempts
    <3>1. n \in Run
      BY <2>1 DEF Run, Statuses, RunStatuses, CleanupStatuses
    <3>2. n.status = "QUEUED"
      OBVIOUS
    <3>. HIDE DEF n
    <3>. QED
      BY <1>2, <2>1, <3>1, <3>2 DEF Retry, Stores, Writes
  <2>2. CASE Done(q) /\ UNCHANGED runs
    BY <1>2, <2>2 DEF Retry
  <2>. QED
    BY <1>2, <2>1, <2>2 DEF Retry
<1>3. ASSUME NEW q \in Requests, Cancel(q) PROVE \E row \in Run : Stores(q, row)
  <2>. DEFINE n == [runs[request[q].run] EXCEPT !.status = "CANCEL_REQUESTED", !.cleanup = "PENDING"]
  <2>1. request[q].run \in Runs
    BY <1>0, <1>3 DEF Cancel, At
  <2>2. n \in Run /\ n.status = "CANCEL_REQUESTED"
    BY <1>0, <2>1 DEF Run, Statuses, RunStatuses, CleanupStatuses
  <2>3. Store(q, n)
    BY <1>3 DEF Cancel
  <2>. HIDE DEF n
  <2>. QED
    BY <1>3, <2>2, <2>3 DEF Cancel, Stores, Writes
<1>4. ASSUME NEW q \in Requests, Start(q) PROVE \E row \in Run : Stores(q, row)
  <2>. DEFINE n == [runs[request[q].run] EXCEPT !.status = "PLANNING"]
  <2>1. request[q].run \in Runs
    BY <1>0, <1>4 DEF Start, At
  <2>2. n \in Run /\ n.status = "PLANNING"
    BY <1>0, <2>1 DEF Run, Statuses, RunStatuses, CleanupStatuses
  <2>3. Store(q, n)
    BY <1>4 DEF Start
  <2>. HIDE DEF n
  <2>. QED
    BY <1>4, <2>2, <2>3 DEF Start, Stores, Writes
<1>. QED
  BY <1>1, <1>2, <1>3, <1>4 DEF Next, Proceeds

\* What a step does to a request and its locks.
RequestMoves(q) ==
    \/ request'[q] = request[q]
    \/ request'[q] = IdleRequest
    \/ \E r \in Runs : Deliver(q, r) /\
          request'[q] = [request[q] EXCEPT !.at = "locking", !.kind = "webhook", !.run = r]
    \/ \E r \in Runs : AskRetry(q, r) /\
          request'[q] = [request[q] EXCEPT !.at = "asked", !.kind = "retry", !.run = r,
                                           !.seen = runs[r]]
    \/ \E r \in Runs : AskCancel(q, r) /\
          request'[q] = [request[q] EXCEPT !.at = "storing", !.kind = "cancel", !.run = r]
    \/ \E r \in Runs : AskStart(q, r) /\
          request'[q] = [request[q] EXCEPT !.at = "storing", !.kind = "start", !.run = r]
    \/ LockRun(q) /\ request'[q] = [request[q] EXCEPT !.at = "locking"]
    \/ /\ LockCapacity(q) /\ request'[q] = [request[q] EXCEPT !.at = "counting"]
       /\ request[q].kind = "retry" => runs[request[q].run] = request[q].seen
       /\ locks'["run-capacity"] = q
    \/ CountActive(q) /\ request'[q] = [request[q] EXCEPT !.at = "recounting",
                                                          !.active = Cardinality(Active)]
    \/ CountQueued(q) /\ request'[q] = [request[q] EXCEPT !.at = "storing",
                                                          !.queued = Cardinality(Queued)]
    \/ \E row \in Run : /\ Stores(q, row)
                        /\ request'[q] = [request[q] EXCEPT !.at = "committing", !.row = Stored(q, row)]

LEMMA RequestSteps ==
    ASSUME TypeOK, [Next]_vars, NEW q \in Requests
    PROVE  RequestMoves(q)
<1>. request \in [Requests -> Request] /\ locks \in [Locks -> Requests \union {NoRequest}]
  BY DEF TypeOK
<1>1. ASSUME NEW p \in Requests, NEW r \in Runs, Deliver(p, r) PROVE RequestMoves(q)
  <2>1. request' = [request EXCEPT ![p] = [request[p] EXCEPT !.at = "locking", !.kind = "webhook", !.run = r]]
    BY <1>1 DEF Deliver
  <2>. QED
    BY <1>1, <2>1 DEF RequestMoves
<1>2. ASSUME NEW p \in Requests, NEW r \in Runs, AskRetry(p, r) PROVE RequestMoves(q)
  <2>1. request' = [request EXCEPT ![p] = [request[p] EXCEPT !.at = "asked", !.kind = "retry", !.run = r,
                                                             !.seen = runs[r]]]
    BY <1>2 DEF AskRetry
  <2>. QED
    BY <1>2, <2>1 DEF RequestMoves
<1>3. ASSUME NEW p \in Requests, NEW r \in Runs, AskCancel(p, r) PROVE RequestMoves(q)
  <2>1. request' = [request EXCEPT ![p] = [request[p] EXCEPT !.at = "storing", !.kind = "cancel", !.run = r]]
    BY <1>3 DEF AskCancel, Enter
  <2>. QED
    BY <1>3, <2>1 DEF RequestMoves
<1>4. ASSUME NEW p \in Requests, NEW r \in Runs, AskStart(p, r) PROVE RequestMoves(q)
  <2>1. request' = [request EXCEPT ![p] = [request[p] EXCEPT !.at = "storing", !.kind = "start", !.run = r]]
    BY <1>4 DEF AskStart, Enter
  <2>. QED
    BY <1>4, <2>1 DEF RequestMoves
<1>5. ASSUME NEW p \in Requests, LockRun(p) PROVE RequestMoves(q)
  <2>1. request' = [request EXCEPT ![p] = [request[p] EXCEPT !.at = "locking"]]
    BY <1>5 DEF LockRun, Goto
  <2>. QED
    BY <1>5, <2>1 DEF RequestMoves
<1>6. ASSUME NEW p \in Requests, LockCapacity(p) PROVE RequestMoves(q)
  <2>1. \/ /\ request' = [request EXCEPT ![p] = [request[p] EXCEPT !.at = "counting"]]
           /\ request[p].kind = "retry" => runs[request[p].run] = request[p].seen
           /\ locks' = [locks EXCEPT !["run-capacity"] = p]
        \/ request' = [request EXCEPT ![p] = IdleRequest]
    BY <1>6 DEF LockCapacity, Goto
  <2>2. "run-capacity" \in Locks
    BY DEF Locks
  <2>. QED
    BY <1>6, <2>1, <2>2 DEF RequestMoves
<1>7. ASSUME NEW p \in Requests, CountActive(p) PROVE RequestMoves(q)
  <2>1. request' = [request EXCEPT ![p] = [request[p] EXCEPT !.at = "recounting", !.active = Cardinality(Active)]]
    BY <1>7 DEF CountActive
  <2>. QED
    BY <1>7, <2>1 DEF RequestMoves
<1>8. ASSUME NEW p \in Requests, CountQueued(p) PROVE RequestMoves(q)
  <2>1. request' = [request EXCEPT ![p] = [request[p] EXCEPT !.at = "storing", !.queued = Cardinality(Queued)]]
    BY <1>8 DEF CountQueued
  <2>. QED
    BY <1>8, <2>1 DEF RequestMoves
<1>9. ASSUME NEW p \in Requests, NEW row \in Run, Stores(p, row) PROVE RequestMoves(q)
  <2>1. request' = [request EXCEPT ![p] = [request[p] EXCEPT !.at = "committing", !.row = Stored(p, row)]]
    BY <1>9 DEF Stores, Store, Stored
  <2>. QED
    BY <1>9, <2>1 DEF RequestMoves
<1>10. ASSUME NEW p \in Requests, Done(p) PROVE RequestMoves(q)
  BY <1>10 DEF Done, RequestMoves
<1>11. ASSUME UNCHANGED request PROVE RequestMoves(q)
  BY <1>11 DEF RequestMoves
<1>. QED
  BY <1>1, <1>2, <1>3, <1>4, <1>5, <1>6, <1>7, <1>8, <1>9, <1>10, <1>11, NextCases
     DEF Commit, End, CleanUp, vars

\* Type correctness: the table, the locks and what every transaction holds keep
\* their types; a transaction under way is about a Run.
THEOREM TypeCorrect == Spec => []TypeOK
<1>. USE AdmissionAssumption
<1>0. NewRun \in Run /\ IdleRequest \in Request
  BY DEF NewRun, Run, Statuses, RunStatuses, CleanupStatuses, IdleRequest, Request, Places
<1>1. Init => TypeOK
  BY <1>0 DEF Init, TypeOK, IdleRequest
<1>2. TypeOK /\ [Next]_vars => TypeOK'
  <2>. SUFFICES ASSUME TypeOK, [Next]_vars PROVE TypeOK'
    OBVIOUS
  <2>1. ASSUME NEW q \in Requests
        PROVE  request'[q] \in Request /\ (request'[q].at # "idle" => request'[q].run \in Runs)
    <3>. /\ request[q] \in Request /\ (request[q].at # "idle" => request[q].run \in Runs)
         /\ runs \in [Runs -> Run]
      BY DEF TypeOK
    <3>1. Cardinality(Active) \in Nat /\ Cardinality(Queued) \in Nat
      BY Countable DEF Active, Queued
    <3>2. "REJECTED_BY_CAPACITY" \in Statuses
      BY DEF Statuses, RunStatuses
    <3>3. ASSUME NEW row \in Run, NEW b \in BOOLEAN
          PROVE [row EXCEPT !.status = IF b THEN "REJECTED_BY_CAPACITY" ELSE row.status] \in Run
      BY <3>2 DEF Run
    <3>4. CASE \E row \in Run :
                  /\ Stores(q, row)
                  /\ request'[q] = [request[q] EXCEPT !.at = "committing", !.row = Stored(q, row)]
      <4>1. PICK row \in Run :
                  /\ Stores(q, row)
                  /\ request'[q] = [request[q] EXCEPT !.at = "committing", !.row = Stored(q, row)]
        BY <3>4
      <4>. DEFINE n == Stored(q, row)
      <4>2. n \in Run
        <5>. USE DEF Stored
        <5>1. CASE Overruled(runs[request[q].run].status, row.status)
          BY <5>1, <3>2 DEF Run
        <5>2. CASE ~Overruled(runs[request[q].run].status, row.status)
          BY <5>2 DEF Run
        <5>. QED
          BY <5>1, <5>2
      <4>3. request'[q] = [request[q] EXCEPT !.at = "committing", !.row = n]
        BY <4>1
      <4>. HIDE DEF n
      <4>4. request[q].at # "idle"
        BY <4>1 DEF Stores, At
      <4>. QED
        BY <4>2, <4>3, <4>4 DEF Request, Places
    <3>5. CASE \/ request'[q] = request[q]
               \/ request'[q] = IdleRequest
               \/ \E r \in Runs : Deliver(q, r) /\
                   request'[q] = [request[q] EXCEPT !.at = "locking", !.kind = "webhook", !.run = r]
               \/ \E r \in Runs : AskRetry(q, r) /\
                   request'[q] = [request[q] EXCEPT !.at = "asked", !.kind = "retry", !.run = r,
                                           !.seen = runs[r]]
      BY <1>0, <3>5 DEF Request, Places, IdleRequest
    <3>6. CASE \/ \E r \in Runs : AskCancel(q, r) /\
                   request'[q] = [request[q] EXCEPT !.at = "storing", !.kind = "cancel", !.run = r]
               \/ \E r \in Runs : AskStart(q, r) /\
                   request'[q] = [request[q] EXCEPT !.at = "storing", !.kind = "start", !.run = r]
               \/ LockRun(q) /\ request'[q] = [request[q] EXCEPT !.at = "locking"]
      BY <3>6 DEF Request, Places, LockRun, At
    <3>7. CASE \/ LockCapacity(q) /\ request'[q] = [request[q] EXCEPT !.at = "counting"]
               \/ CountActive(q) /\ request'[q] = [request[q] EXCEPT !.at = "recounting",
                                                          !.active = Cardinality(Active)]
               \/ CountQueued(q) /\ request'[q] = [request[q] EXCEPT !.at = "storing",
                                                          !.queued = Cardinality(Queued)]
      BY <3>1, <3>7 DEF Request, Places, LockCapacity, CountActive, CountQueued, At
    <3>. QED
      BY <3>4, <3>5, <3>6, <3>7, RequestSteps DEF RequestMoves
  <2>2. request' = [p \in Requests |-> request'[p]]
    <3>1. ASSUME NEW p \in Requests, NEW m, request' = [request EXCEPT ![p] = m]
          PROVE  request' = [x \in Requests |-> request'[x]]
      BY <3>1 DEF TypeOK
    <3>2. ASSUME NEW p \in Requests, NEW r \in Runs,
                 Deliver(p, r) \/ AskRetry(p, r) \/ AskCancel(p, r) \/ AskStart(p, r)
          PROVE  \E m : request' = [request EXCEPT ![p] = m]
      BY <3>2 DEF Deliver, AskRetry, AskCancel, AskStart, Enter
    <3>3. ASSUME NEW p \in Requests, LockRun(p) \/ LockCapacity(p) \/ CountActive(p) \/ CountQueued(p)
          PROVE  \E m : request' = [request EXCEPT ![p] = m]
      BY <3>3 DEF LockRun, LockCapacity, CountActive, CountQueued, Goto
    <3>4. ASSUME NEW p \in Requests, (\E row \in Run : Stores(p, row)) \/ Done(p)
          PROVE  \E m : request' = [request EXCEPT ![p] = m]
      BY <3>4 DEF Stores, Store, Done
    <3>5. ASSUME UNCHANGED request PROVE request' = [x \in Requests |-> request'[x]]
      BY <3>5 DEF TypeOK
    <3>. QED
      BY <3>1, <3>2, <3>3, <3>4, <3>5, NextCases DEF Commit, End, CleanUp, vars
  <2>3. request' \in [Requests -> Request]
    BY <2>1, <2>2
  <2>4. runs' \in [Runs -> Run]
    <3>. runs \in [Runs -> Run] /\ request \in [Requests -> Request]
      BY DEF TypeOK
    <3>1. ASSUME NEW q \in Requests, Commit(q) PROVE runs' \in [Runs -> Run]
      BY <3>1 DEF Commit, Request
    <3>2. ASSUME NEW r \in Runs, End(r) PROVE runs' \in [Runs -> Run]
      BY <3>2 DEF End, Run, Statuses, RunStatuses
    <3>3. ASSUME NEW r \in Runs, CleanUp(r) PROVE runs' \in [Runs -> Run]
      BY <3>3 DEF CleanUp, Run, CleanupStatuses
    <3>4. ASSUME UNCHANGED runs PROVE runs' \in [Runs -> Run]
      BY <3>4
    <3>. QED
      BY <3>1, <3>2, <3>3, <3>4, NextCases
         DEF Deliver, AskRetry, AskCancel, AskStart, Enter, LockRun, LockCapacity, CountActive,
             CountQueued, Stores, Store, vars
  <2>5. locks' \in [Locks -> Requests \union {NoRequest}]
    <3>. locks \in [Locks -> Requests \union {NoRequest}]
      BY DEF TypeOK
    <3>1. ASSUME NEW q \in Requests, Done(q) PROVE locks' \in [Locks -> Requests \union {NoRequest}]
      BY <3>1 DEF Done, Released
    <3>2. ASSUME NEW q \in Requests, NEW row \in Run, Stores(q, row)
          PROVE  locks' \in [Locks -> Requests \union {NoRequest}]
      BY <3>2 DEF Stores, Store
    <3>3. ASSUME NEW q \in Requests, LockCapacity(q)
          PROVE  locks' \in [Locks -> Requests \union {NoRequest}]
      BY <3>3 DEF LockCapacity
    <3>4. ASSUME UNCHANGED locks PROVE locks' \in [Locks -> Requests \union {NoRequest}]
      BY <3>4
    <3>. QED
      BY <3>1, <3>2, <3>3, <3>4, NextCases
         DEF Deliver, AskRetry, AskCancel, AskStart, Enter, LockRun, CountActive,
             CountQueued, Commit, End, CleanUp, vars
  <2>. QED
    BY <2>1, <2>3, <2>4, <2>5 DEF TypeOK
<1>. QED
  BY <1>1, <1>2, PTL DEF Spec

-----------------------------------------------------------------------------
(***************************************************************************)
(* The strengthening, in parts: who holds which lock, what a transaction   *)
(* knows of its Run because of it, what its counts are worth, and what it  *)
(* is about to commit.                                                     *)
(***************************************************************************)
Decides(q) == request[q].kind \in {"webhook", "retry"}

\* Which requests are where, and of whom.
Courses ==
    \A q \in Requests :
        /\ request[q].at = "asked" => request[q].kind = "retry"
        /\ request[q].at \in {"locking", "counting", "recounting"} => Decides(q)
        /\ request[q].at # "idle" /\ request[q].kind = "retry" =>
             request[q].seen.status \in {"FAILED", "INCOMPLETE"}

HasRunLock(q) == InTransaction(q) /\ request[q].kind # "webhook"
Creates(q) == InTransaction(q) /\ request[q].kind = "webhook"

\* A Run has one transaction at a time.
RunsAreAlone ==
    \A p, q \in Requests :
        p # q /\ request[p].run = request[q].run =>
            ~(HasRunLock(p) /\ HasRunLock(q)) /\ ~(Creates(p) /\ Creates(q))

\* What a transaction has read of its Run's status still holds.
Known ==
    \A q \in Requests :
        /\ Creates(q) => runs[request[q].run].status = "ABSENT"
        /\ request[q].kind = "retry" /\ InTransaction(q) /\ request[q].at # "locking" =>
             runs[request[q].run].status = request[q].seen.status
        /\ request[q].kind = "cancel" /\ InTransaction(q) =>
             runs[request[q].run].status \in CancellableStatuses
        /\ request[q].kind = "start" /\ InTransaction(q) => runs[request[q].run].status = "QUEUED"

Counting(q) ==
    \/ request[q].at \in {"counting", "recounting"}
    \/ request[q].at \in {"storing", "committing"} /\ Decides(q)

OnlyHolderCounts == \A q \in Requests : Counting(q) => locks["run-capacity"] = q

\* The queue has not grown since the holder of the capacity lock counted it.
CountsStand ==
    \A q \in Requests : At(q, "storing") /\ Decides(q) => Cardinality(Queued) <= request[q].queued

\* What is about to be committed still fits.
Fits ==
    \A q \in Requests : At(q, "committing") =>
        /\ request[q].row.status # "ABSENT"
        /\ request[q].row.status = "QUEUED" =>
             Decides(q) /\ locks["queued-runs"] = q /\ Cardinality(Queued) < QueueLimit
        /\ HoldsSlot(request[q].row.status) =>
             \/ request[q].kind = "cancel" /\ HoldsSlot(runs[request[q].run].status)
             \/ locks["active-runs"] = q /\ Active = {}

AdmissionInv ==
    /\ TypeOK /\ Courses /\ RunsAreAlone /\ Known /\ OnlyHolderCounts /\ CountsStand /\ Fits
    /\ DecisionsStand /\ CapacityIsBounded

LEMMA CoursesStep == TypeOK /\ Courses /\ [Next]_vars => Courses'
<1>. SUFFICES ASSUME TypeOK, Courses, [Next]_vars, NEW q \in Requests
              PROVE  /\ request'[q].at = "asked" => request'[q].kind = "retry"
                     /\ request'[q].at \in {"locking", "counting", "recounting"} =>
                          request'[q].kind \in {"webhook", "retry"}
                     /\ request'[q].at # "idle" /\ request'[q].kind = "retry" =>
                          request'[q].seen.status \in {"FAILED", "INCOMPLETE"}
  BY DEF Courses, Decides
<1>. request[q] \in Request
  BY DEF TypeOK
<1>1. /\ request[q].at = "asked" => request[q].kind = "retry"
      /\ request[q].at \in {"locking", "counting", "recounting"} => request[q].kind \in {"webhook", "retry"}
      /\ request[q].at # "idle" /\ request[q].kind = "retry" =>
           request[q].seen.status \in {"FAILED", "INCOMPLETE"}
  BY DEF Courses, Decides
<1>2. ASSUME NEW r \in Runs, AskRetry(q, r) PROVE runs[r].status \in {"FAILED", "INCOMPLETE"}
  BY <1>2 DEF AskRetry, CanRetry
<1>3. /\ LockRun(q) => request[q].at = "asked"
      /\ LockCapacity(q) => request[q].at = "locking"
      /\ CountActive(q) => request[q].at = "counting"
      /\ CountQueued(q) => request[q].at = "recounting"
      /\ \A row \in Run : Stores(q, row) => request[q].at = "storing"
  BY DEF LockRun, LockCapacity, CountActive, CountQueued, Stores, At
<1>. RequestMoves(q)
  BY RequestSteps
<1>4. CASE request'[q] = request[q]
  BY <1>1, <1>4
<1>5. CASE request'[q] = IdleRequest
  BY <1>5 DEF IdleRequest
<1>6. ASSUME NEW r \in Runs,
             request'[q] = [request[q] EXCEPT !.at = "locking", !.kind = "webhook", !.run = r]
      PROVE  request'[q].at = "locking" /\ request'[q].kind = "webhook"
  BY <1>6 DEF Request
<1>7. ASSUME NEW r \in Runs, AskRetry(q, r),
             request'[q] = [request[q] EXCEPT !.at = "asked", !.kind = "retry", !.run = r,
                                              !.seen = runs[r]]
      PROVE  /\ request'[q].at = "asked" /\ request'[q].kind = "retry"
             /\ request'[q].seen.status \in {"FAILED", "INCOMPLETE"}
  BY <1>2, <1>7 DEF Request
<1>8. ASSUME NEW r \in Runs,
             \/ request'[q] = [request[q] EXCEPT !.at = "storing", !.kind = "cancel", !.run = r]
             \/ request'[q] = [request[q] EXCEPT !.at = "storing", !.kind = "start", !.run = r]
      PROVE  request'[q].at = "storing" /\ request'[q].kind \in {"cancel", "start"}
  BY <1>8 DEF Request
<1>9. CASE \/ LockRun(q) /\ request'[q] = [request[q] EXCEPT !.at = "locking"]
           \/ LockCapacity(q) /\ request'[q] = [request[q] EXCEPT !.at = "counting"]
           \/ CountActive(q) /\ request'[q] = [request[q] EXCEPT !.at = "recounting",
                                                          !.active = Cardinality(Active)]
           \/ CountQueued(q) /\ request'[q] = [request[q] EXCEPT !.at = "storing",
                                                          !.queued = Cardinality(Queued)]
           \/ \E row \in Run : Stores(q, row) /\
                request'[q] = [request[q] EXCEPT !.at = "committing", !.row = Stored(q, row)]
  BY <1>1, <1>3, <1>9 DEF Request
<1>. QED
  BY <1>4, <1>5, <1>6, <1>7, <1>8, <1>9 DEF RequestMoves

\* A transaction under way was so before, about the same Run and of the same kind, or has just
\* begun: the Run was free for it.
LEMMA Transactions ==
    ASSUME TypeOK, Courses, [Next]_vars, NEW q \in Requests, InTransaction(q)'
    PROVE  /\ request'[q].run \in Runs
           /\ \/ /\ InTransaction(q)
                 /\ request'[q].run = request[q].run /\ request'[q].kind = request[q].kind
                 /\ request'[q].seen = request[q].seen
              \/ /\ request[q].at \in {"idle", "asked"} /\ request'[q].at = "locking"
                 /\ request'[q].kind = "webhook"
                 /\ ~PullRequestLocked(request'[q].run) /\ runs[request'[q].run].status = "ABSENT"
                 /\ UNCHANGED runs
                 /\ \A p \in Requests \ {q} : request'[p] = request[p]
              \/ /\ request[q].at \in {"idle", "asked"} /\ request'[q].kind # "webhook"
                 /\ ~RunLocked(request'[q].run)
                 /\ request'[q].kind = "retry" => request'[q].at = "locking"
                 /\ request'[q].kind = "cancel" => runs[request'[q].run].status \in CancellableStatuses
                 /\ request'[q].kind = "start" => runs[request'[q].run].status = "QUEUED"
                 /\ UNCHANGED runs
                 /\ \A p \in Requests \ {q} : request'[p] = request[p]
<1>. /\ request[q] \in Request /\ request \in [Requests -> Request]
     /\ request[q].at # "idle" => request[q].run \in Runs
  BY DEF TypeOK
<1>1. \A r \in Runs : Deliver(q, r) => /\ ~PullRequestLocked(r) /\ runs[r].status = "ABSENT"
                                       /\ request[q].at = "idle" /\ UNCHANGED runs
                                       /\ \A p \in Requests \ {q} : request'[p] = request[p]
  BY DEF Deliver, At
<1>2. \A r \in Runs : AskCancel(q, r) => /\ ~RunLocked(r) /\ runs[r].status \in CancellableStatuses
                                         /\ request[q].at = "idle" /\ UNCHANGED runs
                                         /\ \A p \in Requests \ {q} : request'[p] = request[p]
  BY DEF AskCancel, Enter, At
<1>3. \A r \in Runs : AskStart(q, r) => /\ ~RunLocked(r) /\ runs[r].status = "QUEUED"
                                        /\ request[q].at = "idle" /\ UNCHANGED runs
                                        /\ \A p \in Requests \ {q} : request'[p] = request[p]
  BY DEF AskStart, Enter, At
<1>4. LockRun(q) => /\ ~RunLocked(request[q].run) /\ request[q].at = "asked"
                    /\ request[q].kind = "retry" /\ UNCHANGED runs
                    /\ \A p \in Requests \ {q} : request'[p] = request[p]
  BY DEF LockRun, Goto, At, Courses
<1>5. /\ LockCapacity(q) => request[q].at = "locking"
      /\ CountActive(q) => request[q].at = "counting"
      /\ CountQueued(q) => request[q].at = "recounting"
      /\ \A row \in Run : Stores(q, row) => request[q].at = "storing"
  BY DEF LockCapacity, CountActive, CountQueued, Stores, At
<1>6. RequestMoves(q)
  BY RequestSteps
<1>7. CASE request'[q] = request[q]
  BY <1>7 DEF InTransaction
<1>11. CASE request'[q] = IdleRequest
  BY <1>11 DEF IdleRequest, InTransaction
<1>12. ASSUME NEW r \in Runs,
              request'[q] = [request[q] EXCEPT !.at = "asked", !.kind = "retry", !.run = r,
                                               !.seen = runs[r]]
       PROVE  FALSE
  <2>1. request'[q].at = "asked"
    BY <1>12 DEF Request
  <2>. QED
    BY <2>1 DEF InTransaction
<1>8. CASE \E r \in Runs : Deliver(q, r) /\
             request'[q] = [request[q] EXCEPT !.at = "locking", !.kind = "webhook", !.run = r]
  BY <1>1, <1>8 DEF Request
<1>9. CASE \/ \E r \in Runs : AskCancel(q, r) /\
                request'[q] = [request[q] EXCEPT !.at = "storing", !.kind = "cancel", !.run = r]
           \/ \E r \in Runs : AskStart(q, r) /\
                request'[q] = [request[q] EXCEPT !.at = "storing", !.kind = "start", !.run = r]
           \/ LockRun(q) /\ request'[q] = [request[q] EXCEPT !.at = "locking"]
  BY <1>2, <1>3, <1>4, <1>9 DEF Request
<1>10. CASE \/ LockCapacity(q) /\ request'[q] = [request[q] EXCEPT !.at = "counting"]
            \/ CountActive(q) /\ request'[q] = [request[q] EXCEPT !.at = "recounting",
                                                          !.active = Cardinality(Active)]
            \/ CountQueued(q) /\ request'[q] = [request[q] EXCEPT !.at = "storing",
                                                          !.queued = Cardinality(Queued)]
            \/ \E row \in Run : /\ Stores(q, row)
                                /\ request'[q] = [request[q] EXCEPT !.at = "committing", !.row = Stored(q, row)]
  BY <1>5, <1>10 DEF Request, InTransaction
<1>. QED
  BY <1>6, <1>7, <1>8, <1>9, <1>10, <1>11, <1>12 DEF RequestMoves

LEMMA AloneStep == TypeOK /\ Courses /\ RunsAreAlone /\ [Next]_vars => RunsAreAlone'
<1>. SUFFICES ASSUME TypeOK, Courses, RunsAreAlone, [Next]_vars,
                     NEW p \in Requests, NEW q \in Requests,
                     p # q, request'[p].run = request'[q].run,
                     \/ HasRunLock(p)' /\ HasRunLock(q)'
                     \/ Creates(p)' /\ Creates(q)'
              PROVE  FALSE
  BY DEF RunsAreAlone
<1>. InTransaction(p)' /\ InTransaction(q)'
  BY DEF HasRunLock, Creates
<1>1. CASE InTransaction(p) /\ InTransaction(q)
  BY <1>1, Transactions DEF RunsAreAlone, HasRunLock, Creates, InTransaction
<1>2. ASSUME NEW a \in Requests, NEW b \in Requests, a # b, ~InTransaction(a),
             InTransaction(a)', InTransaction(b)', request'[a].run = request'[b].run,
             \/ HasRunLock(a)' /\ HasRunLock(b)'
             \/ Creates(a)' /\ Creates(b)'
      PROVE  FALSE
  <2>1. request'[b] = request[b]
    BY <1>2, Transactions
  <2>2. InTransaction(b)
    BY <1>2, <2>1 DEF InTransaction
  <2>3. CASE HasRunLock(a)' /\ HasRunLock(b)'
    <3>1. ~RunLocked(request'[a].run)
      BY <1>2, <2>3, Transactions DEF HasRunLock
    <3>. QED
      BY <1>2, <2>1, <2>2, <2>3, <3>1 DEF RunLocked, HasRunLock
  <2>4. CASE Creates(a)' /\ Creates(b)'
    <3>1. ~PullRequestLocked(request'[a].run)
      BY <1>2, <2>4, Transactions DEF Creates
    <3>. QED
      BY <1>2, <2>1, <2>2, <2>4, <3>1 DEF PullRequestLocked, Creates
  <2>. QED
    BY <1>2, <2>3, <2>4
<1>. QED
  BY <1>1, <1>2

\* What a step does to a Run.
LEMMA RunSteps ==
    ASSUME TypeOK, [Next]_vars, NEW r \in Runs
    PROVE  \/ runs'[r].status = runs[r].status
           \/ \E q \in Requests : /\ Commit(q) /\ request[q].run = r /\ runs'[r] = request[q].row
                                  /\ request'[q] = IdleRequest
                                  /\ \A s \in Runs \ {r} : runs'[s] = runs[s]
           \/ /\ ~RunLocked(r) /\ HoldsSlot(runs[r].status)
              /\ runs'[r].status \in {"PASSED", "FAILED", "CANCELLED"}
              /\ UNCHANGED request
<1>. runs \in [Runs -> Run] /\ request \in [Requests -> Request]
  BY DEF TypeOK
<1>1. ASSUME NEW q \in Requests, Commit(q), request[q].run = r
      PROVE  /\ runs'[r] = request[q].row /\ request'[q] = IdleRequest
             /\ \A s \in Runs \ {r} : runs'[s] = runs[s]
  BY <1>1 DEF Commit, Done
<1>2. ASSUME NEW q \in Requests, Commit(q), request[q].run # r PROVE runs'[r] = runs[r]
  BY <1>2 DEF Commit
<1>3. ASSUME NEW s \in Runs, End(s)
      PROVE  \/ runs'[r].status = runs[r].status
             \/ /\ ~RunLocked(r) /\ HoldsSlot(runs[r].status)
                /\ runs'[r].status \in {"PASSED", "FAILED", "CANCELLED"}
                /\ UNCHANGED request
  BY <1>3 DEF End, HoldsSlot, ExecutionLockStatuses, Run
<1>4. ASSUME NEW s \in Runs, CleanUp(s) PROVE runs'[r].status = runs[r].status
  BY <1>4 DEF CleanUp, Run
<1>5. ASSUME UNCHANGED runs PROVE runs'[r].status = runs[r].status
  BY <1>5
<1>. QED
  BY <1>1, <1>2, <1>3, <1>4, <1>5, NextCases
     DEF Deliver, AskRetry, AskCancel, AskStart, Enter, LockRun, LockCapacity, CountActive,
         CountQueued, Stores, Store, vars

\* The Run of a transaction keeps its status: nobody else may write it.
LEMMA StatusIsKept ==
    ASSUME TypeOK, Courses, RunsAreAlone, Known, [Next]_vars, NEW q \in Requests,
           InTransaction(q), InTransaction(q)',
           request[q].kind = "retry" => request[q].at # "locking"
    PROVE  runs'[request[q].run].status = runs[request[q].run].status
<1>. DEFINE r == request[q].run
<1>1. r \in Runs
  BY DEF InTransaction, TypeOK
<1>2. ASSUME NEW p \in Requests, Commit(p), request[p].run = r, request'[p] = IdleRequest PROVE FALSE
  <2>1. p # q /\ InTransaction(p)
    BY <1>2 DEF IdleRequest, InTransaction, Commit, At
  <2>2. ASSUME NEW a \in Requests, InTransaction(a), request[a].kind # "webhook",
               request[a].kind = "retry" => request[a].at # "locking"
        PROVE  runs[request[a].run].status # "ABSENT"
    BY <2>2 DEF Known, Courses, CancellableStatuses, InTransaction, TypeOK, Request
  <2>3. request[p].at = "committing"
    BY <1>2 DEF Commit, At
  <2>. QED
    BY <1>2, <2>1, <2>2, <2>3 DEF RunsAreAlone, HasRunLock, Creates, Known
<1>3. ASSUME ~RunLocked(r), HoldsSlot(runs[r].status) PROVE FALSE
  <2>1. request[q].kind = "webhook"
    BY <1>3 DEF RunLocked
  <2>. QED
    BY <1>3, <2>1 DEF Known, Creates, HoldsSlot, ExecutionLockStatuses
<1>. HIDE DEF r
<1>4. runs'[r].status = runs[r].status
  BY <1>1, <1>2, <1>3, RunSteps
<1>. QED
  BY <1>4 DEF r

LEMMA KnownStep == TypeOK /\ Courses /\ RunsAreAlone /\ Known /\ [Next]_vars => Known'
<1>. SUFFICES ASSUME TypeOK, Courses, RunsAreAlone, Known, [Next]_vars, NEW q \in Requests,
                     InTransaction(q)'
              PROVE  /\ request'[q].kind = "webhook" => runs'[request'[q].run].status = "ABSENT"
                     /\ request'[q].kind = "retry" /\ request'[q].at # "locking" =>
                          runs'[request'[q].run].status = request'[q].seen.status
                     /\ request'[q].kind = "cancel" => runs'[request'[q].run].status \in CancellableStatuses
                     /\ request'[q].kind = "start" => runs'[request'[q].run].status = "QUEUED"
  BY DEF Known, Creates
<1>1. CASE ~InTransaction(q)
  BY <1>1, Transactions DEF InTransaction
<1>2. CASE InTransaction(q) /\ (request[q].kind = "retry" => request[q].at # "locking")
  <2>1. /\ request'[q].run = request[q].run /\ request'[q].kind = request[q].kind
        /\ request'[q].seen = request[q].seen
    BY <1>2, Transactions DEF InTransaction
  <2>2. runs'[request[q].run].status = runs[request[q].run].status
    BY <1>2, StatusIsKept
  <2>. QED
    BY <1>2, <2>1, <2>2 DEF Known, Creates
<1>3. CASE request[q].kind = "retry" /\ request[q].at = "locking"
  <2>1. /\ request'[q].run = request[q].run /\ request'[q].kind = "retry"
        /\ request'[q].seen = request[q].seen
    BY <1>3, Transactions DEF InTransaction
  <2>2. ASSUME request'[q].at # "locking"
        PROVE  LockCapacity(q) /\ runs[request[q].run] = request[q].seen
    <3>1. /\ \A r \in Runs : ~Deliver(q, r) /\ ~AskRetry(q, r) /\ ~AskCancel(q, r) /\ ~AskStart(q, r)
          /\ ~LockRun(q) /\ ~CountActive(q) /\ ~CountQueued(q)
          /\ \A row \in Run : ~Stores(q, row)
      BY <1>3 DEF Deliver, AskRetry, AskCancel, AskStart, Enter, LockRun, CountActive, CountQueued,
         Stores, At
    <3>2. request'[q] # request[q] /\ request'[q] # IdleRequest
      BY <1>3, <2>2 DEF IdleRequest, InTransaction
    <3>. QED
      BY <1>3, <3>1, <3>2, RequestSteps DEF RequestMoves
  <2>3. LockCapacity(q) => UNCHANGED runs
    BY DEF LockCapacity
  <2>. QED
    BY <2>1, <2>2, <2>3
<1>. QED
  BY <1>1, <1>2, <1>3

\* Locks are kept until their transaction ends.
LEMMA LocksAreKept ==
    ASSUME TypeOK, [Next]_vars, NEW q \in Requests, NEW l \in Locks, locks[l] = q
    PROVE  locks'[l] = q \/ request'[q] = IdleRequest
<1>. q # NoRequest /\ locks \in [Locks -> Requests \union {NoRequest}] /\ request \in [Requests -> Request]
  BY AdmissionAssumption DEF TypeOK
<1>1. ASSUME NEW p \in Requests, LockCapacity(p) PROVE locks'[l] = q \/ request'[q] = IdleRequest
  BY <1>1 DEF LockCapacity, CapacityFree
<1>2. ASSUME NEW p \in Requests, NEW row \in Run, Stores(p, row) PROVE locks'[l] = q
  BY <1>2 DEF Stores, Store
<1>3. ASSUME NEW p \in Requests, Done(p) PROVE locks'[l] = q \/ request'[q] = IdleRequest
  BY <1>3 DEF Done, Released
<1>4. ASSUME UNCHANGED locks PROVE locks'[l] = q
  BY <1>4
<1>. QED
  BY <1>1, <1>2, <1>3, <1>4, NextCases
     DEF Deliver, AskRetry, AskCancel, AskStart, Enter, LockRun, CountActive, CountQueued, Commit,
         End, CleanUp, vars

LEMMA HolderStep ==
    TypeOK /\ Courses /\ OnlyHolderCounts /\ [Next]_vars => OnlyHolderCounts'
<1>. SUFFICES ASSUME TypeOK, Courses, OnlyHolderCounts, [Next]_vars, NEW q \in Requests, Counting(q)'
              PROVE  locks'["run-capacity"] = q
  BY DEF OnlyHolderCounts
<1>. request[q] \in Request /\ "run-capacity" \in Locks
  BY DEF TypeOK, Locks
<1>. USE DEF Counting, Decides
<1>0. request'[q] # IdleRequest
  BY DEF IdleRequest
<1>1. CASE Counting(q)
  BY <1>0, <1>1, LocksAreKept DEF OnlyHolderCounts
<1>2. CASE ~Counting(q)
  <2>1. /\ CountActive(q) => Counting(q)
        /\ CountQueued(q) => Counting(q)
    BY DEF CountActive, CountQueued, At
  <2>2. ASSUME NEW row \in Run, Stores(q, row),
               request'[q] = [request[q] EXCEPT !.at = "committing", !.row = Stored(q, row)]
        PROVE  Counting(q)
    <3>1. request'[q].kind = request[q].kind
      BY <2>2 DEF Request
    <3>2. request[q].at = "storing" /\ request'[q].at = "committing"
      BY <2>2 DEF Stores, At, Request
    <3>. QED
      BY <3>1, <3>2
  <2>3. ASSUME NEW r \in Runs,
               \/ request'[q] = [request[q] EXCEPT !.at = "locking", !.kind = "webhook", !.run = r]
               \/ request'[q] = [request[q] EXCEPT !.at = "asked", !.kind = "retry", !.run = r,
                                                   !.seen = runs[r]]
               \/ request'[q] = [request[q] EXCEPT !.at = "storing", !.kind = "cancel", !.run = r]
               \/ request'[q] = [request[q] EXCEPT !.at = "storing", !.kind = "start", !.run = r]
               \/ request'[q] = [request[q] EXCEPT !.at = "locking"]
        PROVE  FALSE
    BY <2>3 DEF Request
  <2>4. request'[q] # request[q] /\ request'[q] # [request[q] EXCEPT !.at = "locking"]
    BY <1>2 DEF Request
  <2>. QED
    BY <1>0, <1>2, <2>1, <2>2, <2>3, <2>4, RequestSteps DEF RequestMoves
<1>. QED
  BY <1>1, <1>2

\* What is committed fits, so the queue and the work stay within their limits; and only a
\* transaction with the capacity lock lets the queue grow.
LEMMA TablesStep ==
    ASSUME AdmissionInv, [Next]_vars
    PROVE  /\ \/ Queued' \subseteq Queued
              \/ \E q \in Requests : /\ Commit(q) /\ request'[q] = IdleRequest
                                     /\ locks["queued-runs"] = q /\ locks["run-capacity"] = q
                                     /\ Cardinality(Queued) < QueueLimit
                                     /\ Queued' \subseteq Queued \union {request[q].run}
           /\ \/ Active' \subseteq Active
              \/ \E q \in Requests : /\ Commit(q) /\ request'[q] = IdleRequest
                                     /\ locks["active-runs"] = q /\ Active = {}
                                     /\ Active' \subseteq {request[q].run}
<1>. USE DEF AdmissionInv
<1>. runs \in [Runs -> Run] /\ request \in [Requests -> Request]
  BY DEF TypeOK
<1>1. CASE \E q \in Requests : Commit(q)
  <2>1. PICK q \in Requests : Commit(q)
    BY <1>1
  <2>. DEFINE r == request[q].run
  <2>2. /\ r \in Runs /\ request[q].at = "committing" /\ request'[q] = IdleRequest
        /\ runs' = [runs EXCEPT ![r] = request[q].row]
    BY <2>1 DEF Commit, Done, At, TypeOK
  <2>. HIDE DEF r
  <2>3. \/ Queued' \subseteq Queued
        \/ /\ locks["queued-runs"] = q /\ locks["run-capacity"] = q
           /\ Cardinality(Queued) < QueueLimit
           /\ Queued' \subseteq Queued \union {r}
    <3>1. CASE request[q].row.status = "QUEUED"
      <4>1. Decides(q) /\ locks["queued-runs"] = q /\ Cardinality(Queued) < QueueLimit
        BY <2>2, <3>1 DEF Fits, At
      <4>2. locks["run-capacity"] = q
        BY <2>2, <4>1 DEF OnlyHolderCounts, Counting
      <4>3. Queued' \subseteq Queued \union {r}
        BY <2>2 DEF Queued
      <4>. QED
        BY <4>1, <4>2, <4>3
    <3>2. CASE request[q].row.status # "QUEUED"
      BY <2>2, <3>2 DEF Queued
    <3>. QED
      BY <3>1, <3>2
  <2>4. \/ Active' \subseteq Active
        \/ locks["active-runs"] = q /\ Active = {} /\ Active' \subseteq {r}
    <3>1. CASE ~HoldsSlot(request[q].row.status) \/ HoldsSlot(runs[r].status)
      BY <2>2, <3>1 DEF Active
    <3>2. CASE HoldsSlot(request[q].row.status) /\ ~HoldsSlot(runs[r].status)
      <4>1. locks["active-runs"] = q /\ Active = {}
        BY <2>2, <3>2 DEF Fits, At, r
      <4>2. Active' \subseteq Active \union {r}
        BY <2>2 DEF Active
      <4>. QED
        BY <4>1, <4>2
    <3>. QED
      BY <3>1, <3>2
  <2>. QED
    BY <2>1, <2>2, <2>3, <2>4 DEF r
<1>2. CASE \A q \in Requests : ~Commit(q)
  <2>1. \A r \in Runs : runs'[r].status = runs[r].status \/ runs'[r].status \in {"PASSED", "FAILED", "CANCELLED"}
    BY <1>2, RunSteps
  <2>. QED
    BY <2>1 DEF Queued, Active, HoldsSlot, ExecutionLockStatuses
<1>. QED
  BY <1>1, <1>2

LEMMA Sizes ==
    ASSUME AdmissionInv
    PROVE  /\ Queued \in SUBSET Runs /\ Active \in SUBSET Runs
           /\ Cardinality(Queued) \in Nat /\ Cardinality(Active) \in Nat
           /\ QueueLimit \in Nat /\ MaxQueuedRuns \in Nat /\ MaxQueuedRuns <= QueueLimit
<1>1. Queued \in SUBSET Runs /\ Active \in SUBSET Runs
  BY DEF Queued, Active
<1>. QED
  BY <1>1, Countable, AdmissionAssumption

LEMMA BoundsStep ==
    ASSUME AdmissionInv, [Next]_vars
    PROVE  CapacityIsBounded'
<1>0. Queued' \in SUBSET Runs /\ Active' \in SUBSET Runs
  BY DEF Queued, Active
<1>1. Cardinality(Queued') \in Nat /\ Cardinality(Active') \in Nat
  BY <1>0, Countable
<1>2. Cardinality(Queued) <= QueueLimit /\ Cardinality(Active) <= 1
  BY DEF AdmissionInv, CapacityIsBounded
<1>3. Cardinality(Queued') <= QueueLimit
  <2>1. CASE Queued' \subseteq Queued
    <3>1. Cardinality(Queued') <= Cardinality(Queued)
      BY <2>1, Sizes, FewerRuns
    <3>. QED
      BY <1>1, <1>2, <3>1, Sizes
  <2>2. ASSUME NEW q \in Requests, Commit(q), Cardinality(Queued) < QueueLimit,
               Queued' \subseteq Queued \union {request[q].run}
        PROVE  Cardinality(Queued') <= QueueLimit
    <3>1. request[q].run \in Runs
      BY <2>2 DEF Commit, At, AdmissionInv, TypeOK
    <3>2. Cardinality(Queued') <= Cardinality(Queued) + 1
      BY <2>2, <3>1, Sizes, OneMoreRun
    <3>. QED
      BY <1>1, <2>2, <3>2, Sizes
  <2>. QED
    BY <2>1, <2>2, TablesStep
<1>4. Cardinality(Active') <= 1
  <2>1. CASE Active' \subseteq Active
    <3>1. Cardinality(Active') <= Cardinality(Active)
      BY <2>1, Sizes, FewerRuns
    <3>. QED
      BY <1>1, <1>2, <3>1, Sizes
  <2>2. ASSUME NEW q \in Requests, Commit(q), Active = {}, Active' \subseteq {request[q].run}
        PROVE  Cardinality(Active') <= 1
    <3>1. request[q].run \in Runs
      BY <2>2 DEF Commit, At, AdmissionInv, TypeOK
    <3>2. Cardinality(Active') <= Cardinality(Active) + 1
      BY <2>2, <3>1, Sizes, OneMoreRun
    <3>3. Cardinality(Active) = 0
      BY <2>2, FS_EmptySet
    <3>. QED
      BY <1>1, <3>2, <3>3
  <2>. QED
    BY <2>1, <2>2, TablesStep
<1>. QED
  BY <1>3, <1>4 DEF CapacityIsBounded

\* Counts are fresh when they are made, and stand while the capacity lock is held.
LEMMA CountsStep == AdmissionInv /\ [Next]_vars => CountsStand'
<1>. SUFFICES ASSUME AdmissionInv, [Next]_vars, NEW q \in Requests, request'[q].at = "storing",
                     request'[q].kind \in {"webhook", "retry"}
              PROVE  Cardinality(Queued') <= request'[q].queued
  BY DEF CountsStand, At, Decides
<1>. /\ TypeOK /\ OnlyHolderCounts /\ CountsStand /\ request[q] \in Request
     /\ request[q].queued \in Nat
  BY DEF AdmissionInv, TypeOK, Request
<1>1. CASE request'[q] = request[q]
  <2>1. Counting(q) /\ Cardinality(Queued) <= request[q].queued
    BY <1>1 DEF Counting, Decides, CountsStand, At
  <2>2. ~(\E p \in Requests : locks["run-capacity"] = p /\ request'[p] = IdleRequest)
    <3>1. request'[q] # IdleRequest
      BY DEF IdleRequest
    <3>. QED
      BY <2>1, <3>1 DEF OnlyHolderCounts
  <2>3. Queued' \subseteq Queued
    BY <2>2, TablesStep
  <2>4. Cardinality(Queued') <= Cardinality(Queued)
    BY <2>3, Sizes, FewerRuns
  <2>5. Cardinality(Queued') \in Nat
    BY Countable DEF Queued
  <2>. QED
    BY <1>1, <2>1, <2>4, <2>5, Sizes
<1>2. CASE CountQueued(q) /\ request'[q] = [request[q] EXCEPT !.at = "storing", !.queued = Cardinality(Queued)]
  <2>1. request'[q].queued = Cardinality(Queued)
    BY <1>2 DEF Request
  <2>2. Queued' = Queued
    BY <1>2 DEF CountQueued, Queued
  <2>. QED
    BY <2>1, <2>2, Sizes
<1>3. ASSUME NEW r \in Runs,
             \/ request'[q] = [request[q] EXCEPT !.at = "locking", !.kind = "webhook", !.run = r]
             \/ request'[q] = [request[q] EXCEPT !.at = "asked", !.kind = "retry", !.run = r,
                                                 !.seen = runs[r]]
             \/ request'[q] = [request[q] EXCEPT !.at = "storing", !.kind = "cancel", !.run = r]
             \/ request'[q] = [request[q] EXCEPT !.at = "storing", !.kind = "start", !.run = r]
      PROVE  FALSE
  BY <1>3 DEF Request
<1>4. ASSUME NEW row,
             \/ request'[q] = [request[q] EXCEPT !.at = "locking"]
             \/ request'[q] = [request[q] EXCEPT !.at = "counting"]
             \/ request'[q] = [request[q] EXCEPT !.at = "recounting", !.active = Cardinality(Active)]
             \/ request'[q] = [request[q] EXCEPT !.at = "committing", !.row = row]
      PROVE  FALSE
  BY <1>4 DEF Request
<1>5. request'[q] # IdleRequest
  BY DEF IdleRequest
<1>. QED
  BY <1>1, <1>2, <1>3, <1>4, <1>5, RequestSteps DEF RequestMoves

\* A transaction that has a row to commit had it before, or writes it now.
LEMMA Committers ==
    ASSUME TypeOK, [Next]_vars, NEW q \in Requests, request'[q].at = "committing"
    PROVE  \/ request'[q] = request[q]
           \/ \E row \in Run : /\ Stores(q, row)
                               /\ request'[q] = [request[q] EXCEPT !.at = "committing", !.row = Stored(q, row)]
<1>. request[q] \in Request
  BY DEF TypeOK
<1>1. ASSUME NEW r \in Runs,
             \/ request'[q] = [request[q] EXCEPT !.at = "locking", !.kind = "webhook", !.run = r]
             \/ request'[q] = [request[q] EXCEPT !.at = "asked", !.kind = "retry", !.run = r,
                                                 !.seen = runs[r]]
             \/ request'[q] = [request[q] EXCEPT !.at = "storing", !.kind = "cancel", !.run = r]
             \/ request'[q] = [request[q] EXCEPT !.at = "storing", !.kind = "start", !.run = r]
      PROVE  FALSE
  BY <1>1 DEF Request
<1>2. CASE \/ request'[q] = [request[q] EXCEPT !.at = "locking"]
           \/ request'[q] = [request[q] EXCEPT !.at = "counting"]
           \/ request'[q] = [request[q] EXCEPT !.at = "recounting", !.active = Cardinality(Active)]
           \/ request'[q] = [request[q] EXCEPT !.at = "storing", !.queued = Cardinality(Queued)]
  BY <1>2 DEF Request
<1>3. request'[q] # IdleRequest
  BY DEF IdleRequest
<1>. QED
  BY <1>1, <1>2, <1>3, RequestSteps DEF RequestMoves

\* What a transaction writes, and what the triggers make of it.
LEMMA Statements ==
    ASSUME AdmissionInv, NEW q \in Requests, NEW row \in Run, Stores(q, row)
    PROVE  LET stored == Stored(q, row).status IN
           /\ stored # "ABSENT"
           /\ stored = "QUEUED" => /\ Decides(q) /\ locks'["queued-runs"] = q
                                   /\ Cardinality(Queued) < QueueLimit
           /\ HoldsSlot(stored) => \/ request[q].kind = "cancel" /\ HoldsSlot(runs[request[q].run].status)
                                   \/ locks'["active-runs"] = q /\ Active = {}
           /\ request[q].kind = "webhook" => stored = Decided(q)
           /\ request[q].kind = "retry" => stored = "QUEUED"
           /\ UNCHANGED runs
<1>. DEFINE old == runs[request[q].run].status
            stored == Stored(q, row).status
<1>. HIDE DEF stored
<1>. request[q] \in Request
  BY DEF AdmissionInv, TypeOK
<1>0. /\ stored = IF Overruled(old, row.status) THEN "REJECTED_BY_CAPACITY" ELSE row.status
      /\ \A l \in Locks : l \in TriggerLock(old, row.status) => locks'[l] = q
      /\ UNCHANGED runs /\ Writes(q, row) /\ At(q, "storing")
  BY DEF Stores, Store, Stored, Run, stored
<1>1. /\ request[q].kind = "webhook" => old = "ABSENT"
      /\ request[q].kind = "retry" => old \in {"FAILED", "INCOMPLETE"}
      /\ request[q].kind = "cancel" => old \in CancellableStatuses
      /\ request[q].kind = "start" => old = "QUEUED"
  BY <1>0 DEF AdmissionInv, Known, Courses, Creates, InTransaction, At
<1>2. row.status # "ABSENT"
  BY <1>0 DEF Writes, Decided
<1>3. ASSUME stored = "QUEUED"
      PROVE  Decides(q) /\ locks'["queued-runs"] = q /\ Cardinality(Queued) < QueueLimit
  <2>1. row.status = "QUEUED" /\ ~Overruled(old, "QUEUED")
    BY <1>0, <1>3
  <2>2. Decides(q)
    BY <1>0, <2>1 DEF Writes, Decides
  <2>3. EntersQueue(old, "QUEUED")
    BY <1>1, <2>2 DEF EntersQueue, Decides
  <2>4. "queued-runs" \in TriggerLock(old, "QUEUED") /\ "queued-runs" \in Locks
    BY <2>3 DEF TriggerLock, Locks
  <2>5. Cardinality(Queued) < QueueLimit
    BY <2>1, <2>3, Sizes DEF Overruled
  <2>. QED
    BY <1>0, <2>1, <2>2, <2>4, <2>5
<1>4. ASSUME HoldsSlot(stored)
      PROVE  \/ request[q].kind = "cancel" /\ HoldsSlot(old)
             \/ locks'["active-runs"] = q /\ Active = {}
  <2>1. row.status = stored /\ ~Overruled(old, row.status)
    BY <1>0, <1>4 DEF HoldsSlot, ExecutionLockStatuses
  <2>2. request[q].kind \in {"cancel", "start"}
    BY <1>0, <1>4, <2>1 DEF Writes, Decided, HoldsSlot, ExecutionLockStatuses
  <2>3. CASE HoldsSlot(old)
    BY <1>1, <2>2, <2>3 DEF HoldsSlot, ExecutionLockStatuses
  <2>4. CASE ~HoldsSlot(old)
    <3>1. EntersWork(old, row.status)
      BY <1>4, <2>1, <2>4 DEF EntersWork
    <3>2. "active-runs" \in TriggerLock(old, row.status) /\ "active-runs" \in Locks
      BY <3>1 DEF TriggerLock, Locks
    <3>3. Cardinality(Active) = 0
      BY <2>1, <3>1, Sizes DEF Overruled
    <3>4. Active = {}
      <4>1. IsFiniteSet(Active)
        BY Sizes, Countable
      <4>. QED
        BY <3>3, <4>1, FS_EmptySet
    <3>. QED
      BY <1>0, <3>2, <3>4
  <2>. QED
    BY <2>3, <2>4
<1>5. ASSUME Decides(q), row.status = "QUEUED", request[q].queued < QueueLimit
      PROVE  ~Overruled(old, row.status)
  <2>1. Cardinality(Queued) <= request[q].queued
    BY <1>0, <1>5 DEF AdmissionInv, CountsStand
  <2>2. ~EntersWork(old, row.status)
    BY <1>5 DEF EntersWork, HoldsSlot, ExecutionLockStatuses
  <2>3. request[q].queued \in Nat
    BY DEF Request
  <2>. QED
    BY <1>5, <2>1, <2>2, <2>3, Sizes DEF Overruled
<1>6. ASSUME request[q].kind = "webhook" PROVE stored = Decided(q)
  <2>1. row.status = Decided(q)
    BY <1>0, <1>6 DEF Writes
  <2>2. CASE Full(q)
    BY <1>0, <2>1, <2>2 DEF Decided
  <2>3. CASE ~Full(q)
    <3>1. request[q].queued \in Nat
      BY DEF Request
    <3>2. request[q].queued < QueueLimit
      BY <2>3, <3>1, Sizes DEF Full
    <3>. QED
      BY <1>0, <1>5, <1>6, <2>1, <2>3, <3>2 DEF Decided, Decides
  <2>. QED
    BY <2>2, <2>3
<1>7. ASSUME request[q].kind = "retry" PROVE stored = "QUEUED"
  <2>1. row.status = "QUEUED" /\ request[q].queued < MaxQueuedRuns /\ request[q].queued \in Nat
    BY <1>0, <1>7 DEF Writes, HasRetryCapacity, Request
  <2>. QED
    BY <1>0, <1>5, <1>7, <2>1, Sizes DEF Decides
<1>8. stored # "ABSENT"
  BY <1>0, <1>2
<1>. QED
  BY <1>0, <1>3, <1>4, <1>6, <1>7, <1>8 DEF stored

LEMMA FitsStep == AdmissionInv /\ [Next]_vars => Fits'
<1>. SUFFICES ASSUME AdmissionInv, [Next]_vars, NEW q \in Requests, request'[q].at = "committing"
              PROVE  /\ request'[q].row.status # "ABSENT"
                     /\ request'[q].row.status = "QUEUED" =>
                          /\ request'[q].kind \in {"webhook", "retry"}
                          /\ locks'["queued-runs"] = q /\ Cardinality(Queued') < QueueLimit
                     /\ HoldsSlot(request'[q].row.status) =>
                          \/ request'[q].kind = "cancel" /\ HoldsSlot(runs'[request'[q].run].status)
                          \/ locks'["active-runs"] = q /\ Active' = {}
  BY DEF Fits, At, Decides, HoldsSlot
<1>. /\ TypeOK /\ Courses /\ RunsAreAlone /\ Known /\ Fits /\ request[q] \in Request
     /\ request'[q] # IdleRequest
  BY DEF AdmissionInv, TypeOK, IdleRequest
<1>1. CASE request'[q] = request[q]
  <2>1. /\ request[q].row.status # "ABSENT"
        /\ request[q].row.status = "QUEUED" =>
             Decides(q) /\ locks["queued-runs"] = q /\ Cardinality(Queued) < QueueLimit
        /\ HoldsSlot(request[q].row.status) =>
             \/ request[q].kind = "cancel" /\ HoldsSlot(runs[request[q].run].status)
             \/ locks["active-runs"] = q /\ Active = {}
    BY <1>1 DEF Fits, At
  <2>2. ASSUME locks["queued-runs"] = q, Cardinality(Queued) < QueueLimit
        PROVE  locks'["queued-runs"] = q /\ Cardinality(Queued') < QueueLimit
    <3>1. locks'["queued-runs"] = q
      BY <2>2, LocksAreKept DEF Locks
    <3>2. Queued' \subseteq Queued
      BY <2>2, TablesStep
    <3>3. Cardinality(Queued') <= Cardinality(Queued)
      BY <3>2, Sizes, FewerRuns
    <3>4. Cardinality(Queued') \in Nat
      BY Countable DEF Queued
    <3>. QED
      BY <2>2, <3>1, <3>3, <3>4, Sizes
  <2>3. ASSUME locks["active-runs"] = q, Active = {}
        PROVE  locks'["active-runs"] = q /\ Active' = {}
    <3>1. locks'["active-runs"] = q
      BY <2>3, LocksAreKept DEF Locks
    <3>2. Active' \subseteq Active
      BY <2>3, TablesStep
    <3>. QED
      BY <2>3, <3>1, <3>2
  <2>4. ASSUME request[q].kind = "cancel"
        PROVE  runs'[request[q].run].status = runs[request[q].run].status
    BY <1>1, <2>4, StatusIsKept DEF InTransaction
  <2>. QED
    BY <1>1, <2>1, <2>2, <2>3, <2>4 DEF Decides
<1>2. ASSUME NEW row \in Run, Stores(q, row),
             request'[q] = [request[q] EXCEPT !.at = "committing", !.row = Stored(q, row)]
      PROVE  /\ request'[q].row.status # "ABSENT"
             /\ request'[q].row.status = "QUEUED" =>
                          /\ request'[q].kind \in {"webhook", "retry"}
                          /\ locks'["queued-runs"] = q /\ Cardinality(Queued') < QueueLimit
             /\ HoldsSlot(request'[q].row.status) =>
                          \/ request'[q].kind = "cancel" /\ HoldsSlot(runs'[request'[q].run].status)
                          \/ locks'["active-runs"] = q /\ Active' = {}
  <2>1. /\ request'[q].row = Stored(q, row) /\ request'[q].kind = request[q].kind
        /\ request'[q].run = request[q].run
    BY <1>2 DEF Request
  <2>2. UNCHANGED runs
    BY <1>2, Statements
  <2>3. Queued' = Queued /\ Active' = Active
    BY <2>2 DEF Queued, Active
  <2>. QED
    BY <1>2, <2>1, <2>2, <2>3, Statements DEF Decides
<1>. QED
  BY <1>1, <1>2, Committers

LEMMA DecisionsStep == AdmissionInv /\ [Next]_vars => DecisionsStand'
<1>. SUFFICES ASSUME AdmissionInv, [Next]_vars, NEW q \in Requests, request'[q].at = "committing"
              PROVE  /\ request'[q].kind = "webhook" => request'[q].row.status = Decided(q)'
                     /\ request'[q].kind = "retry" => request'[q].row.status = "QUEUED"
  BY DEF DecisionsStand, At
<1>. TypeOK /\ request[q] \in Request
  BY DEF AdmissionInv, TypeOK
<1>1. CASE request'[q] = request[q]
  BY <1>1 DEF AdmissionInv, DecisionsStand, At, Decided, Full
<1>2. ASSUME NEW row \in Run, Stores(q, row),
             request'[q] = [request[q] EXCEPT !.at = "committing", !.row = Stored(q, row)]
      PROVE  /\ request'[q].kind = "webhook" => request'[q].row.status = Decided(q)'
             /\ request'[q].kind = "retry" => request'[q].row.status = "QUEUED"
  <2>1. /\ request'[q].row = Stored(q, row) /\ request'[q].kind = request[q].kind
        /\ request'[q].active = request[q].active /\ request'[q].queued = request[q].queued
    BY <1>2 DEF Request
  <2>2. Decided(q)' = Decided(q)
    BY <2>1 DEF Decided, Full
  <2>. QED
    BY <1>2, <2>1, <2>2, Statements
<1>. QED
  BY <1>1, <1>2, Committers

LEMMA AdmissionInvariant == Spec => []AdmissionInv
<1>1. Init /\ TypeOK => AdmissionInv
  <2>. SUFFICES ASSUME Init, TypeOK PROVE AdmissionInv
    OBVIOUS
  <2>1. Active = {} /\ Queued = {}
    BY DEF Init, Active, Queued, NewRun, HoldsSlot, ExecutionLockStatuses
  <2>2. Cardinality(Queued) = 0 /\ Cardinality(Active) = 0
    BY <2>1, FS_EmptySet
  <2>3. \A q \in Requests : request[q].at = "idle"
    BY DEF Init, IdleRequest
  <2>. QED
    BY <2>2, <2>3, AdmissionAssumption
       DEF AdmissionInv, Courses, RunsAreAlone, Known, HasRunLock, Creates, InTransaction,
           OnlyHolderCounts, Counting, CountsStand, Fits, DecisionsStand, At, CapacityIsBounded
<1>2. TypeOK' /\ AdmissionInv /\ [Next]_vars => AdmissionInv'
  BY CoursesStep, AloneStep, KnownStep, HolderStep, CountsStep, FitsStep, DecisionsStep, BoundsStep
     DEF AdmissionInv
<1>. QED
  BY <1>1, <1>2, TypeCorrect, PTL DEF Spec

\* However many webhooks, retries, cancellations and starts race, the queue keeps its limit
\* and one Run is at work at most.
THEOREM CapacityBounded == Spec => []CapacityIsBounded
  BY AdmissionInvariant, PTL DEF AdmissionInv

\* What the service decided about a new or repeated Run is what the trigger lets be stored.
THEOREM ServiceDecides == Spec => []DecisionsStand
  BY AdmissionInvariant, PTL DEF AdmissionInv

-----------------------------------------------------------------------------
\* The locks a transaction may wait for: its Run's, the capacity's, and the triggers'.
WaitsForALock(q) ==
    \/ At(q, "asked") /\ RunLocked(request[q].run)
    \/ At(q, "locking") /\ ~CapacityFree(q)
    \/ At(q, "storing") /\ \E l \in {"queued-runs", "active-runs"} : locks[l] # NoRequest

SomebodyGoesOn ==
    (\E q \in Requests : ~At(q, "idle"))
        => \E q \in Requests : ~At(q, "idle") /\ ~WaitsForALock(q)

\* The capacity lock has a holder that counts or writes; the triggers' locks have holders that
\* have nothing left to do but to commit.
HoldersGoOn ==
    /\ locks["run-capacity"] # NoRequest =>
         /\ locks["run-capacity"] \in Requests
         /\ request[locks["run-capacity"]].at \in {"counting", "recounting", "storing", "committing"}
    /\ \A l \in {"queued-runs", "active-runs"} : locks[l] # NoRequest =>
         locks[l] \in Requests /\ request[locks[l]].at = "committing"

LEMMA HoldersStep == TypeOK /\ HoldersGoOn /\ [Next]_vars => HoldersGoOn'
<1>. SUFFICES ASSUME TypeOK, HoldersGoOn, [Next]_vars PROVE HoldersGoOn'
  OBVIOUS
<1>. USE AdmissionAssumption
<1>. /\ request \in [Requests -> Request] /\ locks \in [Locks -> Requests \union {NoRequest}]
     /\ Locks = {"run-capacity", "queued-runs", "active-runs"}
  BY DEF TypeOK, Locks
<1>1. ASSUME NEW q \in Requests, LockCapacity(q) PROVE HoldersGoOn'
  <2>1. locks["run-capacity"] = NoRequest /\ request[q].at = "locking"
    BY <1>1 DEF LockCapacity, CapacityFree, At
  <2>2. CASE locks' = [locks EXCEPT !["run-capacity"] = q] /\ request' = [request EXCEPT ![q].at = "counting"]
    BY <2>1, <2>2 DEF HoldersGoOn, Request
  <2>3. CASE locks' = locks /\ request' = [request EXCEPT ![q] = IdleRequest]
    BY <2>1, <2>3 DEF HoldersGoOn
  <2>. QED
    BY <1>1, <2>2, <2>3 DEF LockCapacity, Goto
<1>2. ASSUME NEW q \in Requests, CountActive(q) \/ CountQueued(q) PROVE HoldersGoOn'
  BY <1>2 DEF CountActive, CountQueued, At, HoldersGoOn, Request
<1>3. ASSUME NEW q \in Requests, NEW row \in Run, Stores(q, row) PROVE HoldersGoOn'
  <2>1. request' = [request EXCEPT ![q] = [request[q] EXCEPT !.at = "committing", !.row = Stored(q, row)]]
    BY <1>3 DEF Stores, Store, Stored
  <2>2. /\ \A p \in Requests : request'[p].at = IF p = q THEN "committing" ELSE request[p].at
        /\ request[q].at = "storing"
    BY <1>3, <2>1 DEF Request, Stores, At
  <2>3. \A l \in Locks : locks'[l] = locks[l] \/ locks'[l] = q
    BY <1>3 DEF Stores, Store
  <2>4. locks'["run-capacity"] = locks["run-capacity"]
    BY <1>3 DEF Stores, Store, TriggerLock
  <2>. QED
    BY <2>2, <2>3, <2>4 DEF HoldersGoOn
<1>4. ASSUME NEW q \in Requests, Done(q) PROVE HoldersGoOn'
  <2>1. /\ \A l \in Locks : locks'[l] = IF locks[l] = q THEN NoRequest ELSE locks[l]
        /\ \A p \in Requests \ {q} : request'[p] = request[p]
    BY <1>4 DEF Done, Released
  <2>. QED
    BY <2>1 DEF HoldersGoOn
<1>5. ASSUME NEW q \in Requests, request[q].at \in {"idle", "asked"}, locks' = locks,
             \A p \in Requests \ {q} : request'[p] = request[p]
      PROVE  HoldersGoOn'
  BY <1>5 DEF HoldersGoOn
<1>6. ASSUME NEW q \in Requests, NEW r \in Runs,
             Deliver(q, r) \/ AskRetry(q, r) \/ AskCancel(q, r) \/ AskStart(q, r)
      PROVE  HoldersGoOn'
  BY <1>5, <1>6 DEF Deliver, AskRetry, AskCancel, AskStart, Enter, At
<1>7. ASSUME NEW q \in Requests, LockRun(q) PROVE HoldersGoOn'
  BY <1>5, <1>7 DEF LockRun, Goto, At
<1>8. ASSUME UNCHANGED <<locks, request>> PROVE HoldersGoOn'
  BY <1>8 DEF HoldersGoOn
<1>. QED
  BY <1>1, <1>2, <1>3, <1>4, <1>6, <1>7, <1>8, NextCases DEF Commit, End, CleanUp, vars

\* No order in which webhooks, retries, cancellations, starts and the triggers they fire ask
\* for their locks makes all of them wait for each other: who holds a trigger's lock waits for
\* nothing, the holder of the capacity lock for a trigger's at most, and the holder of a Run's
\* lock for these.
THEOREM RequestsGoOn == Spec => []SomebodyGoesOn
<1>1. Init => HoldersGoOn
  BY DEF Init, HoldersGoOn, Locks
<1>2. AdmissionInv /\ HoldersGoOn /\ [Next]_vars => HoldersGoOn'
  BY HoldersStep DEF AdmissionInv
<1>3. AdmissionInv /\ HoldersGoOn => SomebodyGoesOn
  <2>. SUFFICES ASSUME AdmissionInv, HoldersGoOn, NEW q \in Requests, ~At(q, "idle")
                PROVE  \E p \in Requests : ~At(p, "idle") /\ ~WaitsForALock(p)
    BY DEF SomebodyGoesOn
  <2>. request \in [Requests -> Request]
    BY DEF AdmissionInv, TypeOK
  <2>1. CASE \E l \in {"queued-runs", "active-runs"} : locks[l] # NoRequest
    <3>1. PICK p \in Requests : request[p].at = "committing"
      BY <2>1 DEF HoldersGoOn
    <3>. QED
      BY <3>1 DEF At, WaitsForALock
  <2>2. CASE ~(\E l \in {"queued-runs", "active-runs"} : locks[l] # NoRequest)
    <3>1. CASE locks["run-capacity"] # NoRequest
      BY <2>2, <3>1 DEF HoldersGoOn, At, WaitsForALock
    <3>2. CASE locks["run-capacity"] = NoRequest
      <4>1. ASSUME NEW p \in Requests, InTransaction(p) PROVE ~At(p, "idle") /\ ~WaitsForALock(p)
        BY <2>2, <3>2, <4>1 DEF InTransaction, At, WaitsForALock, CapacityFree
      <4>2. CASE At(q, "asked") /\ RunLocked(request[q].run)
        BY <4>1, <4>2 DEF RunLocked
      <4>3. CASE ~(At(q, "asked") /\ RunLocked(request[q].run))
        BY <2>2, <3>2, <4>3 DEF WaitsForALock, CapacityFree
      <4>. QED
        BY <4>2, <4>3
    <3>. QED
      BY <3>1, <3>2
  <2>. QED
    BY <2>1, <2>2
<1>. QED
  BY <1>1, <1>2, <1>3, AdmissionInvariant, PTL DEF Spec
=============================================================================
