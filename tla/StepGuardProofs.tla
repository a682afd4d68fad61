-------------------------- MODULE StepGuardProofs --------------------------
(***************************************************************************)
(* Theorems about the step guard, for every set of rows and callers.       *)
(***************************************************************************)
EXTENDS StepGuard, TLAPS

\* The steps of the guard, and the admission as a module sees it that looks at the
\* guard from outside.
Moves == Next \/ \E c \in Calls : \E k \in Keys : Admit(c, k)

\* The disjuncts of both, named once for the step proofs below.
LEMMA NextCases ==
    ASSUME [Next]_vars
    PROVE  \/ \E c \in Calls : \E k \in Keys : Look(c, k)
           \/ \E c \in Calls : Works(c) \/ Heartbeat(c) \/ HeartbeatError(c) \/ Crash(c)
           \/ \E k \in Keys : MarkSkipped(k) \/ LeaseExpires(k)
           \/ UNCHANGED vars
  BY DEF Next, AlreadyTerminal, Busy

LEMMA MoveCases ==
    ASSUME [Moves]_vars
    PROVE  \/ \E c \in Calls : \E k \in Keys : Look(c, k) \/ Admit(c, k)
           \/ \E c \in Calls : Works(c) \/ Heartbeat(c) \/ HeartbeatError(c) \/ Crash(c)
           \/ \E k \in Keys : MarkSkipped(k) \/ LeaseExpires(k)
           \/ UNCHANGED vars
  BY DEF Moves, Next, AlreadyTerminal, Busy

\* Every step keeps the types.
LEMMA TypeStep == ASSUME TypeOK, [Moves]_vars PROVE TypeOK'
<1>. SUFFICES rows' \in [Keys -> Row] /\ call' \in [Calls -> Call]
                       /\ executed' \in [Keys -> Nat]
  BY DEF TypeOK
<1>. USE DEF TypeOK
<1>1. rows' \in [Keys -> Row]
  <2>. USE DEF Row, RowStatuses
  <2>2. ASSUME NEW c \in Calls, Heartbeat(c) PROVE rows' \in [Keys -> Row]
    <3>1. ASSUME NEW k \in Keys, rows' = [rows EXCEPT ![k].live = TRUE]
          PROVE  rows' \in [Keys -> Row]
      BY <3>1
    <3>2. call[c].key \in Keys
      BY DEF Call
    <3>. QED
      BY <2>2, <3>1, <3>2 DEF Heartbeat
  <2>3. ASSUME NEW c \in Calls, Works(c) PROVE rows' \in [Keys -> Row]
    <3>1. RowSettledBy(c) \in Row
      BY DEF RowSettledBy, Call
    <3>2. CASE Release(c)
      BY <3>2 DEF Release
    <3>3. CASE Take(c)
      BY <3>3 DEF Take, Leased, Call
    <3>. QED
      BY <2>3, <3>1, <3>2, <3>3
         DEF Works, OperationReturns, OperationThrows, Persist, LeaseLost,
             PersistError, ReleaseError
  <2>4. ASSUME NEW k \in Keys, MarkSkipped(k) PROVE rows' \in [Keys -> Row]
    BY <2>4 DEF MarkSkipped
  <2>5. ASSUME NEW k \in Keys, LeaseExpires(k) PROVE rows' \in [Keys -> Row]
    BY <2>5 DEF LeaseExpires
  <2>6. ASSUME NEW c \in Calls, NEW k \in Keys, Admit(c, k) PROVE rows' \in [Keys -> Row]
    BY <2>6 DEF Admit, Leased
  <2>. QED
    BY MoveCases, <2>2, <2>3, <2>4, <2>5, <2>6 DEF Look, HeartbeatError, Crash, vars
<1>2. call' \in [Calls -> Call]
  <2>1. ASSUME NEW c \in Calls, NEW k \in Keys, Look(c, k) PROVE call' \in [Calls -> Call]
    <3>1. ExpiredHolder(k) \in Calls \union {NoCall}
      BY DEF ExpiredHolder, Row
    <3>2. [call[c] EXCEPT !.at = "admitting", !.key = k, !.lost = FALSE,
                          !.found = ExpiredHolder(k)] \in Call
      BY <3>1 DEF Call, Places
    <3>. QED
      BY <2>1, <3>2 DEF Look
  <2>2. ASSUME NEW c \in Calls, call' = [call EXCEPT ![c].lost = TRUE]
        PROVE  call' \in [Calls -> Call]
    BY <2>2 DEF Call
  <2>3. ASSUME NEW c \in Calls, NEW p \in Places, call' = [call EXCEPT ![c].at = p]
        PROVE  call' \in [Calls -> Call]
    BY <2>3 DEF Call
  <2>4. ASSUME NEW c \in Calls, NEW r \in Results, OperationReturns(c, r)
        PROVE  call' \in [Calls -> Call]
    <3>1. [call[c] EXCEPT !.at = IF call[c].lost THEN "releasing" ELSE "persisting",
                          !.result = r] \in Call
      <4>1. ASSUME NEW p \in Places PROVE [call[c] EXCEPT !.at = p, !.result = r] \in Call
        BY DEF Call
      <4>2. (IF call[c].lost THEN "releasing" ELSE "persisting") \in Places
        BY DEF Places
      <4>. QED
        BY <4>1, <4>2
    <3>. QED
      BY <2>4, <3>1 DEF OperationReturns
  <2>7. ASSUME NEW c \in Calls, NEW p \in Places,
               call' = [call EXCEPT ![c].at = p, ![c].found = NoCall]
        PROVE  call' \in [Calls -> Call]
    BY <2>7 DEF Call
  <2>5. ASSUME NEW c \in Calls, Works(c) PROVE call' \in [Calls -> Call]
    BY <2>3, <2>4, <2>5, <2>7
       DEF Works, Take, OperationThrows, Persist, LeaseLost, PersistError, Release,
           ReleaseError, Places
  <2>6. ASSUME NEW c \in Calls, Heartbeat(c) \/ HeartbeatError(c) \/ Crash(c)
        PROVE  call' \in [Calls -> Call]
    BY <2>2, <2>6, <2>7 DEF Heartbeat, HeartbeatError, Crash, Places
  <2>8. ASSUME NEW c \in Calls, NEW k \in Keys, Admit(c, k) PROVE call' \in [Calls -> Call]
    <3>1. [call[c] EXCEPT !.at = "operating", !.key = k, !.lost = FALSE] \in Call
      BY DEF Call, Places
    <3>. QED
      BY <2>8, <3>1 DEF Admit
  <2>. QED
    BY MoveCases, <2>1, <2>5, <2>6, <2>8 DEF MarkSkipped, LeaseExpires, vars
<1>3. executed' \in [Keys -> Nat]
  <2>1. ASSUME NEW c \in Calls, Persist(c) PROVE executed' \in [Keys -> Nat]
    <3>1. call[c].key \in Keys
      BY DEF Call
    <3>. QED
      BY <2>1, <3>1 DEF Persist
  <2>2. ASSUME NEW c \in Calls, Works(c), ~Persist(c) PROVE UNCHANGED executed
    BY <2>2 DEF Works, Take, OperationReturns, OperationThrows, LeaseLost, PersistError,
                Release, ReleaseError
  <2>3. ASSUME NEW c \in Calls, NEW k \in Keys, Look(c, k) \/ Admit(c, k)
        PROVE  UNCHANGED executed
    BY <2>3 DEF Look, Admit
  <2>4. ASSUME NEW c \in Calls, Heartbeat(c) \/ HeartbeatError(c) \/ Crash(c)
        PROVE  UNCHANGED executed
    BY <2>4 DEF Heartbeat, HeartbeatError, Crash
  <2>5. ASSUME NEW k \in Keys, MarkSkipped(k) \/ LeaseExpires(k)
        PROVE  UNCHANGED executed
    BY <2>5 DEF MarkSkipped, LeaseExpires
  <2>. QED
    BY MoveCases, <2>1, <2>2, <2>3, <2>4, <2>5 DEF vars
<1>. QED
  BY <1>1, <1>2, <1>3

\* Type correctness: every row, call and counter keeps its type.
THEOREM TypeCorrect == Spec => []TypeOK
<1>1. Init => TypeOK
  <2>. SUFFICES ASSUME Init PROVE TypeOK
    OBVIOUS
  <2>1. rows \in [Keys -> Row]
    BY DEF Init, Row, RowStatuses
  <2>2. call \in [Calls -> Call]
    <3>1. [at : {"idle"}, key : Keys, lost : {FALSE}, result : {"PASSED"}, found : {NoCall}]
            \subseteq Call
      BY DEF Call, Places, Results
    <3>. QED
      BY <3>1 DEF Init
  <2>3. executed \in [Keys -> Nat]
    BY DEF Init
  <2>. QED
    BY <2>1, <2>2, <2>3 DEF TypeOK
<1>2. TypeOK /\ [Next]_vars => TypeOK'
  BY TypeStep DEF Moves
<1>. QED
  BY <1>1, <1>2, PTL DEF Spec

-----------------------------------------------------------------------------
\* A row carries a token only while it is RUNNING, so that the release in the
\* catch block, which compares nothing but the token, never undoes a result.
OnlyRunningRowsAreHeld ==
    \A k \in Keys : rows[k].status # "RUNNING" => rows[k].token = NoCall

LEMMA HeldStep ==
    ASSUME TypeOK, OnlyRunningRowsAreHeld, [Moves]_vars
    PROVE  OnlyRunningRowsAreHeld'
<1>. SUFFICES ASSUME NEW k \in Keys, rows'[k].status # "RUNNING"
              PROVE  rows'[k].token = NoCall
  BY DEF OnlyRunningRowsAreHeld
<1>. USE DEF TypeOK, OnlyRunningRowsAreHeld
<1>2. ASSUME NEW c \in Calls, Heartbeat(c) PROVE rows'[k].token = NoCall
  BY <1>2 DEF Heartbeat, Row
<1>3. ASSUME NEW c \in Calls, Works(c) PROVE rows'[k].token = NoCall
  <2>1. CASE UNCHANGED rows
    BY <2>1
  <2>2. CASE rows' = [rows EXCEPT ![call[c].key] = RowSettledBy(c)]
    BY <2>2 DEF RowSettledBy, Call
  <2>3. CASE Release(c)
    BY <2>3 DEF Release, Call
  <2>4. CASE Take(c)
    BY <2>4 DEF Take, Leased, Call
  <2>. QED
    BY <1>3, <2>1, <2>2, <2>3, <2>4
       DEF Works, OperationReturns, OperationThrows, Persist, LeaseLost,
           PersistError, ReleaseError
<1>4. ASSUME NEW j \in Keys, MarkSkipped(j) PROVE rows'[k].token = NoCall
  BY <1>4 DEF MarkSkipped
<1>5. ASSUME NEW j \in Keys, LeaseExpires(j) PROVE rows'[k].token = NoCall
  BY <1>5 DEF LeaseExpires, Row
<1>6. ASSUME NEW c \in Calls, NEW j \in Keys, Admit(c, j) PROVE rows'[k].token = NoCall
  BY <1>6 DEF Admit, Leased
<1>. QED
  BY MoveCases, <1>2, <1>3, <1>4, <1>5, <1>6 DEF Look, HeartbeatError, Crash, vars

LEMMA HeldInvariant == Spec => []OnlyRunningRowsAreHeld
<1>1. Init => OnlyRunningRowsAreHeld
  BY DEF Init, OnlyRunningRowsAreHeld
<1>2. TypeOK /\ OnlyRunningRowsAreHeld /\ [Next]_vars => OnlyRunningRowsAreHeld'
  BY HeldStep DEF Moves
<1>. QED
  BY <1>1, <1>2, TypeCorrect, PTL DEF Spec

\* What an admission knows of the row between its read and its write: nobody else is
\* as far, the row is not settled, and whoever holds it is the holder that was found.
AdmissionsHoldTheLock ==
    \A c \in Calls : call[c].at = "admitting" =>
        /\ ~Settled(call[c].key)
        /\ rows[call[c].key].status = "RUNNING" => rows[call[c].key].token = call[c].found
        /\ \A d \in Calls \ {c} : ~(call[d].at = "admitting" /\ call[d].key = call[c].key)

\* The admission of d stays where it is, and its row is in the same hands or in none.
LEMMA AdmissionWaits ==
    ASSUME TypeOK, AdmissionsHoldTheLock, [Next]_vars, NEW d \in Calls,
           call'[d].at = "admitting"
    PROVE  \/ /\ call[d].at = "admitting"
              /\ call'[d].key = call[d].key /\ call'[d].found = call[d].found
              /\ \/ rows'[call[d].key].status = "PENDING"
                 \/ /\ rows'[call[d].key].status = rows[call[d].key].status
                    /\ rows'[call[d].key].token = rows[call[d].key].token
           \/ \E k \in Keys : Look(d, k)
<1>. DEFINE Waits == /\ call[d].at = "admitting"
                     /\ call'[d].key = call[d].key /\ call'[d].found = call[d].found
                     /\ \/ rows'[call[d].key].status = "PENDING"
                        \/ /\ rows'[call[d].key].status = rows[call[d].key].status
                           /\ rows'[call[d].key].token = rows[call[d].key].token
<1>. /\ call \in [Calls -> Call] /\ rows \in [Keys -> Row]
     /\ \A c \in Calls : call[c].key \in Keys
  BY DEF TypeOK, Call
<1>1. ASSUME NEW c \in Calls, NEW k \in Keys, Look(c, k)
      PROVE  Waits \/ \E j \in Keys : Look(d, j)
  <2>1. CASE c = d
    BY <1>1, <2>1
  <2>2. CASE c # d
    BY <1>1, <2>2 DEF Look
  <2>. QED
    BY <2>1, <2>2
<1>2. ASSUME NEW c \in Calls, Heartbeat(c) \/ HeartbeatError(c) PROVE Waits
  BY <1>2 DEF Heartbeat, HeartbeatError, Call, Row
<1>3. ASSUME NEW c \in Calls, Crash(c) PROVE Waits
  BY <1>3 DEF Crash, Call
<1>4. ASSUME NEW c \in Calls, Works(c) PROVE Waits
  <2>1. CASE Take(c)
    <3>1. call[d].at = "admitting" /\ c # d
      BY <1>4, <2>1 DEF Take, Call
    <3>2. call[d].key # call[c].key
      BY <2>1, <3>1 DEF Take, AdmissionsHoldTheLock
    <3>. QED
      BY <2>1, <3>1, <3>2 DEF Take
  <2>2. CASE \E r \in Results : OperationReturns(c, r)
    BY <2>2 DEF OperationReturns, Call
  <2>3. CASE OperationThrows(c) \/ LeaseLost(c) \/ ReleaseError(c)
    BY <2>3 DEF OperationThrows, LeaseLost, ReleaseError, Call
  <2>4. CASE Persist(c) \/ PersistError(c)
    <3>1. call[d].at = "admitting" /\ c # d
      BY <2>4 DEF Persist, PersistError, Call
    <3>2. call'[d] = call[d]
      BY <2>4, <3>1 DEF Persist, PersistError
    <3>3. UNCHANGED rows
            \/ (~Locked(call[c].key) /\ rows' = [rows EXCEPT ![call[c].key] = RowSettledBy(c)])
      BY <2>4 DEF Persist, PersistError
    <3>4. ~Locked(call[c].key) => call[d].key # call[c].key
      BY <3>1 DEF Locked
    <3>. QED
      BY <3>1, <3>2, <3>3, <3>4
  <2>5. CASE Release(c)
    <3>1. call[d].at = "admitting" /\ c # d /\ call'[d] = call[d]
      BY <2>5 DEF Release, Call
    <3>. QED
      BY <2>5, <3>1 DEF Release
  <2>. QED
    BY <1>4, <2>1, <2>2, <2>3, <2>4, <2>5 DEF Works
<1>5. ASSUME NEW k \in Keys, MarkSkipped(k) PROVE Waits
  <2>1. call'[d] = call[d] /\ call[d].at = "admitting"
    BY <1>5 DEF MarkSkipped
  <2>2. call[d].key # k
    BY <1>5, <2>1 DEF MarkSkipped, Locked
  <2>. QED
    BY <1>5, <2>1, <2>2 DEF MarkSkipped
<1>6. ASSUME NEW k \in Keys, LeaseExpires(k) PROVE Waits
  BY <1>6 DEF LeaseExpires, Row
<1>7. ASSUME UNCHANGED vars PROVE Waits
  BY <1>7 DEF vars
<1>. HIDE DEF Waits
<1>8. Waits \/ \E k \in Keys : Look(d, k)
  <2>1. CASE \E c \in Calls : \E k \in Keys : Look(c, k)
    BY <1>1, <2>1
  <2>2. CASE \E c \in Calls : Works(c) \/ Heartbeat(c) \/ HeartbeatError(c) \/ Crash(c)
    BY <1>2, <1>3, <1>4, <2>2
  <2>3. CASE \E k \in Keys : MarkSkipped(k) \/ LeaseExpires(k)
    BY <1>5, <1>6, <2>3
  <2>. QED
    BY NextCases, <1>7, <2>1, <2>2, <2>3
<1>. QED
  BY <1>8 DEF Waits

LEMMA LockStep ==
    ASSUME TypeOK, AdmissionsHoldTheLock, [Next]_vars
    PROVE  AdmissionsHoldTheLock'
<1>. DEFINE Same(c) == /\ call[c].at = "admitting"
                       /\ call'[c].key = call[c].key /\ call'[c].found = call[c].found
<1>. /\ call \in [Calls -> Call] /\ rows \in [Keys -> Row]
     /\ \A c \in Calls : call[c].key \in Keys
  BY DEF TypeOK, Call
<1>1. ASSUME NEW c \in Calls, call'[c].at = "admitting"
      PROVE  /\ ~Settled(call[c].key)'
             /\ rows'[call'[c].key].status = "RUNNING"
                  => rows'[call'[c].key].token = call'[c].found
  <2>1. CASE \E k \in Keys : Look(c, k)
    <3>1. PICK k \in Keys : Look(c, k)
      BY <2>1
    <3>2. /\ call'[c].key = k /\ call'[c].found = ExpiredHolder(k) /\ rows' = rows
          /\ Free(k)
      BY <3>1 DEF Look
    <3>. QED
      BY <3>2 DEF Free, ExpiredHolder, Settled
  <2>2. CASE ~\E k \in Keys : Look(c, k)
    BY <1>1, <2>2, AdmissionWaits DEF AdmissionsHoldTheLock, Settled, Stands, Results
  <2>. QED
    BY <2>1, <2>2
<1>2. ASSUME NEW c \in Calls, NEW d \in Calls \ {c},
             call'[c].at = "admitting", call'[d].at = "admitting"
      PROVE  call'[d].key # call'[c].key
  <2>1. ASSUME NEW e \in Calls, NEW k \in Keys, Look(e, k), NEW f \in Calls \ {e},
               call'[f].at = "admitting"
        PROVE  call'[f].key # call'[e].key
    <3>1. call'[f] = call[f] /\ call'[e].key = k /\ ~Locked(k)
      BY <2>1 DEF Look, Idle
    <3>. QED
      BY <2>1, <3>1 DEF Locked
  <2>2. CASE \E k \in Keys : Look(c, k) \/ Look(d, k)
    BY <1>2, <2>1, <2>2
  <2>3. CASE ~\E k \in Keys : Look(c, k) \/ Look(d, k)
    BY <1>2, <2>3, AdmissionWaits DEF AdmissionsHoldTheLock
  <2>. QED
    BY <2>2, <2>3
<1>. QED
  BY <1>1, <1>2 DEF AdmissionsHoldTheLock

LEMMA LockInvariant == Spec => []AdmissionsHoldTheLock
<1>1. Init => AdmissionsHoldTheLock
  BY DEF Init, AdmissionsHoldTheLock
<1>2. TypeOK /\ AdmissionsHoldTheLock /\ [Next]_vars => AdmissionsHoldTheLock'
  BY LockStep
<1>. QED
  BY <1>1, <1>2, TypeCorrect, PTL DEF Spec

\* What every step does to one row and to its counter: a standing result stays
\* as it is, and the counter moves only when the row comes to stand.
RowStepOf(k) ==
    /\ Settled(k) => rows'[k] = rows[k] /\ executed'[k] = executed[k]
    /\ executed'[k] = executed[k] \/ (Settled(k)' /\ executed'[k] = executed[k] + 1)

LEMMA RowStep ==
    ASSUME TypeOK, OnlyRunningRowsAreHeld, AdmissionsHoldTheLock, [Moves]_vars, NEW k \in Keys
    PROVE  RowStepOf(k)
<1>. USE CallsAssumption DEF TypeOK, RowStepOf
<1>1. ASSUME NEW c \in Calls, NEW j \in Keys, Look(c, j) PROVE RowStepOf(k)
  BY <1>1 DEF Look
<1>2. ASSUME NEW c \in Calls, Heartbeat(c) PROVE RowStepOf(k)
  BY <1>2 DEF Heartbeat, Settled, Stands, Results
<1>3. ASSUME NEW c \in Calls, HeartbeatError(c) \/ Crash(c) PROVE RowStepOf(k)
  BY <1>3 DEF HeartbeatError, Crash
<1>4. ASSUME NEW c \in Calls, Works(c) PROVE RowStepOf(k)
  <2>1. CASE UNCHANGED <<rows, executed>>
    BY <2>1
  <2>2. CASE Persist(c)
    BY <2>2 DEF Persist, Fenced, RowSettledBy, Settled, Stands, Results, Row, Call
  <2>3. CASE PersistError(c)
    BY <2>3 DEF PersistError, Fenced, RowSettledBy, Settled, Stands, Results, Row, Call
  <2>4. CASE Release(c)
    BY <2>4 DEF Release, Holds, OnlyRunningRowsAreHeld, Settled, Stands, Results
  <2>5. CASE Take(c)
    BY <2>5 DEF Take, AdmissionsHoldTheLock
  <2>. QED
    BY <1>4, <2>1, <2>2, <2>3, <2>4, <2>5
       DEF Works, OperationReturns, OperationThrows, LeaseLost, ReleaseError
<1>5. ASSUME NEW j \in Keys, MarkSkipped(j) PROVE RowStepOf(k)
  BY <1>5 DEF MarkSkipped
<1>6. ASSUME NEW j \in Keys, LeaseExpires(j) PROVE RowStepOf(k)
  BY <1>6 DEF LeaseExpires, Settled, Stands, Results
<1>7. CASE UNCHANGED vars
  BY <1>7 DEF vars
<1>8. ASSUME NEW c \in Calls, NEW j \in Keys, Admit(c, j) PROVE RowStepOf(k)
  BY <1>8 DEF Admit, Free
<1>. HIDE DEF RowStepOf
<1>. QED
  BY MoveCases, <1>1, <1>2, <1>3, <1>4, <1>5, <1>6, <1>7, <1>8

-----------------------------------------------------------------------------
\* No step makes a second execution stand.
LEMMA OnceStep ==
    ASSUME TypeOK, OnlyRunningRowsAreHeld, AdmissionsHoldTheLock, AtMostOneExecution,
           [Moves]_vars
    PROVE  AtMostOneExecution'
<1>. SUFFICES ASSUME NEW k \in Keys
              PROVE  executed'[k] <= 1 /\ (executed'[k] = 1 => Settled(k)')
  BY DEF AtMostOneExecution
<1>1. RowStepOf(k)
  BY RowStep
<1>2. executed[k] \in Nat /\ executed[k] <= 1 /\ (executed[k] = 1 => Settled(k))
  BY DEF TypeOK, AtMostOneExecution
<1>3. CASE Settled(k)
  BY <1>1, <1>2, <1>3 DEF RowStepOf, Settled
<1>4. CASE ~Settled(k)
  BY <1>1, <1>2, <1>4 DEF RowStepOf
<1>. QED
  BY <1>3, <1>4

\* At most one execution of a step leaves a standing result, for every number of
\* callers and however they crash, stall and race.
THEOREM AtMostOnce == Spec => []AtMostOneExecution
<1>1. Init => AtMostOneExecution
  <2>. SUFFICES ASSUME Init, NEW k \in Keys
                PROVE  executed[k] <= 1 /\ (executed[k] = 1 => Settled(k))
    BY DEF AtMostOneExecution
  <2>1. executed[k] = 0
    BY DEF Init
  <2>. QED
    BY <2>1
<1>2. TypeOK /\ OnlyRunningRowsAreHeld /\ AdmissionsHoldTheLock /\ AtMostOneExecution
        /\ [Next]_vars => AtMostOneExecution'
  BY OnceStep DEF Moves
<1>. QED
  BY <1>1, <1>2, TypeCorrect, HeldInvariant, LockInvariant, PTL DEF Spec

-----------------------------------------------------------------------------
\* Every step changes one row at most.
LEMMA OneRowChanges ==
    ASSUME TypeOK, [Moves]_vars
    PROVE  \/ UNCHANGED rows
           \/ \E k \in Keys : \A j \in Keys \ {k} : rows'[j] = rows[j]
<1>. USE DEF TypeOK
<1>. DEFINE OneChanges == \/ UNCHANGED rows
                          \/ \E k \in Keys : \A j \in Keys \ {k} : rows'[j] = rows[j]
<1>1. ASSUME NEW k \in Keys, NEW r, rows' = [rows EXCEPT ![k] = r] PROVE OneChanges
  BY <1>1
<1>2. ASSUME NEW c \in Calls PROVE call[c].key \in Keys
  BY DEF Call
<1>4. ASSUME NEW c \in Calls, Heartbeat(c) PROVE OneChanges
  BY <1>1, <1>2, <1>4 DEF Heartbeat
<1>5. ASSUME NEW c \in Calls, Works(c) PROVE OneChanges
  BY <1>1, <1>2, <1>5
     DEF Works, Take, OperationReturns, OperationThrows, Persist, LeaseLost, PersistError,
         Release, ReleaseError
<1>6. ASSUME NEW k \in Keys, MarkSkipped(k) \/ LeaseExpires(k) PROVE OneChanges
  BY <1>1, <1>6 DEF MarkSkipped, LeaseExpires
<1>7. ASSUME NEW c \in Calls, NEW k \in Keys, Admit(c, k) PROVE OneChanges
  BY <1>1, <1>7 DEF Admit
<1>. QED
  BY MoveCases, <1>4, <1>5, <1>6, <1>7 DEF Look, HeartbeatError, Crash, vars

\* The guard implements the ledger: what the rows say of finished steps changes
\* only as a ledger of standing results may.
THEOREM ImplementsLedger == Spec => LedgerSpec
<1>1. Init => Ledger!Init
  BY DEF Init, Ledger!Init, Entries, Results
<1>2. TypeOK /\ OnlyRunningRowsAreHeld /\ AdmissionsHoldTheLock /\ [Next]_vars
        => [Ledger!Next]_Entries
  <2>. SUFFICES ASSUME TypeOK, OnlyRunningRowsAreHeld, AdmissionsHoldTheLock, [Next]_vars
                PROVE  Ledger!Next \/ UNCHANGED Entries
    OBVIOUS
  <2>1. CASE UNCHANGED rows
    BY <2>1 DEF Entries
  <2>2. ASSUME NEW k \in Keys, \A j \in Keys \ {k} : rows'[j] = rows[j]
        PROVE  Ledger!Next \/ UNCHANGED Entries
    <3>1. Entries' = [Entries EXCEPT ![k] = Entries'[k]]
      BY <2>2 DEF Entries
    <3>2. Entries'[k] \in Results \union {"SKIPPED"} \/ Entries'[k] = "OPEN"
      BY DEF Entries
    <3>3. CASE Settled(k)
      <4>1. Entries'[k] = Entries[k]
        BY RowStep, <3>3 DEF RowStepOf, Entries, Moves
      <4>. QED
        BY <3>1, <4>1 DEF Entries
    <3>4. CASE ~Settled(k)
      <4>1. Ledger!Replaceable(k)
        BY <3>4 DEF Ledger!Replaceable, Settled, Stands, Entries
      <4>. QED
        BY <3>1, <3>2, <4>1 DEF Ledger!Next, Ledger!Enter, Ledger!Withdraw
    <3>. QED
      BY <3>3, <3>4
  <2>. QED
    BY <2>1, <2>2, OneRowChanges DEF Moves
<1>. QED
  BY <1>1, <1>2, TypeCorrect, HeldInvariant, LockInvariant, PTL
     DEF Spec, LedgerSpec, Ledger!Spec

-----------------------------------------------------------------------------
\* A leased row changes hands only by its holder, or to the one admission that has seen
\* the lease of this holder run out.
THEOREM LeaseFair == Spec => LeaseChangesHandsFairly
<1>1. TypeOK /\ AdmissionsHoldTheLock /\ [Next]_vars
        => [\A k \in Keys : LeaseGoesFairly(k)]_vars
  <2>. SUFFICES ASSUME TypeOK, AdmissionsHoldTheLock, [Next]_vars, NEW k \in Keys
                PROVE  LeaseGoesFairly(k)
    OBVIOUS
  <2>. USE DEF TypeOK, LeaseGoesFairly
  <2>1. CASE UNCHANGED rows
    BY <2>1
  <2>3. ASSUME NEW c \in Calls, Heartbeat(c) PROVE LeaseGoesFairly(k)
    BY <2>3 DEF Heartbeat, Row, Call
  <2>4. ASSUME NEW c \in Calls, Works(c) PROVE LeaseGoesFairly(k)
    <3>. call[c].key \in Keys
      BY DEF Call
    <3>5. CASE Take(c)
      BY <3>5 DEF Take, AdmissionsHoldTheLock
    <3>1. CASE call[c].key = k /\ Holds(c, k) /\ call[c].at \in {"persisting", "releasing"}
      BY <3>1
    <3>2. CASE ~Take(c) /\ call[c].key # k
      <4>1. rows'[k] = rows[k]
        BY <2>4, <3>2
           DEF Works, OperationReturns, OperationThrows, Persist, LeaseLost,
               PersistError, Release, ReleaseError
      <4>. QED
        BY <4>1
    <3>3. CASE ~Take(c) /\ call[c].key = k /\ ~Holds(c, k)
      <4>1. UNCHANGED rows
        BY <2>4, <3>3
           DEF Works, OperationReturns, OperationThrows, Persist, LeaseLost,
               PersistError, Release, ReleaseError, Fenced, Holds
      <4>. QED
        BY <4>1
    <3>4. CASE ~Take(c) /\ call[c].at \notin {"persisting", "releasing"}
      <4>1. UNCHANGED rows
        BY <2>4, <3>4
           DEF Works, OperationReturns, OperationThrows, Persist, LeaseLost,
               PersistError, Release, ReleaseError
      <4>. QED
        BY <4>1
    <3>. QED
      BY <3>1, <3>2, <3>3, <3>4, <3>5
  <2>5. ASSUME NEW j \in Keys, MarkSkipped(j) \/ LeaseExpires(j)
        PROVE  LeaseGoesFairly(k)
    BY <2>5 DEF MarkSkipped, LeaseExpires, Row
  <2>. HIDE DEF LeaseGoesFairly
  <2>. QED
    BY NextCases, <2>1, <2>3, <2>4, <2>5 DEF Look, HeartbeatError, Crash, vars
<1>. QED
  BY <1>1, TypeCorrect, LockInvariant, PTL DEF Spec, LeaseChangesHandsFairly
=============================================================================
