----------------------------- MODULE StepGuard -----------------------------
(***************************************************************************)
(* DatabaseStepGuard (apps/worker/src/workflow/db-adapter.ts): the lease   *)
(* protocol that lets several deliveries of one workflow step race for its *)
(* run_steps row.  A call of runOnce is admitted in one transaction, runs  *)
(* its operation outside any transaction while a heartbeat renews the      *)
(* lease, and records the result in a second transaction that is fenced by *)
(* the token of its admission.  Calls crash, stall past their lease, lose  *)
(* heartbeats and see database errors, also errors that hide a commit.     *)
(*                                                                         *)
(* The transactions of one row wait for each other at an advisory lock,    *)
(* but the heartbeat and the release after an error take no lock. The      *)
(* admission reads the row and then writes it by its id alone: it is two   *)
(* steps here, between which those two may fall. The others write with one *)
(* statement, or write rows (markSkipped) that those two leave alone.      *)
(*                                                                         *)
(* Time is abstract: a row's lease is live or has expired, and it may      *)
(* expire at any moment.  A token is the name of the call that was         *)
(* admitted last; a call is in at most one runOnce, so a name is as good   *)
(* as a fresh random value.                                                *)
(***************************************************************************)
EXTENDS Naturals

CONSTANTS
    Keys,           \* the rows: run, attempt and step
    RetryableKeys,  \* those whose step is cleanup
    Calls,          \* the callers of runOnce
    NoCall          \* not a caller

ASSUME CallsAssumption == NoCall \notin Calls /\ RetryableKeys \subseteq Keys

Results == {"PASSED", "FAILED", "INCOMPLETE"}
RowStatuses == {"ABSENT", "PENDING", "RUNNING", "SKIPPED"} \union Results

VARIABLES
    rows,       \* run_steps: status, lease token, and whether lease_until is ahead
    call,       \* each caller: where it is in runOnce, on which row, lease known lost,
                \* the holder whose lease its admission found expired
    executed    \* history: how many runOnce returned 'executed' with a result that stands

vars == <<rows, call, executed>>

Row == [status : RowStatuses, token : Calls \union {NoCall}, live : BOOLEAN]

\* A caller outside runOnce, or one that has read the row and holds its lock, is
\* running the operation, about to persist its result, or about to release the
\* row after an error.
Places == {"idle", "admitting", "operating", "persisting", "releasing"}
Call == [at : Places, key : Keys, lost : BOOLEAN, result : Results,
         found : Calls \union {NoCall}]

\* isTerminalStepForRetry: every terminal result stands, but a cleanup's failure.
Stands(k, status) ==
    /\ status \in Results \union {"SKIPPED"}
    /\ ~(k \in RetryableKeys /\ status \in {"FAILED", "INCOMPLETE"})

Settled(k) == Stands(k, rows[k].status)

Holds(c, k) == rows[k].token = c

\* Variants: the lease is not looked at; a running row is never taken over.
FreeIgnoringLease(k) == ~Settled(k)
FreeUnlessRunning(k) == ~Settled(k) /\ rows[k].status # "RUNNING"

Free(k) ==
    /\ ~Settled(k)
    /\ ~(rows[k].status = "RUNNING" /\ rows[k].live)

Init ==
    /\ rows = [k \in Keys |-> [status |-> "ABSENT", token |-> NoCall, live |-> FALSE]]
    /\ call \in [Calls -> [at : {"idle"}, key : Keys, lost : {FALSE}, result : {"PASSED"},
                          found : {NoCall}]]
    /\ executed = [k \in Keys |-> 0]

-----------------------------------------------------------------------------
\* Variant: the admission does not take the row's lock.
NeverLocked(k) == FALSE

\* The row's advisory lock, across statements: held by an admission from its read on.
Locked(k) == \E c \in Calls : call[c].at = "admitting" /\ call[c].key = k

Idle(c, k) == call[c].at = "idle" /\ ~Locked(k)

\* The admission transaction of runOnce, by outcome. 'already-terminal' and 'busy'
\* return without a change. The clock is read before the lock is waited for: a lease
\* that runs out meanwhile still counts as live.
AlreadyTerminal(c, k) == Idle(c, k) /\ Settled(k) /\ UNCHANGED vars
Busy(c, k) == Idle(c, k) /\ rows[k].status = "RUNNING" /\ UNCHANGED vars

ExpiredHolder(k) ==
    IF rows[k].status = "RUNNING" /\ ~rows[k].live THEN rows[k].token ELSE NoCall

\* Otherwise the row that was read is taken over, whatever the lock-free updates
\* have made of it since, with a new token and a full lease.
Look(c, k) ==
    /\ Idle(c, k)
    /\ Free(k)
    /\ call' = [call EXCEPT ![c].at = "admitting", ![c].key = k, ![c].lost = FALSE,
                            ![c].found = ExpiredHolder(k)]
    /\ UNCHANGED <<rows, executed>>

Leased(c) == [status |-> "RUNNING", token |-> c, live |-> TRUE]

Take(c) ==
    /\ call[c].at = "admitting"
    /\ rows' = [rows EXCEPT ![call[c].key] = Leased(c)]
    /\ call' = [call EXCEPT ![c].at = "operating", ![c].found = NoCall]
    /\ UNCHANGED executed

\* Look and Take at once, for a module that looks at the guard from outside. It loses
\* nothing: everyone else who wants the row waits for its lock; a renewal between the
\* two leaves the row as if it had not come, a release as if it had come before.
Admit(c, k) ==
    /\ call[c].at = "idle"
    /\ Free(k)
    /\ rows' = [rows EXCEPT ![k] = Leased(c)]
    /\ call' = [call EXCEPT ![c].at = "operating", ![c].key = k, ![c].lost = FALSE]
    /\ UNCHANGED executed

\* Admitted, and not yet out of runOnce.
Inside(c) == call[c].at \in {"operating", "persisting", "releasing"}

\* The heartbeat ticks until runOnce is left. It renews the lease as long as the
\* row is RUNNING under the call's token, even a lease that had already expired.
Heartbeat(c) ==
    LET k == call[c].key IN
    /\ Inside(c)
    /\ IF rows[k].status = "RUNNING" /\ Holds(c, k)
       THEN rows' = [rows EXCEPT ![k].live = TRUE] /\ UNCHANGED call
       ELSE call' = [call EXCEPT ![c].lost = TRUE] /\ UNCHANGED rows
    /\ UNCHANGED executed

\* A heartbeat whose query fails gives the lease up for lost, held or not.
HeartbeatError(c) ==
    /\ Inside(c)
    /\ call' = [call EXCEPT ![c].lost = TRUE]
    /\ UNCHANGED <<rows, executed>>

\* The operation returns: a call that knows its lease is lost throws the result
\* away, the others go on to persist it.
OperationReturns(c, r) ==
    /\ call[c].at = "operating"
    /\ call' = [call EXCEPT ![c].at = IF call[c].lost THEN "releasing" ELSE "persisting",
                            ![c].result = r]
    /\ UNCHANGED <<rows, executed>>

OperationThrows(c) ==
    /\ call[c].at = "operating"
    /\ call' = [call EXCEPT ![c].at = "releasing"]
    /\ UNCHANGED <<rows, executed>>

\* Variant: the persisting update finds its row by the key alone.
FencedByKey(c) == call[c].key \in Keys

\* The persisting transaction succeeds only on a row RUNNING under the token.
Fenced(c) == rows[call[c].key].status = "RUNNING" /\ Holds(c, call[c].key)

RowSettledBy(c) == [status |-> call[c].result, token |-> NoCall, live |-> FALSE]

Persist(c) ==
    /\ call[c].at = "persisting"
    /\ ~Locked(call[c].key)
    /\ Fenced(c)
    /\ rows' = [rows EXCEPT ![call[c].key] = RowSettledBy(c)]
    /\ call' = [call EXCEPT ![c].at = "idle"]
    /\ executed' = IF Stands(call[c].key, call[c].result)
                   THEN [executed EXCEPT ![call[c].key] = @ + 1] ELSE executed

LeaseLost(c) ==
    /\ call[c].at = "persisting"
    /\ ~Locked(call[c].key)
    /\ ~Fenced(c)
    /\ call' = [call EXCEPT ![c].at = "releasing"]
    /\ UNCHANGED <<rows, executed>>

\* The connection fails during the persisting transaction: before the commit, or
\* after it, in which case the row is settled and the call does not know.
PersistError(c) ==
    /\ call[c].at = "persisting"
    /\ \/ UNCHANGED rows
       \/ /\ ~Locked(call[c].key) /\ Fenced(c)
          /\ rows' = [rows EXCEPT ![call[c].key] = RowSettledBy(c)]
    /\ call' = [call EXCEPT ![c].at = "releasing"]
    /\ UNCHANGED executed

\* The catch block gives the row back if it still carries the token, whatever
\* its status, and rethrows. Should that update fail too, the row stays RUNNING.
Release(c) ==
    LET k == call[c].key IN
    /\ call[c].at = "releasing"
    /\ rows' = IF Holds(c, k)
               THEN [rows EXCEPT ![k] = [status |-> "PENDING", token |-> NoCall,
                                         live |-> FALSE]]
               ELSE rows
    /\ call' = [call EXCEPT ![c].at = "idle"]
    /\ UNCHANGED executed

ReleaseError(c) ==
    /\ call[c].at = "releasing"
    /\ call' = [call EXCEPT ![c].at = "idle"]
    /\ UNCHANGED <<rows, executed>>

\* Variant: a settled row may be skipped.
MarkSkippedAnyway(k) ==
    /\ ~Locked(k)
    /\ rows[k].status # "RUNNING"
    /\ rows' = [rows EXCEPT ![k] = [status |-> "SKIPPED", token |-> NoCall, live |-> FALSE]]
    /\ UNCHANGED <<call, executed>>

\* markSkipped: settled rows stay, RUNNING rows are refused.
MarkSkipped(k) ==
    /\ ~Locked(k)
    /\ ~Settled(k)
    /\ rows[k].status # "RUNNING"
    /\ rows' = [rows EXCEPT ![k] = [status |-> "SKIPPED", token |-> NoCall, live |-> FALSE]]
    /\ UNCHANGED <<call, executed>>

-----------------------------------------------------------------------------
\* The environment: a Worker dies inside runOnce (its open transaction is rolled
\* back), a lease runs out.
Crash(c) ==
    /\ call[c].at # "idle"
    /\ call' = [call EXCEPT ![c].at = "idle", ![c].found = NoCall]
    /\ UNCHANGED <<rows, executed>>

LeaseExpires(k) ==
    /\ rows[k].status = "RUNNING"
    /\ rows[k].live
    /\ rows' = [rows EXCEPT ![k].live = FALSE]
    /\ UNCHANGED <<call, executed>>

Works(c) ==
    \/ Take(c)
    \/ \E r \in Results : OperationReturns(c, r)
    \/ OperationThrows(c)
    \/ Persist(c) \/ LeaseLost(c) \/ PersistError(c)
    \/ Release(c) \/ ReleaseError(c)

Next ==
    \/ \E c \in Calls : \E k \in Keys :
           AlreadyTerminal(c, k) \/ Busy(c, k) \/ Look(c, k)
    \/ \E c \in Calls : Works(c) \/ Heartbeat(c) \/ HeartbeatError(c) \/ Crash(c)
    \/ \E k \in Keys : MarkSkipped(k) \/ LeaseExpires(k)

Spec == Init /\ [][Next]_vars

-----------------------------------------------------------------------------
\* Faults, and the fairness the liveness property needs: callers that are alive
\* go on, a lease nobody renews runs out, and deliveries of the step keep coming
\* (SF: an admission may be refused as 'busy' many times in between).
Renewing(k) == \E c \in Calls : Inside(c) /\ call[c].key = k /\ Holds(c, k)

Fault ==
    \/ \E c \in Calls : \/ HeartbeatError(c) \/ OperationThrows(c) \/ PersistError(c)
                        \/ ReleaseError(c) \/ Crash(c)
    \/ \E k \in Keys : Renewing(k) /\ LeaseExpires(k)

Fairness ==
    /\ \A c \in Calls : /\ WF_vars(Take(c))
                         /\ WF_vars(\E r \in Results : OperationReturns(c, r))
                         /\ WF_vars(Persist(c) \/ LeaseLost(c))
                         /\ WF_vars(Release(c))
    /\ \A k \in Keys : /\ WF_vars(~Renewing(k) /\ LeaseExpires(k))
                        /\ SF_vars(\E c \in Calls : Look(c, k))

FairSpec == Spec /\ Fairness

-----------------------------------------------------------------------------
TypeOK ==
    /\ rows \in [Keys -> Row]
    /\ call \in [Calls -> Call]
    /\ executed \in [Keys -> Nat]

\* However deliveries, expired leases, crashes and errors interleave, at most one
\* runOnce of a step returns 'executed' with a result that stands, and then that
\* result is on the row: the work that follows a step (its details, its verdict,
\* the next dispatch) is never done twice by two executions.
AtMostOneExecution ==
    \A k \in Keys : executed[k] <= 1 /\ (executed[k] = 1 => Settled(k))

\* A running row passes from its holder only by the holder's own persisting or
\* releasing, or to the one admission at a time that has seen the lease of this very
\* holder run out: a stale caller never settles, resets or takes over a row that is
\* leased to somebody else. (That the lease is still expired when the row is taken
\* cannot be said: the admission's read and write leave room for a renewal.)
LeaseGoesFairly(k) ==
    \/ rows[k].status # "RUNNING"
    \/ rows'[k].status = "RUNNING" /\ rows'[k].token = rows[k].token
    \/ \E c \in Calls : /\ Holds(c, k)
                        /\ call[c].key = k
                        /\ call[c].at \in {"persisting", "releasing"}
    \/ \E c \in Calls : /\ call[c].at = "admitting"
                        /\ call[c].key = k
                        /\ call[c].found = rows[k].token
                        /\ rows'[k] = Leased(c)

LeaseChangesHandsFairly == [][\A k \in Keys : LeaseGoesFairly(k)]_vars

\* The guard implements the ledger of standing results: once a step is done, no
\* crash, stale caller or skip changes what its row says, but a cleanup may be redone.
Entries == [k \in Keys |-> IF rows[k].status \in Results \union {"SKIPPED"}
                           THEN rows[k].status ELSE "OPEN"]

Ledger == INSTANCE OnceLedger
            WITH Outcomes <- Results \union {"SKIPPED"},
                 Provisional <- {"FAILED", "INCOMPLETE"},
                 Open <- "OPEN",
                 entry <- Entries

LedgerSpec == Ledger!Spec

\* Once faults stop, every step that is still delivered is settled: no expired or
\* orphaned lease, and no stale caller, can keep a step from getting a result.
SettledOnceFaultsStop ==
    <>[][~Fault]_vars => \A k \in Keys \ RetryableKeys : <>Settled(k)
=============================================================================
