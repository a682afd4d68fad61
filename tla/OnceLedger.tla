----------------------------- MODULE OnceLedger -----------------------------
(***************************************************************************)
(* What the step guard promises: a ledger with one entry per workflow step *)
(* in which an entry, once made, stands. Only the failure of a cleanup may *)
(* be replaced, by the outcome of running the cleanup again.               *)
(***************************************************************************)
CONSTANTS
    Keys,           \* the steps
    RetryableKeys,  \* the cleanups
    Outcomes,       \* the possible entries
    Provisional,    \* the entries of a cleanup that may be replaced
    Open            \* no entry yet

VARIABLE entry

Init == entry = [k \in Keys |-> Open]

Replaceable(k) ==
    \/ entry[k] = Open
    \/ k \in RetryableKeys /\ entry[k] \in Provisional

Enter(k, r) ==
    /\ Replaceable(k)
    /\ entry' = [entry EXCEPT ![k] = r]

\* A replaceable entry may also be withdrawn while the cleanup runs again.
Withdraw(k) ==
    /\ Replaceable(k)
    /\ entry' = [entry EXCEPT ![k] = Open]

Next == \E k \in Keys : Withdraw(k) \/ \E r \in Outcomes : Enter(k, r)

Spec == Init /\ [][Next]_entry
=============================================================================
