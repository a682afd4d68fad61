------------------------------ MODULE MCAccess ------------------------------
EXTENDS Access, TLC

CONSTANTS b1, b2, u1, u2, c1, c2, r1, r2

TwoBrowsers == {b1, b2}
TwoUsers == {u1, u2}
TwoCallbacks == {c1, c2}
TwoRequests == {r1, r2}

\* Callbacks and requests are interchangeable, and so are users.
Symmetry == Permutations(Callbacks) \union Permutations(Requests) \union Permutations(Users)
=============================================================================
