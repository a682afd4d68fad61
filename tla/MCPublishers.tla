---------------------------- MODULE MCPublishers ----------------------------
EXTENDS Publishers, TLC

CONSTANTS job, s1, s2, c1, p1, p2

OneJob == {job}
TwoStatuses == {s1, s2}
OneComment == {c1}
AttemptTable == (s1 :> 1 @@ s2 :> 2 @@ c1 :> 1)
TwoPublishers == {p1, p2}

Faults == [e \in Events |-> IF e = "ask" THEN 2 ELSE 1]
=============================================================================
