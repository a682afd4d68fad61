----------------------------- MODULE MCCluster -----------------------------
EXTENDS Cluster

CONSTANTS e1, e2

PerAttempt == <<{"fetch", "preview", "health", "cleanup"}, {"fetch", "test", "cleanup"}>>
TwoExecutions == {e1, e2}
Faults == [e \in Events |-> 1]
=============================================================================
