---------------------------- MODULE MCAdmission ----------------------------
EXTENDS Admission, TLC

CONSTANTS a1, a2, b1, q1, q2

\* a1 and a2 are two heads of one pull request.
PullRequestTable == (a1 :> "a" @@ a2 :> "a" @@ b1 :> "b")

TwoPullRequests == {a1, b1}
ThreeRuns == {a1, a2, b1}
OneRequest == {q1}
TwoRequests == {q1, q2}
OneAttempt == {1}
TwoAttempts == {1, 2}

\* Requests are interchangeable.
Symmetry == Permutations(Requests)
=============================================================================
