----------------------------- MODULE MCWorkflow -----------------------------
EXTENDS Workflow, TLC

CONSTANTS h1, h2

OneHandler == {h1}
TwoHandlers == {h1, h2}
HandlerSymmetry == Permutations(Handlers)

OneAttempt == {1}
TwoAttempts == {1, 2}

\* What the executor reports: tests may fail, which skips the build and the
\* preview, so may the detection, which skips everything up to the review, and a
\* health check and a cleanup may end INCOMPLETE.
AllPass == [s \in Steps |-> {Passed}]
FailingTests == [AllPass EXCEPT !["test"] = {Passed, AppFailure}]
FailingTestsAndCleanup == [FailingTests EXCEPT !["cleanup"] = {Passed, Incomplete}]
FailingDetection == [FailingTestsAndCleanup EXCEPT !["detect"] = {Passed, AppFailure}]
FailingHealth == [AllPass EXCEPT !["health"] = {Passed, Incomplete}]

Scenario(first, results, bounds) ==
    [first |-> first, results |-> results, bounds |-> bounds, crowded |-> FALSE]
Crowded(s) == [s EXCEPT !.crowded = TRUE]
NoEvents == [e \in Events |-> 0]

\* Jobs delivered twice, to two handlers; faults of a Worker and of its lease; a
\* user who retries, and who cancels once or in both attempts, while the one handler
\* there is may die; a user who cancels while two handlers are at work. Other Runs may
\* be at work when the first attempt begins, or when the second one does.
Redeliveries ==
    Crowded(Scenario("detect", FailingDetection,
             [NoEvents EXCEPT !["duplicate"] = 1, !["sweep"] = 1, !["beside"] = 1]))
Faults ==
    Scenario("health", FailingHealth,
             [NoEvents EXCEPT !["crash"] = 1, !["expiry"] = 1, !["lease"] = 1, !["beside"] = 1])
CancelAndCrash == [NoEvents EXCEPT !["cancel"] = 1, !["crash"] = 1, !["retry"] = 1]
CancelsAndCrash == [CancelAndCrash EXCEPT !["cancel"] = 2]
Retried == Crowded(Scenario("test", FailingTestsAndCleanup, CancelAndCrash))
Cancelled == Scenario("build", FailingTestsAndCleanup, CancelsAndCrash)

CancelledBeside ==
    Scenario("test", FailingTestsAndCleanup,
             [NoEvents EXCEPT !["cancel"] = 1, !["duplicate"] = 1, !["beside"] = 1])

AllScenarios == {Redeliveries, Faults, Retried, Cancelled, CancelledBeside}
CancelScenario ==
    {Crowded(Scenario("detect", FailingTests,
                      [NoEvents EXCEPT !["cancel"] = 1, !["beside"] = 1]))}
CrashScenario == {Scenario("detect", AllPass, [NoEvents EXCEPT !["crash"] = 1])}
CancelledTests == {Scenario("test", AllPass, CancelsAndCrash)}

\* What a handler will not read again, and the history of the guard, which no
\* property here reads: states that differ in nothing else are the same.
Remembered(h) ==
    [handler[h] EXCEPT
       !.snap    = IF handler[h].at \in {"list", "skip", "phase"} THEN @ ELSE "QUEUED",
       !.target  = IF At(h, "skip") THEN @ ELSE "detect",
       !.result  = IF handler[h].at \in {"guard", "record", "cleanup"} THEN @ ELSE Passed,
       !.ran     = @ /\ handler[h].at \in {"record", "cleanup"},
       !.verdict = IF At(h, "verdict") THEN @ ELSE "PASSED"]

View ==
    <<run, rows, kinds, jobs, outbox, namespace, details, scenario, spent,
      [h \in Handlers |->
         <<Remembered(h), IF call[h].at = "idle" THEN "idle" ELSE call[h]>>]>>
=============================================================================
