--------------------------- MODULE StepPlanProofs ---------------------------
(***************************************************************************)
(* Lemmas about the fixed plan, for every book of records: what the next   *)
(* action asks for is due, what it skips has a failure behind it, and what *)
(* a verdict says of the records it is derived from.                       *)
(***************************************************************************)
EXTENDS StepPlan, TLAPS, WellFoundedInduction

\* The plan, step by step.
LEMMA ElevenSteps ==
    Steps = {"detect", "fetch", "analyze", "test", "build", "preview", "health",
             "assemble", "review", "report", "cleanup"}
  BY DEF Steps, WorkflowSteps

LEMMA StepIndexes ==
    /\ StepIndex["detect"] = 1   /\ StepIndex["fetch"] = 2    /\ StepIndex["analyze"] = 3
    /\ StepIndex["test"] = 4     /\ StepIndex["build"] = 5    /\ StepIndex["preview"] = 6
    /\ StepIndex["health"] = 7   /\ StepIndex["assemble"] = 8 /\ StepIndex["review"] = 9
    /\ StepIndex["report"] = 10  /\ StepIndex["cleanup"] = 11
<1>1. \A i, j \in DOMAIN WorkflowSteps : WorkflowSteps[i] = WorkflowSteps[j] => i = j
  BY DEF WorkflowSteps
<1>2. ASSUME NEW i \in DOMAIN WorkflowSteps PROVE StepIndex[WorkflowSteps[i]] = i
  BY <1>1 DEF StepIndex, Steps
<1>3. DOMAIN WorkflowSteps = 1..11
  BY DEF WorkflowSteps
<1>. QED
  BY <1>2, <1>3 DEF WorkflowSteps

LEMMA StepIndexTyped == \A s \in Steps : StepIndex[s] \in Nat
  BY ElevenSteps, StepIndexes

\* The cleanup is the last step, and the report the one before it.
LEMMA StepsBeforeCleanup ==
    /\ StepsBefore("cleanup") = Steps \ {"cleanup"}
    /\ StepsBefore("report") = Steps \ {"report", "cleanup"}
  BY ElevenSteps, StepIndexes DEF StepsBefore

\* Every set of steps that is not empty has a first one.
LEMMA FirstExists ==
    ASSUME NEW S \in SUBSET Steps, S # {}
    PROVE  \E s \in S : \A t \in S : StepIndex[s] <= StepIndex[t]
<1>. DEFINE Earlier == {ss \in Nat \X Nat : ss[1] < ss[2]}
            indexes == {StepIndex[s] : s \in S}
<1>1. IsWellFoundedOn(Earlier, Nat)
  BY NatLessThanWellFounded DEF OpToRel
<1>2. indexes \in SUBSET Nat /\ indexes # {}
  BY StepIndexTyped
<1>3. PICK i \in indexes : \A j \in indexes : <<j, i>> \notin Earlier
  <2>. HIDE DEF Earlier, indexes
  <2>. QED
    BY <1>1, <1>2, WFMin
<1>4. \A j \in indexes : i <= j
  <2>1. ASSUME NEW j \in indexes PROVE i <= j
    <3>1. i \in Nat /\ j \in Nat
      BY <1>2
    <3>2. ~(j < i)
      BY <1>3, <3>1
    <3>. QED
      BY <3>1, <3>2
  <2>. QED
    BY <2>1
<1>. QED
  BY <1>4

-----------------------------------------------------------------------------
\* A book of records says of a step that its result stands.
SettledIn(rec, s) == SettledForRetry(s, rec[s].status)

\* What the plan asks to run or skip is a step all of whose predecessors are settled; only a
\* cleanup that failed is asked for again whatever the others say. The cleanup is never
\* skipped, and what is skipped has a failed or incomplete step to answer for it.
LEMMA NextStepIsDue ==
    ASSUME NEW rec, NEW next, next = NextStepAction(rec)
    PROVE  /\ next.action \in {"none", "run", "skip"} /\ next.step \in Steps
           /\ next.action = "run" =>
                 \/ next.step = "cleanup" /\ rec["cleanup"].status \in {"FAILED", "INCOMPLETE"}
                 \/ \A s \in StepsBefore(next.step) : SettledIn(rec, s)
           /\ next.action = "skip" =>
                 /\ next.step # "cleanup"
                 /\ \A s \in StepsBefore(next.step) : SettledIn(rec, s)
                 /\ \E s \in StepsBefore("cleanup") : rec[s].status \in {"FAILED", "INCOMPLETE"}
<1>. DEFINE open == {s \in Steps : ~SettledIn(rec, s)}
            first == CHOOSE s \in open : \A t \in open : StepIndex[s] <= StepIndex[t]
<1>1. CASE rec["cleanup"].status \in {"FAILED", "INCOMPLETE"}
  BY <1>1, ElevenSteps DEF NextStepAction
<1>2. CASE rec["cleanup"].status \notin {"FAILED", "INCOMPLETE"} /\ open = {}
  <2>1. next = NoAction
    BY <1>2 DEF NextStepAction, SettledIn
  <2>. QED
    BY <2>1, ElevenSteps DEF NoAction
<1>3. CASE rec["cleanup"].status \notin {"FAILED", "INCOMPLETE"} /\ open # {}
  <2>1. first \in open /\ \A t \in open : StepIndex[first] <= StepIndex[t]
    <3>. HIDE DEF open
    <3>1. \E s \in open : \A t \in open : StepIndex[s] <= StepIndex[t]
      <4>1. open \in SUBSET Steps
        BY DEF open
      <4>. QED
        BY <1>3, <4>1, FirstExists
    <3>. QED
      BY <3>1
  <2>2. next = [action |-> IF ShouldSkip(rec, first) THEN "skip" ELSE "run", step |-> first]
    BY <1>3 DEF NextStepAction, SettledIn
  <2>. HIDE DEF first
  <2>3. \A s \in StepsBefore(first) : SettledIn(rec, s)
    BY <2>1, StepIndexTyped DEF StepsBefore
  <2>4. ASSUME ShouldSkip(rec, first)
        PROVE  /\ first # "cleanup"
               /\ \E s \in StepsBefore("cleanup") : rec[s].status \in {"FAILED", "INCOMPLETE"}
    <3>1. CASE \E gate \in Steps : rec[gate] = AppFailure /\ first \in ApplicationGate[gate]
      <4>1. PICK gate \in Steps : rec[gate] = AppFailure /\ first \in ApplicationGate[gate]
        BY <3>1
      <4>2. gate # "cleanup" /\ first # "cleanup"
        BY <4>1, ElevenSteps DEF ApplicationGate
      <4>. QED
        BY <4>1, <4>2, StepsBeforeCleanup DEF AppFailure
    <3>2. CASE first # "cleanup" /\ HardFailureBeforeAssemble(rec)
      <4>1. PICK s \in Steps : /\ StepIndex[s] < StepIndex["assemble"]
                               /\ rec[s].status = "INCOMPLETE" \/ rec[s] = HardFailed
        BY <3>2 DEF HardFailureBeforeAssemble
      <4>2. s # "cleanup"
        BY <4>1, StepIndexes
      <4>. QED
        BY <3>2, <4>1, <4>2, StepsBeforeCleanup DEF HardFailed
    <3>3. CASE first = "review" /\ rec["assemble"].status = "FAILED"
      BY <3>3, StepsBeforeCleanup, ElevenSteps
    <3>. QED
      BY <2>4, <3>1, <3>2, <3>3 DEF ShouldSkip
  <2>. QED
    BY <2>1, <2>2, <2>3, <2>4
<1>. HIDE DEF open
<1>. QED
  BY <1>1, <1>2, <1>3

\* What the plan asks to run or skip is not settled.
LEMMA NextStepIsOpen ==
    ASSUME NEW rec, NEW next, next = NextStepAction(rec), next.action # "none"
    PROVE  ~SettledIn(rec, next.step)
<1>. DEFINE open == {s \in Steps : ~SettledIn(rec, s)}
            first == CHOOSE s \in open : \A t \in open : StepIndex[s] <= StepIndex[t]
<1>1. CASE rec["cleanup"].status \in {"FAILED", "INCOMPLETE"}
  BY <1>1 DEF NextStepAction, SettledIn, SettledForRetry
<1>2. CASE rec["cleanup"].status \notin {"FAILED", "INCOMPLETE"}
  <2>1. open # {}
    BY <1>2 DEF NextStepAction, SettledIn, NoAction
  <2>2. first \in open
    <3>. HIDE DEF open
    <3>1. open \in SUBSET Steps
      BY DEF open
    <3>2. \E s \in open : \A t \in open : StepIndex[s] <= StepIndex[t]
      BY <2>1, <3>1, FirstExists
    <3>. QED
      BY <3>2
  <2>3. next = [action |-> IF ShouldSkip(rec, first) THEN "skip" ELSE "run", step |-> first]
    BY <1>2, <2>1 DEF NextStepAction, SettledIn
  <2>. HIDE DEF first
  <2>. QED
    BY <2>2, <2>3
<1>. QED
  BY <1>1, <1>2

\* The first open step is the next one, and no two steps have one index.
LEMMA NextStepIsFirst ==
    ASSUME NEW rec, NEW s \in Steps, ~SettledIn(rec, s),
           \A t \in StepsBefore(s) : SettledIn(rec, t),
           rec["cleanup"].status \notin {"FAILED", "INCOMPLETE"}
    PROVE  NextStepAction(rec) = [action |-> IF ShouldSkip(rec, s) THEN "skip" ELSE "run", step |-> s]
<1>. DEFINE open == {t \in Steps : ~SettledIn(rec, t)}
            first == CHOOSE t \in open : \A u \in open : StepIndex[t] <= StepIndex[u]
<1>1. s \in open
  OBVIOUS
<1>2. \A t \in open : StepIndex[s] <= StepIndex[t]
  BY StepIndexTyped DEF StepsBefore
<1>3. \A t \in open : (\A u \in open : StepIndex[t] <= StepIndex[u]) => t = s
  <2>1. \A t \in Steps : StepIndex[t] = StepIndex[s] => t = s
    BY ElevenSteps, StepIndexes
  <2>. QED
    BY <1>1, <1>2, <2>1, StepIndexTyped
<1>. HIDE DEF open
<1>4. first = s
  BY <1>1, <1>2, <1>3
<1>. HIDE DEF first
<1>5. open # {}
  BY <1>1
<1>. QED
  BY <1>4, <1>5 DEF NextStepAction, SettledIn, open, first

\* The gates look at the steps before the cleanup that went wrong, and never close for
\* the cleanup.
LEMMA GatesReadFailures ==
    ASSUME NEW rec, NEW new, NEW s \in Steps,
           \A t \in Steps \ {"cleanup"} :
              \/ new[t] = rec[t]
              \/ /\ rec[t].status \notin {"FAILED", "INCOMPLETE"}
                 /\ new[t].status \notin {"FAILED", "INCOMPLETE"}
    PROVE  ShouldSkip(new, s) <=> ShouldSkip(rec, s)
<1>1. \A gate \in Steps : s \in ApplicationGate[gate] => gate \in Steps \ {"cleanup"}
  BY ElevenSteps DEF ApplicationGate
<1>2. \A gate \in Steps : s \in ApplicationGate[gate] => (new[gate] = AppFailure <=> rec[gate] = AppFailure)
  BY <1>1 DEF AppFailure
<1>3. HardFailureBeforeAssemble(new) <=> HardFailureBeforeAssemble(rec)
  <2>1. \A t \in Steps : StepIndex[t] < StepIndex["assemble"] => t \in Steps \ {"cleanup"}
    BY StepIndexes
  <2>2. \A t \in Steps \ {"cleanup"} :
           (new[t].status = "INCOMPLETE" \/ new[t] = HardFailed)
              <=> (rec[t].status = "INCOMPLETE" \/ rec[t] = HardFailed)
    BY DEF HardFailed
  <2>. QED
    BY <2>1, <2>2 DEF HardFailureBeforeAssemble
<1>4. new["assemble"].status = "FAILED" <=> rec["assemble"].status = "FAILED"
  BY ElevenSteps
<1>. QED
  BY <1>2, <1>3, <1>4 DEF ShouldSkip

LEMMA CleanupIsNeverSkipped == \A rec : ~ShouldSkip(rec, "cleanup")
  BY ElevenSteps DEF ShouldSkip, ApplicationGate

\* The plan runs and skips by the gates.
LEMMA PlannedByTheGates ==
    ASSUME NEW rec, NEW next, next = NextStepAction(rec)
    PROVE  /\ next.action = "run" => ~ShouldSkip(rec, next.step)
           /\ next.action = "skip" => ShouldSkip(rec, next.step)
  BY CleanupIsNeverSkipped DEF NextStepAction, NoAction

\* The step that is next stays so once it runs; a cleanup is run again only when all the
\* others are settled.
LEMMA RunningStepStays ==
    ASSUME NEW rec, NEW s \in Steps, NextStepAction(rec) = [action |-> "run", step |-> s],
           s = "cleanup" => \A t \in StepsBefore(s) : SettledIn(rec, t),
           NEW running, running = [status |-> "RUNNING", kind |-> "none"],
           NEW new, new = [t \in Steps |-> IF t = s THEN running ELSE rec[t]]
    PROVE  NextStepAction(new) = [action |-> "run", step |-> s]
<1>1. \A t \in StepsBefore(s) : SettledIn(rec, t)
  BY NextStepIsDue
<1>2. s \notin StepsBefore(s)
  BY StepIndexTyped DEF StepsBefore
<1>3. \A t \in StepsBefore(s) : SettledIn(new, t)
  BY <1>1, <1>2 DEF SettledIn, StepsBefore
<1>4. ~SettledIn(new, s)
  BY DEF SettledIn, SettledForRetry, TerminalStepStatuses
<1>5. new["cleanup"].status \notin {"FAILED", "INCOMPLETE"}
  <2>1. CASE s = "cleanup"
    BY <2>1
  <2>2. CASE s # "cleanup"
    <3>1. rec["cleanup"].status \notin {"FAILED", "INCOMPLETE"}
      BY <2>2 DEF NextStepAction
    <3>. QED
      BY <2>2, <3>1, ElevenSteps
  <2>. QED
    BY <2>1, <2>2
<1>6. ~ShouldSkip(new, s)
  <2>1. CASE s = "cleanup"
    BY <2>1, ElevenSteps DEF ShouldSkip, ApplicationGate
  <2>2. CASE s # "cleanup"
    <3>1. rec["cleanup"].status \notin {"FAILED", "INCOMPLETE"}
      BY <2>2 DEF NextStepAction
    <3>2. ~SettledIn(rec, s)
      BY NextStepIsOpen
    <3>3. ~ShouldSkip(rec, s)
      BY <1>1, <3>1, <3>2, NextStepIsFirst
    <3>4. \A t \in Steps : new[t] = rec[t] \/ new[t] = running
      OBVIOUS
    <3>5. ~(\E gate \in Steps : new[gate] = AppFailure /\ s \in ApplicationGate[gate])
      BY <3>3, <3>4 DEF ShouldSkip, AppFailure
    <3>6. HardFailureBeforeAssemble(new) => HardFailureBeforeAssemble(rec)
      BY <3>4 DEF HardFailureBeforeAssemble, HardFailed
    <3>7. new["assemble"].status = "FAILED" => rec["assemble"].status = "FAILED"
      BY <3>4, ElevenSteps
    <3>. QED
      BY <3>3, <3>5, <3>6, <3>7 DEF ShouldSkip
  <2>. QED
    BY <2>1, <2>2
<1>. QED
  BY <1>3, <1>4, <1>5, <1>6, NextStepIsFirst

-----------------------------------------------------------------------------
\* A verdict fits a book of records when all steps but the cleanup have ended, PASSED
\* stands for passes only, and FAILED for an application failure and nothing worse.
Fits(verdict, rec) ==
    /\ \A s \in StepsBefore("cleanup") : rec[s].status \in TerminalStepStatuses
    /\ verdict = "PASSED" => \A s \in StepsBefore("cleanup") : rec[s] = Passed
    /\ verdict = "FAILED" =>
          /\ \E s \in StepsBefore("cleanup") : rec[s] = AppFailure
          /\ \A s \in StepsBefore("cleanup") : rec[s] \in {Passed, AppFailure, Skipped}

\* The verdict derived from results of executors and from skips with a failure behind
\* them fits, whatever the cleanup has done by then.
LEMMA DerivedVerdictFits ==
    ASSUME NEW rec,
           \A s \in StepsBefore("cleanup") : rec[s] \in StepResults \union {Skipped},
           rec["cleanup"] # AppFailure,
           (\E s \in StepsBefore("cleanup") : rec[s] = Skipped) =>
               \E s \in StepsBefore("cleanup") : rec[s].status \in {"FAILED", "INCOMPLETE"}
    PROVE  DeriveFinalRunStatus(rec) \in Verdicts /\ Fits(DeriveFinalRunStatus(rec), rec)
<1>. DEFINE verdict == DeriveFinalRunStatus(rec)
<1>1. verdict \in Verdicts
  BY DEF DeriveFinalRunStatus, Verdicts
<1>2. \A s \in StepsBefore("cleanup") : rec[s].status \in TerminalStepStatuses
  BY DEF StepResults, Passed, AppFailure, HardFailed, Incomplete, Skipped, TerminalStepStatuses
<1>3. ASSUME verdict \in {"PASSED", "FAILED"}, NEW s \in StepsBefore("cleanup")
      PROVE  rec[s] \in {Passed, AppFailure, Skipped}
  BY <1>3, StepsBeforeCleanup
     DEF DeriveFinalRunStatus, StepResults, Incomplete
<1>4. ASSUME verdict = "FAILED" PROVE \E s \in StepsBefore("cleanup") : rec[s] = AppFailure
  BY <1>4, StepsBeforeCleanup DEF DeriveFinalRunStatus
<1>5. ASSUME verdict = "PASSED", NEW s \in StepsBefore("cleanup") PROVE rec[s] = Passed
  <2>1. \A t \in StepsBefore("cleanup") : rec[t] # AppFailure
    BY <1>5, StepsBeforeCleanup DEF DeriveFinalRunStatus
  <2>2. \A t \in StepsBefore("cleanup") : rec[t].status \notin {"FAILED", "INCOMPLETE"}
    BY <1>3, <1>5, <2>1 DEF Passed, Skipped
  <2>. QED
    BY <1>3, <1>5, <2>1, <2>2
<1>. HIDE DEF verdict
<1>. QED
  BY <1>1, <1>2, <1>3, <1>4, <1>5 DEF Fits, verdict
=============================================================================
