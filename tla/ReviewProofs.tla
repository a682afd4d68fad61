----------------------------- MODULE ReviewProofs -----------------------------
(***************************************************************************)
(* Theorems about the agent review, for any number of Workers, calls and   *)
(* overlaps, any heads, edits and answers.                                 *)
(***************************************************************************)
EXTENDS Review, TLAPS

\* The disjuncts of Next, named once for the step proofs below.
LEMMA NextCases ==
    ASSUME [Next]_vars
    PROVE  \/ Push
           \/ \E c \in Calls :
                \/ Begin(c) \/ Request(c) \/ Commit(c) \/ Sent(c) \/ SendFails(c)
                \/ TimerFires(c) \/ Post(c) \/ GivesUp(c) \/ Conclude(c)
           \/ \E job \in requests : Serve(job) \/ ServeFails(job)
           \/ \E w \in Workers : \E job \in results : Deliver(w, job)
           \/ \E w \in Workers : Crash(w) \/ Stop(w) \/ Launch(w)
           \/ UNCHANGED vars
  BY DEF Next

\* An event that happens counts, whatever it is.
LEMMA SpendTyped ==
    ASSUME spent \in [Events -> Nat], NEW e \in Events, Spend(e)
    PROVE  spent' \in [Events -> Nat]
  BY DEF Spend

\* A call that ends, dies, or moves on is one still.
LEMMA CallUpdates ==
    ASSUME NEW x \in CallState
    PROVE  /\ Ended(x, "over") \in CallState
           /\ \A place \in Places : [x EXCEPT !.at = place] \in CallState
           /\ \A w \in Workers, i \in Heads :
                [x EXCEPT !.at = "ready", !.worker = w, !.input = i] \in CallState
           /\ \A place \in Places, p \in Calls : [x EXCEPT !.at = place, !.promise = p] \in CallState
           /\ \A output \in Outputs : [x EXCEPT !.at = "answered", !.answer = output] \in CallState
           /\ \A outcome \in {"PASSED", "INCOMPLETE"} :
                [x EXCEPT !.at = "over", !.outcome = outcome] \in CallState
           /\ [x EXCEPT !.settled = "rejected"] \in CallState
  BY DEF CallState, Places, Ended

\* What becomes of the calls, whoever waits, when a promise is settled.
LEMMA ResolvedTyped ==
    ASSUME call \in [Calls -> CallState], NEW c \in Calls, NEW output \in Outputs
    PROVE  Resolved(c, output) \in [Calls -> CallState]
<1>1. ASSUME NEW x \in CallState, NEW settled \in {x.settled, "resolved"},
             NEW answer \in {x.answer, output}, NEW place \in {x.at, "answered"}
      PROVE  [x EXCEPT !.settled = settled, !.answer = answer, !.at = place] \in CallState
  BY <1>1 DEF CallState, Places
<1>2. ASSUME NEW d \in Calls
      PROVE  [call[d] EXCEPT !.settled = IF d = c THEN "resolved" ELSE @,
                             !.answer = IF d = c \/ d \in Waiting(c) THEN output ELSE @,
                             !.at = IF d \in Waiting(c) THEN "answered" ELSE @] \in CallState
  BY <1>1
<1>. QED
  BY <1>2 DEF Resolved

LEMMA RejectedTyped ==
    ASSUME call \in [Calls -> CallState],
           workers \in [Workers -> {"unborn", "alive", "dead"}],
           NEW c \in Calls, NEW ends, Rejected(c, ends)
    PROVE  /\ call' \in [Calls -> CallState]
           /\ workers' \in [Workers -> {"unborn", "alive", "dead"}]
<1>1. CASE Waiting(c) = {}
  <2>1. \A d \in Calls : [call[d] EXCEPT !.at = "dead"] \in CallState
    BY CallUpdates DEF Places
  <2>. QED
    BY <1>1, <2>1 DEF Rejected
<1>2. CASE Waiting(c) # {}
  <2>1. /\ workers' = workers
        /\ call' = [d \in Calls |->
                      LET state == [call[d] EXCEPT !.settled = IF d = c THEN "rejected" ELSE @]
                      IN IF d \in Waiting(c) \union ends THEN Ended(state, "over") ELSE state]
    BY <1>2 DEF Rejected
  <2>2. ASSUME NEW x \in CallState, NEW settled \in {x.settled, "rejected"}
        PROVE  [x EXCEPT !.settled = settled] \in CallState
    BY <2>2 DEF CallState
  <2>3. ASSUME NEW d \in Calls
        PROVE  [call[d] EXCEPT !.settled = IF d = c THEN "rejected" ELSE @] \in CallState
    BY <2>2
  <2>. QED
    BY <2>1, <2>3, CallUpdates
<1>. QED
  BY <1>1, <1>2

LEMMA ForgetTyped ==
    ASSUME pending \in [Workers -> [Heads -> Calls \union {Nobody}]],
           call \in [Calls -> CallState], NEW c \in Calls, Forget(c)
    PROVE  pending' \in [Workers -> [Heads -> Calls \union {Nobody}]]
  BY DEF Forget, CallState

\* A job that is delivered again has fewer deliveries left.
LEMMA AgainTyped ==
    /\ \A queue \in SUBSET RequestJob : \A job \in queue : Again(queue, job) \subseteq RequestJob
    /\ \A queue \in SUBSET ResultJob : \A job \in queue : Again(queue, job) \subseteq ResultJob
<1>1. ASSUME NEW queue \in SUBSET RequestJob, NEW job \in queue
      PROVE  Again(queue, job) \subseteq RequestJob
  <2>1. job.tries > 1 => [job EXCEPT !.tries = @ - 1] \in RequestJob
    BY DEF RequestJob, RequestDeliveries
  <2>. QED
    BY <2>1 DEF Again
<1>2. ASSUME NEW queue \in SUBSET ResultJob, NEW job \in queue
      PROVE  Again(queue, job) \subseteq ResultJob
  <2>1. job.tries > 1 => [job EXCEPT !.tries = @ - 1] \in ResultJob
    BY DEF ResultJob, ResultDeliveries
  <2>. QED
    BY <2>1 DEF Again
<1>. QED
  BY <1>1, <1>2

\* What a job is answered with is a result.
LEMMA AnsweredTyped ==
    ASSUME results \subseteq ResultJob, NEW job \in RequestJob, NEW output \in Outputs
    PROVE  Answered(job, output) \subseteq ResultJob
  BY DEF Answered, ResultJob, RequestJob, ResultDeliveries, RequestDeliveries

\* Every step keeps the types.
LEMMA TypeStep == TypeOK /\ [Next]_vars => TypeOK'
<1>. SUFFICES ASSUME TypeOK, [Next]_vars PROVE TypeOK'
  OBVIOUS
<1>. USE ReviewAssumption
<1>. transport \in Transports /\ head \in Heads
  BY DEF TypeOK
<1>. workers \in [Workers -> {"unborn", "alive", "dead"}]
  BY DEF TypeOK
<1>. call \in [Calls -> CallState]
  BY DEF TypeOK
<1>. pending \in [Workers -> [Heads -> Calls \union {Nobody}]]
  BY DEF TypeOK
<1>. requests \subseteq RequestJob /\ results \subseteq ResultJob
  BY DEF TypeOK
<1>. served \in [Heads -> SUBSET Outputs] /\ spent \in [Events -> Nat]
  BY DEF TypeOK
<1>0. ASSUME NEW e \in Events, Spend(e) PROVE spent' \in [Events -> Nat]
  BY <1>0, SpendTyped
<1>1. CASE Push
  BY <1>0, <1>1 DEF Push, TypeOK, queues, Events
<1>2. ASSUME NEW c \in Calls, Begin(c) PROVE TypeOK'
  <2>1. spent' \in [Events -> Nat]
    BY <1>0, <1>2 DEF Begin, Events
  <2>2. PICK w \in Alive :
            call' = [call EXCEPT ![c].at = "ready", ![c].worker = w, ![c].input = head]
    BY <1>2 DEF Begin
  <2>3. call' \in [Calls -> CallState]
    BY <2>2, CallUpdates DEF Alive
  <2>. QED
    BY <1>2, <2>1, <2>3 DEF Begin, TypeOK, queues
<1>3. ASSUME NEW c \in Calls, Request(c) PROVE TypeOK'
  <2>. DEFINE w == call[c].worker
              i == call[c].input
              first == pending[w][i] = Nobody
  <2>1. w \in Workers /\ i \in Heads
    BY DEF CallState
  <2>2. pending' = IF first THEN [pending EXCEPT ![w][i] = c] ELSE pending
    BY <1>3 DEF Request
  <2>3. call' = [call EXCEPT ![c].at = IF first THEN "sending" ELSE "waiting",
                             ![c].promise = IF first THEN c ELSE pending[w][i]]
    BY <1>3 DEF Request
  <2>4. call' \in [Calls -> CallState]
    <3>1. CASE first
      <4>1. call' = [call EXCEPT ![c].at = "sending", ![c].promise = c]
        BY <2>3, <3>1
      <4>. QED
        BY <4>1, CallUpdates DEF Places
    <3>2. CASE ~first
      <4>1. pending[w][i] \in Calls
        BY <2>1, <3>2
      <4>2. call' = [call EXCEPT ![c].at = "waiting", ![c].promise = pending[w][i]]
        BY <2>3, <3>2
      <4>. HIDE DEF w, i
      <4>. QED
        BY <4>1, <4>2, CallUpdates DEF Places
    <3>. QED
      BY <3>1, <3>2
  <2>5. pending' \in [Workers -> [Heads -> Calls \union {Nobody}]]
    BY <2>1, <2>2
  <2>. QED
    BY <1>3, <2>4, <2>5 DEF Request, TypeOK, queues
<1>4. ASSUME NEW c \in Calls, Commit(c) PROVE TypeOK'
  <2>1. [from |-> c, input |-> call[c].input, tries |-> RequestDeliveries] \in RequestJob
    BY DEF RequestJob, CallState, RequestDeliveries
  <2>2. requests' \subseteq RequestJob
    BY <1>4, <2>1 DEF Commit
  <2>3. call' \in [Calls -> CallState]
    BY <1>4, CallUpdates DEF Commit, Places
  <2>. QED
    BY <1>4, <2>2, <2>3 DEF Commit, TypeOK
<1>5. ASSUME NEW c \in Calls, Sent(c) PROVE TypeOK'
  <2>1. Ended(call[c], "over") \in CallState
    BY CallUpdates
  <2>2. call' \in [Calls -> CallState]
    <3>1. \/ call' = [call EXCEPT ![c].at = "waiting"]
          \/ call' = [call EXCEPT ![c].at = "answered"]
          \/ call' = [call EXCEPT ![c] = Ended(call[c], "over")]
      BY <1>5 DEF Sent
    <3>. QED
      <4>. call[c] \in CallState
        OBVIOUS
      <4>1. CASE call' = [call EXCEPT ![c].at = "waiting"]
        BY <4>1, CallUpdates DEF Places
      <4>2. CASE call' = [call EXCEPT ![c].at = "answered"]
        BY <4>2, CallUpdates DEF Places
      <4>3. CASE call' = [call EXCEPT ![c] = Ended(call[c], "over")]
        BY <2>1, <4>3
      <4>. QED
        BY <3>1, <4>1, <4>2, <4>3
  <2>3. pending' \in [Workers -> [Heads -> Calls \union {Nobody}]]
    BY <1>5, ForgetTyped DEF Sent
  <2>. QED
    BY <1>5, <2>2, <2>3 DEF Sent, TypeOK, queues
<1>6. ASSUME NEW c \in Calls, SendFails(c) PROVE TypeOK'
  <2>1. pending' \in [Workers -> [Heads -> Calls \union {Nobody}]]
    BY <1>6, ForgetTyped DEF SendFails
  <2>2. Ended(call[c], "over") \in CallState
    BY CallUpdates
  <2>3. spent' \in [Events -> Nat]
    BY <1>0, <1>6 DEF SendFails, Events
  <2>4. /\ call' \in [Calls -> CallState]
        /\ workers' \in [Workers -> {"unborn", "alive", "dead"}]
    BY <1>6, <2>2, RejectedTyped DEF SendFails
  <2>. QED
    BY <1>6, <2>1, <2>3, <2>4 DEF SendFails, TypeOK, queues
<1>7. ASSUME NEW c \in Calls, TimerFires(c) PROVE TypeOK'
  <2>1. pending' \in [Workers -> [Heads -> Calls \union {Nobody}]]
    BY <1>7, ForgetTyped DEF TimerFires
  <2>2. spent' \in [Events -> Nat]
    BY <1>0, <1>7 DEF TimerFires, Events
  <2>3. /\ call' \in [Calls -> CallState]
        /\ workers' \in [Workers -> {"unborn", "alive", "dead"}]
    BY <1>7, RejectedTyped DEF TimerFires
  <2>. QED
    BY <1>7, <2>1, <2>2, <2>3 DEF TimerFires, TypeOK, queues
<1>8. ASSUME NEW c \in Calls, Post(c) PROVE TypeOK'
  <2>1. PICK output \in Outputs :
          /\ call' = [call EXCEPT ![c].at = "answered", ![c].answer = output]
          /\ served' = [served EXCEPT ![call[c].input] = @ \union {output}]
    BY <1>8 DEF Post
  <2>2. call' \in [Calls -> CallState] /\ served' \in [Heads -> SUBSET Outputs]
    <3>1. call[c].input \in Heads
      BY DEF CallState
    <3>. QED
      BY <2>1, <3>1, CallUpdates
  <2>. QED
    BY <1>8, <2>2 DEF Post, TypeOK
<1>9. ASSUME NEW c \in Calls, GivesUp(c) PROVE TypeOK'
  <2>1. Ended(call[c], "over") \in CallState
    BY CallUpdates
  <2>2. call' \in [Calls -> CallState]
    BY <1>9, <2>1 DEF GivesUp
  <2>3. spent' \in [Events -> Nat]
    BY <1>0, <1>9 DEF GivesUp, Events
  <2>. QED
    BY <1>9, <2>2, <2>3 DEF GivesUp, TypeOK, queues
<1>10. ASSUME NEW c \in Calls, Conclude(c) PROVE TypeOK'
  <2>1. call' \in [Calls -> CallState]
    BY <1>10, CallUpdates DEF Conclude
  <2>. QED
    BY <1>10, <2>1 DEF Conclude, TypeOK, queues
<1>11. ASSUME NEW job \in requests, Serve(job) PROVE TypeOK'
  <2>1. job \in RequestJob /\ job.input \in Heads
    BY DEF RequestJob
  <2>2. results' \subseteq ResultJob
    BY <1>11, <2>1, AnsweredTyped DEF Serve
  <2>3. served' \in [Heads -> SUBSET Outputs]
    BY <1>11, <2>1 DEF Serve
  <2>. QED
    BY <1>11, <2>2, <2>3 DEF Serve, TypeOK
<1>12. ASSUME NEW job \in requests, ServeFails(job) PROVE TypeOK'
  <2>1. job \in RequestJob /\ job.input \in Heads
    BY DEF RequestJob
  <2>2. results' \subseteq ResultJob
    BY <1>12, <2>1, AnsweredTyped DEF ServeFails
  <2>3. served' \in [Heads -> SUBSET Outputs]
    BY <1>12, <2>1 DEF ServeFails
  <2>4. requests' \subseteq RequestJob
    BY <1>12, AgainTyped DEF ServeFails
  <2>5. spent' \in [Events -> Nat]
    BY <1>0, <1>12 DEF ServeFails, Events
  <2>. QED
    BY <1>12, <2>2, <2>3, <2>4, <2>5 DEF ServeFails, TypeOK
<1>13. ASSUME NEW w \in Workers, NEW job \in results, Deliver(w, job) PROVE TypeOK'
  <2>. DEFINE c == pending[w][job.input]
  <2>1. job \in ResultJob /\ job.input \in Heads /\ job.output \in Outputs
    BY DEF ResultJob
  <2>2. results' \subseteq ResultJob
    BY <1>13, AgainTyped DEF Deliver
  <2>3. CASE c # Nobody
    <3>1. c \in Calls
      BY <2>1, <2>3
    <3>2. call' = Resolved(c, job.output)
          /\ pending' = [pending EXCEPT ![w][job.input] = Nobody]
      BY <1>13, <2>3 DEF Deliver
    <3>3. call' \in [Calls -> CallState]
      BY <2>1, <3>1, <3>2, ResolvedTyped
    <3>4. pending' \in [Workers -> [Heads -> Calls \union {Nobody}]]
      BY <2>1, <3>2
    <3>. QED
      BY <1>13, <2>2, <3>3, <3>4 DEF Deliver, TypeOK
  <2>4. CASE c = Nobody
    BY <1>13, <2>2, <2>4 DEF Deliver, TypeOK
  <2>. QED
    BY <2>3, <2>4
<1>14. ASSUME NEW w \in Workers, Crash(w) PROVE TypeOK'
  <2>1. call' \in [Calls -> CallState]
    BY <1>14, CallUpdates DEF Crash, Places
  <2>2. spent' \in [Events -> Nat]
    BY <1>0, <1>14 DEF Crash, Events
  <2>. QED
    BY <1>14, <2>1, <2>2 DEF Crash, TypeOK, queues
<1>15. ASSUME NEW w \in Workers, Stop(w) PROVE TypeOK'
  <2>1. ASSUME NEW c \in Calls
        PROVE  Ended(call[c], "over") \in CallState /\ [call[c] EXCEPT !.at = "dead"] \in CallState
    BY CallUpdates DEF Places
  <2>2. call' \in [Calls -> CallState]
    BY <1>15, <2>1 DEF Stop
  <2>3. spent' \in [Events -> Nat]
    BY <1>0, <1>15 DEF Stop, Events
  <2>4. pending' \in [Workers -> [Heads -> Calls \union {Nobody}]]
    BY <1>15 DEF Stop
  <2>. QED
    BY <1>15, <2>2, <2>3, <2>4 DEF Stop, TypeOK, queues
<1>16. ASSUME NEW w \in Workers, Launch(w) PROVE TypeOK'
  <2>1. spent' \in [Events -> Nat]
    BY <1>0, <1>16 DEF Launch, Events
  <2>. QED
    BY <1>16, <2>1 DEF Launch, TypeOK, queues
<1>17. CASE UNCHANGED vars
  BY <1>17 DEF vars, queues, TypeOK
<1>. QED
  BY NextCases, <1>1, <1>2, <1>3, <1>4, <1>5, <1>6, <1>7, <1>8, <1>9, <1>10, <1>11, <1>12,
     <1>13, <1>14, <1>15, <1>16, <1>17

LEMMA InitiallyTyped == Init => TypeOK
<1>. USE ReviewAssumption
<1>1. 1 \in Workers
  BY DEF Workers
<1>. QED
  BY <1>1 DEF Init, TypeOK, CallState, Places, Nothing, Nobody

\* Type correctness: calls, promises, jobs and what the service has answered keep their types.
THEOREM TypeCorrect == Spec => []TypeOK
<1>. QED
  BY InitiallyTyped, TypeStep, PTL DEF Spec

-----------------------------------------------------------------------------
\* What the settling of a promise does to each call.
LEMMA ResolvedEffect ==
    ASSUME TypeOK, NEW c \in Calls, NEW output, call' = Resolved(c, output), NEW d \in Calls
    PROVE  /\ call'[d].worker = call[d].worker /\ call'[d].input = call[d].input
           /\ call'[d].promise = call[d].promise /\ call'[d].outcome = call[d].outcome
           /\ call'[d].settled = IF d = c THEN "resolved" ELSE call[d].settled
           /\ call'[d].answer = IF d = c \/ d \in Waiting(c) THEN output ELSE call[d].answer
           /\ call'[d].at = IF d \in Waiting(c) THEN "answered" ELSE call[d].at
<1>1. call[d] \in CallState
  BY DEF TypeOK
<1>2. call'[d] = [call[d] EXCEPT !.settled = IF d = c THEN "resolved" ELSE @,
                                 !.answer = IF d = c \/ d \in Waiting(c) THEN output ELSE @,
                                 !.at = IF d \in Waiting(c) THEN "answered" ELSE @]
  BY DEF Resolved
<1>. QED
  BY <1>1, <1>2 DEF CallState

LEMMA RejectedEffect ==
    ASSUME TypeOK, NEW c \in Calls, NEW ends, Rejected(c, ends), NEW d \in Calls
    PROVE  /\ call'[d].worker = call[d].worker /\ call'[d].input = call[d].input
           /\ call'[d].promise = call[d].promise /\ call'[d].answer = call[d].answer
           /\ Waiting(c) = {} =>
                /\ workers' = [workers EXCEPT ![call[c].worker] = "dead"]
                /\ call'[d].at = IF On(d, call[c].worker) THEN "dead" ELSE call[d].at
                /\ call'[d].settled = call[d].settled
                /\ call'[d].outcome = call[d].outcome
           /\ Waiting(c) # {} =>
                /\ workers' = workers
                /\ call'[d].at = IF d \in Waiting(c) \union ends THEN "over" ELSE call[d].at
                /\ call'[d].settled = IF d = c THEN "rejected" ELSE call[d].settled
                /\ call'[d].outcome =
                      IF d \in Waiting(c) \union ends THEN "INCOMPLETE" ELSE call[d].outcome
<1>1. call[d] \in CallState
  BY DEF TypeOK
<1>2. CASE Waiting(c) = {}
  <2>1. call'[d] = IF On(d, call[c].worker) THEN [call[d] EXCEPT !.at = "dead"] ELSE call[d]
    BY <1>2 DEF Rejected
  <2>2. workers' = [workers EXCEPT ![call[c].worker] = "dead"]
    BY <1>2 DEF Rejected
  <2>. QED
    BY <1>1, <1>2, <2>1, <2>2 DEF CallState
<1>3. CASE Waiting(c) # {}
  <2>. DEFINE state == [call[d] EXCEPT !.settled = IF d = c THEN "rejected" ELSE @]
  <2>1. call'[d] = IF d \in Waiting(c) \union ends THEN Ended(state, "over") ELSE state
    BY <1>3 DEF Rejected
  <2>2. /\ state \in [at : Places, worker : Workers, input : Heads, promise : Calls,
                      settled : {"open", "resolved", "rejected"},
                      answer : Outputs \union {Nothing},
                      outcome : {"none", "PASSED", "INCOMPLETE"}]
        /\ state.at = call[d].at /\ state.worker = call[d].worker
        /\ state.input = call[d].input /\ state.promise = call[d].promise
        /\ state.settled = IF d = c THEN "rejected" ELSE call[d].settled
        /\ state.answer = call[d].answer /\ state.outcome = call[d].outcome
    <3>1. ASSUME NEW x \in CallState, NEW settled \in {x.settled, "rejected"}
          PROVE  /\ [x EXCEPT !.settled = settled] \in CallState
                 /\ [x EXCEPT !.settled = settled].settled = settled
                 /\ [x EXCEPT !.settled = settled].at = x.at
                 /\ [x EXCEPT !.settled = settled].worker = x.worker
                 /\ [x EXCEPT !.settled = settled].input = x.input
                 /\ [x EXCEPT !.settled = settled].promise = x.promise
                 /\ [x EXCEPT !.settled = settled].answer = x.answer
                 /\ [x EXCEPT !.settled = settled].outcome = x.outcome
      BY <3>1 DEF CallState
    <3>. DEFINE settled == IF d = c THEN "rejected" ELSE call[d].settled
    <3>2. state = [call[d] EXCEPT !.settled = settled] /\ settled \in {call[d].settled, "rejected"}
      OBVIOUS
    <3>. HIDE DEF state, settled
    <3>3. state \in CallState
      BY <1>1, <3>1, <3>2
    <3>. QED
      BY <1>1, <3>1, <3>2, <3>3 DEF CallState, settled
  <2>. HIDE DEF state
  <2>3. Ended(state, "over") = [state EXCEPT !.at = "over", !.outcome = "INCOMPLETE"]
    BY DEF Ended
  <2>4. workers' = workers
    BY <1>3 DEF Rejected
  <2>. QED
    BY <1>3, <2>1, <2>2, <2>3, <2>4
<1>. QED
  BY <1>2, <1>3

-----------------------------------------------------------------------------
\* The inductive invariant behind PassedReviewsAreSound.

\* An entry of a Worker's map is of a call of this Worker that asked for this input
\* and whose own promise is still open.
EntriesAreOpen ==
    \A w \in Workers, i \in Heads : pending[w][i] # Nobody =>
        LET c == pending[w][i] IN
        /\ call[c].worker = w /\ call[c].input = i
        /\ call[c].promise = c /\ call[c].settled = "open"
        /\ call[c].at \in {"sending", "sent", "waiting", "dead"}

\* A call has a promise of its own until it shares that of another call, which has the
\* same input.
PromisesMatch ==
    \A c \in Calls :
        /\ call[c].at \in {"idle", "ready", "sending", "sent"} => call[c].promise = c
        /\ call[c].at \in {"idle", "ready"} => call[c].settled = "open"
        /\ ~At(c, "idle") => LET p == call[c].promise IN
                             /\ ~At(p, "idle")
                             /\ call[p].input = call[c].input

\* What a call has been told, and what is on its way to it, the service made of its input.
AnswersAreServed ==
    \A c \in Calls :
        At(c, "answered") \/ (call[c].at \in {"sending", "sent"} /\ call[c].settled = "resolved") =>
            call[c].answer \in served[call[c].input]

ResultsAreServed == \A job \in results : job.output \in served[job.input]

\* A review that has passed is over, and stands on an answer that passes.
PassesAreDue ==
    \A c \in Calls : call[c].outcome = "PASSED" =>
        /\ At(c, "over")
        /\ call[c].answer \in served[call[c].input]
        /\ Passes(call[c].input, call[c].answer)

SoundInv ==
    EntriesAreOpen /\ PromisesMatch /\ AnswersAreServed /\ ResultsAreServed /\ PassesAreDue

-----------------------------------------------------------------------------
\* What no step but the first two of a call changes: where it is from and what it asks.
Kept(d) ==
    /\ call'[d].worker = call[d].worker /\ call'[d].input = call[d].input
    /\ call'[d].promise = call[d].promise
    /\ call'[d].at = "idle" <=> call[d].at = "idle"
    /\ call'[d].at = "ready" => call[d].at = "ready"
    /\ call'[d].at \in {"sending", "sent"} => call[d].at \in {"sending", "sent"}
    /\ call'[d].at \in {"sent", "waiting"} => call[d].at \in {"sent", "waiting"} \/ Commit(d)
    /\ call[d].at \in {"idle", "ready"} => call'[d].settled = call[d].settled
    /\ call'[d].settled = "open" => call[d].settled = "open"

\* What a Worker's map has is a call.
LEMMA EntryIsCall ==
    ASSUME TypeOK, NEW w \in Workers, NEW i \in Heads
    PROVE  pending[w][i] # Nobody => pending[w][i] \in Calls
  BY DEF TypeOK

\* A step leaves a call as it is in these respects, or is its first or its second.
LEMMA CallsAreKept ==
    ASSUME TypeOK, EntriesAreOpen, [Next]_vars, NEW d \in Calls
    PROVE  Begin(d) \/ Request(d) \/ Kept(d)
<1>. call \in [Calls -> CallState] /\ call[d] \in CallState
  BY DEF TypeOK
<1>0. ASSUME call'[d] = call[d] PROVE Kept(d)
  BY <1>0 DEF Kept
<1>1. ASSUME UNCHANGED call PROVE Kept(d)
  BY <1>0, <1>1
<1>2. ASSUME NEW c \in Calls, Begin(c) \/ Request(c) PROVE Begin(d) \/ Request(d) \/ Kept(d)
  <2>1. CASE c = d
    BY <1>2, <2>1
  <2>2. CASE c # d
    <3>1. call'[d] = call[d]
      BY <1>2, <2>2 DEF Begin, Request
    <3>. QED
      BY <1>0, <3>1
  <2>. QED
    BY <2>1, <2>2
<1>3. ASSUME NEW c \in Calls, Commit(c) PROVE Kept(d)
  BY <1>3 DEF Commit, At, CallState, Kept
<1>4. ASSUME NEW c \in Calls, Sent(c) PROVE Kept(d)
  <2>1. \/ call' = [call EXCEPT ![c].at = "waiting"]
        \/ call' = [call EXCEPT ![c].at = "answered"]
        \/ call' = [call EXCEPT ![c] = Ended(call[c], "over")]
    BY <1>4 DEF Sent
  <2>2. call[c].at = "sent"
    BY <1>4 DEF Sent, At
  <2>3. CASE call' = [call EXCEPT ![c].at = "waiting"]
    BY <2>2, <2>3 DEF CallState, Kept
  <2>4. CASE call' = [call EXCEPT ![c].at = "answered"]
    BY <2>2, <2>4 DEF CallState, Kept
  <2>5. CASE call' = [call EXCEPT ![c] = Ended(call[c], "over")]
    BY <2>2, <2>5 DEF Ended, CallState, Kept
  <2>. QED
    BY <2>1, <2>3, <2>4, <2>5
<1>5. ASSUME NEW c \in Calls, NEW ends, Rejected(c, ends),
             call[c].at \in {"sending", "sent", "waiting"}, ends \subseteq {c}
      PROVE  Kept(d)
  <2>1. d \in Waiting(c) => call[d].at = "waiting"
    BY DEF Waiting, At
  <2>2. On(d, call[c].worker) => call[d].at \notin {"idle", "over", "dead"}
    BY DEF On, Under
  <2>. QED
    BY <1>5, <2>1, <2>2, RejectedEffect DEF Kept
<1>6. ASSUME NEW c \in Calls, SendFails(c) PROVE Kept(d)
  <2>1. CASE call[c].settled = "open"
    BY <1>5, <1>6, <2>1 DEF SendFails, At
  <2>2. CASE call[c].settled # "open"
    <3>1. call' = [call EXCEPT ![c] = Ended(call[c], "over")] /\ call[c].at \in {"sending", "sent"}
      BY <1>6, <2>2 DEF SendFails, At
    <3>. QED
      BY <3>1 DEF Ended, CallState, Kept
  <2>. QED
    BY <2>1, <2>2
<1>7. ASSUME NEW c \in Calls, TimerFires(c) PROVE Kept(d)
  BY <1>5, <1>7 DEF TimerFires, At
<1>8. ASSUME NEW c \in Calls, Post(c) \/ GivesUp(c) \/ Conclude(c) PROVE Kept(d)
  <2>1. CASE Post(c)
    BY <2>1 DEF Post, At, CallState, Kept
  <2>2. CASE GivesUp(c)
    BY <2>2 DEF GivesUp, Ended, At, CallState, Kept
  <2>3. CASE Conclude(c)
    BY <2>3 DEF Conclude, At, CallState, Kept
  <2>. QED
    BY <1>8, <2>1, <2>2, <2>3
<1>9. ASSUME NEW w \in Workers, NEW job \in results, Deliver(w, job) PROVE Kept(d)
  <2>1. job.input \in Heads
    BY DEF TypeOK, ResultJob
  <2>. DEFINE c == pending[w][job.input]
  <2>2. CASE c = Nobody
    BY <1>1, <1>9, <2>2 DEF Deliver
  <2>3. CASE c # Nobody
    <3>1. c \in Calls /\ call[c].at \in {"sending", "sent", "waiting", "dead"}
      BY <2>1, <2>3, EntryIsCall DEF EntriesAreOpen
    <3>2. call' = Resolved(c, job.output)
      BY <1>9, <2>3 DEF Deliver
    <3>3. d \in Waiting(c) => call[d].at = "waiting"
      BY DEF Waiting, At
    <3>. HIDE DEF c
    <3>. QED
      BY <3>1, <3>2, <3>3, ResolvedEffect DEF Kept
  <2>. QED
    BY <2>2, <2>3
<1>10. ASSUME NEW w \in Workers, Crash(w) PROVE Kept(d)
  <2>1. call'[d] = IF On(d, w) THEN [call[d] EXCEPT !.at = "dead"] ELSE call[d]
    BY <1>10 DEF Crash
  <2>. QED
    BY <2>1 DEF On, Under, CallState, Kept
<1>11. ASSUME NEW w \in Workers, Stop(w) PROVE Kept(d)
  <2>1. \/ call'[d] = call[d]
        \/ On(d, w) /\ call'[d] = [call[d] EXCEPT !.at = "dead"]
        \/ On(d, w) /\ call'[d] = Ended(call[d], "over")
    BY <1>11 DEF Stop
  <2>. QED
    BY <2>1 DEF On, Under, Ended, CallState, Kept
<1>12. \/ UNCHANGED call
       \/ \E c \in Calls :
            \/ Begin(c) \/ Request(c) \/ Commit(c) \/ Sent(c) \/ SendFails(c)
            \/ TimerFires(c) \/ Post(c) \/ GivesUp(c) \/ Conclude(c)
       \/ \E w \in Workers : \E job \in results : Deliver(w, job)
       \/ \E w \in Workers : Crash(w) \/ Stop(w)
  BY NextCases DEF Push, Serve, ServeFails, Launch, vars
<1>. QED
  BY <1>1, <1>2, <1>3, <1>4, <1>6, <1>7, <1>8, <1>9, <1>10, <1>11, <1>12

\* A call that has begun keeps its input.
LEMMA InputsStay ==
    ASSUME TypeOK, EntriesAreOpen, [Next]_vars, NEW p \in Calls, call[p].at # "idle"
    PROVE  call'[p].at # "idle" /\ call'[p].input = call[p].input
<1>. call \in [Calls -> CallState] /\ call[p] \in CallState
  BY DEF TypeOK
<1>1. CASE Begin(p)
  BY <1>1 DEF Begin, At
<1>2. CASE Request(p)
  BY <1>2 DEF Request, CallState
<1>3. CASE Kept(p)
  BY <1>3 DEF Kept
<1>. QED
  BY <1>1, <1>2, <1>3, CallsAreKept

\* Promises go on matching.
LEMMA PromisesMatchStep ==
    TypeOK /\ EntriesAreOpen /\ PromisesMatch /\ [Next]_vars => PromisesMatch'
<1>. SUFFICES ASSUME TypeOK, EntriesAreOpen, PromisesMatch, [Next]_vars, NEW d \in Calls
              PROVE  /\ call'[d].at \in {"idle", "ready", "sending", "sent"} => call'[d].promise = d
                     /\ call'[d].at \in {"idle", "ready"} => call'[d].settled = "open"
                     /\ call'[d].at # "idle" =>
                          /\ call'[call'[d].promise].at # "idle"
                          /\ call'[call'[d].promise].input = call'[d].input
  BY DEF PromisesMatch, At
<1>. call \in [Calls -> CallState] /\ call[d] \in CallState /\ call[d].promise \in Calls
  BY DEF TypeOK, CallState
<1>1. ASSUME NEW p \in Calls, call[p].at # "idle"
      PROVE  call'[p].at # "idle" /\ call'[p].input = call[p].input
  BY <1>1, InputsStay
<1>2. CASE Begin(d)
  <2>1. PICK w \in Alive :
            call' = [call EXCEPT ![d].at = "ready", ![d].worker = w, ![d].input = head]
    BY <1>2 DEF Begin
  <2>2. call[d].at = "idle" /\ call[d].promise = d /\ call[d].settled = "open"
    BY <1>2 DEF Begin, At, PromisesMatch
  <2>. QED
    BY <2>1, <2>2 DEF CallState
<1>3. CASE Request(d)
  <2>. DEFINE w == call[d].worker
              i == call[d].input
              p == pending[w][i]
  <2>0. w \in Workers /\ i \in Heads
    BY DEF CallState
  <2>1. CASE p = Nobody
    <3>1. call' = [call EXCEPT ![d].at = "sending", ![d].promise = d]
      BY <1>3, <2>1 DEF Request
    <3>. QED
      BY <3>1 DEF CallState
  <2>2. CASE p # Nobody
    <3>1. call' = [call EXCEPT ![d].at = "waiting", ![d].promise = p]
      BY <1>3, <2>2 DEF Request
    <3>2. p \in Calls /\ call[p].input = i /\ call[p].at # "idle"
      BY <2>0, <2>2, EntryIsCall DEF EntriesAreOpen
    <3>3. call'[p].at # "idle" /\ call'[p].input = i
      BY <1>1, <3>2
    <3>4. call'[d].at = "waiting" /\ call'[d].promise = p /\ call'[d].input = i
      BY <3>1 DEF CallState
    <3>. QED
      BY <3>3, <3>4
  <2>. QED
    BY <2>1, <2>2
<1>4. CASE Kept(d)
  <2>1. call'[d].promise = call[d].promise /\ call'[d].input = call[d].input
        /\ (call'[d].at = "idle" <=> call[d].at = "idle")
    BY <1>4 DEF Kept
  <2>2. call[d].at # "idle" => /\ call'[call[d].promise].at # "idle"
                               /\ call'[call[d].promise].input = call[d].input
    BY <1>1 DEF PromisesMatch, At
  <2>. QED
    BY <1>4, <2>1, <2>2 DEF Kept, PromisesMatch
<1>. QED
  BY <1>2, <1>3, <1>4, CallsAreKept

\* Entries go on being of open promises: what settles one removes its entry.
LEMMA EntriesAreOpenStep ==
    TypeOK /\ EntriesAreOpen /\ PromisesMatch /\ [Next]_vars => EntriesAreOpen'
<1>. DEFINE Asking == {"sending", "sent", "waiting", "dead"}
<1>. SUFFICES ASSUME TypeOK, EntriesAreOpen, PromisesMatch, [Next]_vars,
                     NEW w \in Workers, NEW i \in Heads, NEW d \in Calls, pending'[w][i] = d
              PROVE  /\ call'[d].worker = w /\ call'[d].input = i
                     /\ call'[d].promise = d /\ call'[d].settled = "open"
                     /\ call'[d].at \in Asking
  <2>1. TypeOK /\ [Next]_vars => pending' \in [Workers -> [Heads -> Calls \union {Nobody}]]
    BY TypeStep DEF TypeOK
  <2>. QED
    BY <2>1 DEF EntriesAreOpen
<1>. DEFINE Goal == /\ call'[d].worker = w /\ call'[d].input = i
                    /\ call'[d].promise = d /\ call'[d].settled = "open"
                    /\ call'[d].at \in Asking
<1>. call \in [Calls -> CallState] /\ call[d] \in CallState
  BY DEF TypeOK
<1>. pending \in [Workers -> [Heads -> Calls \union {Nobody}]] /\ Nobody \notin Calls
  BY DEF TypeOK, Calls, Nobody
<1>0. ASSUME pending[w][i] = d
      PROVE  /\ call[d].worker = w /\ call[d].input = i /\ call[d].promise = d
             /\ call[d].settled = "open" /\ call[d].at \in Asking
  BY <1>0 DEF EntriesAreOpen
<1>a. ASSUME pending[w][i] = d, call'[d].settled = "open", call'[d].at \in Asking PROVE Goal
  <2>1. Kept(d)
    BY <1>0, <1>a, CallsAreKept DEF Begin, Request, At
  <2>. QED
    BY <1>0, <1>a, <2>1 DEF Kept
<1>b. ASSUME pending[w][i] = d, call'[d] = call[d] PROVE Goal
  BY <1>0, <1>a, <1>b
<1>1. ASSUME NEW c \in Calls, Begin(c) PROVE Goal
  <2>1. pending[w][i] = d /\ c # d
    BY <1>0, <1>1 DEF Begin, At
  <2>. QED
    BY <1>1, <1>b, <2>1 DEF Begin
<1>2. ASSUME NEW c \in Calls, Request(c) PROVE Goal
  <2>. DEFINE v == call[c].worker
              k == call[c].input
  <2>0. v \in Workers /\ k \in Heads /\ call[c].at = "ready" /\ call[c].settled = "open"
    BY <1>2 DEF CallState, Request, At, PromisesMatch
  <2>1. CASE pending[v][k] = Nobody /\ w = v /\ i = k
    <3>1. c = d
      BY <1>2, <2>0, <2>1 DEF Request
    <3>2. call' = [call EXCEPT ![c].at = "sending", ![c].promise = c]
      BY <1>2, <2>1 DEF Request
    <3>. QED
      BY <2>0, <2>1, <3>1, <3>2 DEF CallState
  <2>2. CASE ~(pending[v][k] = Nobody /\ w = v /\ i = k)
    <3>1. pending[w][i] = d
      BY <1>2, <2>0, <2>2 DEF Request
    <3>2. c # d
      BY <1>0, <2>0, <3>1
    <3>. QED
      BY <1>2, <1>b, <3>1, <3>2 DEF Request
  <2>. QED
    BY <2>1, <2>2
<1>3. ASSUME NEW c \in Calls, Commit(c) PROVE Goal
  <2>1. pending[w][i] = d
    BY <1>3 DEF Commit
  <2>2. call' = [call EXCEPT ![c].at = "sent"]
    BY <1>3 DEF Commit
  <2>. QED
    BY <1>0, <1>a, <2>1, <2>2 DEF CallState
<1>4. ASSUME NEW c \in Calls, Forget(c)
      PROVE  pending[w][i] = d /\ (call[c].worker = w => call[c].input # i)
  <2>1. call[c].worker \in Workers /\ call[c].input \in Heads
    BY DEF CallState
  <2>2. pending' = [pending EXCEPT ![call[c].worker][call[c].input] = Nobody]
    BY <1>4 DEF Forget
  <2>. QED
    BY <2>1, <2>2
<1>5. ASSUME NEW c \in Calls, Sent(c) PROVE Goal
  <2>1. CASE call[c].settled = "open"
    <3>1. pending[w][i] = d /\ call' = [call EXCEPT ![c].at = "waiting"]
      BY <1>5, <2>1 DEF Sent
    <3>. QED
      BY <1>0, <1>a, <3>1 DEF CallState
  <2>2. CASE call[c].settled = "resolved"
    <3>1. pending[w][i] = d /\ call' = [call EXCEPT ![c].at = "answered"]
      BY <1>5, <2>2 DEF Sent
    <3>2. c # d
      BY <1>0, <2>2, <3>1
    <3>. QED
      BY <1>b, <3>1, <3>2
  <2>3. CASE call[c].settled \notin {"open", "resolved"}
    <3>1. Forget(c) /\ call' = [call EXCEPT ![c] = Ended(call[c], "over")]
      BY <1>5, <2>3 DEF Sent
    <3>2. pending[w][i] = d /\ c # d
      BY <1>0, <1>4, <3>1
    <3>. QED
      BY <1>b, <3>1, <3>2
  <2>. QED
    BY <2>1, <2>2, <2>3
<1>6. ASSUME NEW c \in Calls, NEW ends, Rejected(c, ends), Forget(c), ends \subseteq {c}
      PROVE  Goal
  <2>1. pending[w][i] = d /\ c # d
    BY <1>0, <1>4, <1>6
  <2>2. d \notin Waiting(c)
    BY <1>0, <2>1 DEF Waiting
  <2>3. call'[d].settled = "open" /\ call'[d].at \in {call[d].at, "dead"}
    BY <1>0, <1>6, <2>1, <2>2, RejectedEffect
  <2>. QED
    BY <1>0, <1>a, <2>1, <2>3
<1>7. ASSUME NEW c \in Calls, SendFails(c) PROVE Goal
  <2>1. CASE call[c].settled = "open"
    BY <1>6, <1>7, <2>1 DEF SendFails
  <2>2. CASE call[c].settled # "open"
    <3>1. Forget(c) /\ call' = [call EXCEPT ![c] = Ended(call[c], "over")]
      BY <1>7, <2>2 DEF SendFails
    <3>2. pending[w][i] = d /\ c # d
      BY <1>0, <1>4, <3>1
    <3>. QED
      BY <1>b, <3>1, <3>2
  <2>. QED
    BY <2>1, <2>2
<1>8. ASSUME NEW c \in Calls, TimerFires(c) PROVE Goal
  BY <1>6, <1>8 DEF TimerFires
<1>9. ASSUME NEW c \in Calls, Post(c) \/ GivesUp(c) \/ Conclude(c) PROVE Goal
  <2>1. pending[w][i] = d /\ call[c].at \in {"ready", "answered"}
    BY <1>9 DEF Post, GivesUp, Conclude, At
  <2>2. c # d
    BY <1>0, <2>1
  <2>3. call'[d] = call[d]
    BY <1>9, <2>2 DEF Post, GivesUp, Conclude
  <2>. QED
    BY <1>b, <2>1, <2>3
<1>10. ASSUME NEW v \in Workers, NEW job \in results, Deliver(v, job) PROVE Goal
  <2>. DEFINE c == pending[v][job.input]
  <2>0. job.input \in Heads
    BY DEF TypeOK, ResultJob
  <2>1. CASE c = Nobody
    BY <1>10, <1>b, <2>1 DEF Deliver
  <2>2. CASE c # Nobody
    <3>1. /\ pending' = [pending EXCEPT ![v][job.input] = Nobody]
          /\ call' = Resolved(c, job.output)
      BY <1>10, <2>2 DEF Deliver
    <3>2. c \in Calls /\ call[c].worker = v /\ call[c].input = job.input
      BY <2>0, <2>2, EntryIsCall DEF EntriesAreOpen
    <3>3. pending[w][i] = d /\ ~(v = w /\ job.input = i)
      BY <2>0, <3>1
    <3>. HIDE DEF c
    <3>4. c # d
      BY <1>0, <3>2, <3>3
    <3>5. d \notin Waiting(c)
      BY <1>0, <3>3, <3>4 DEF Waiting
    <3>6. call'[d].settled = "open" /\ call'[d].at = call[d].at
      BY <1>0, <3>1, <3>2, <3>3, <3>4, <3>5, ResolvedEffect
    <3>. QED
      BY <1>0, <1>a, <3>3, <3>6
  <2>. QED
    BY <2>1, <2>2
<1>11. ASSUME NEW v \in Workers, Crash(v) PROVE Goal
  <2>1. /\ pending[w][i] = d
        /\ call'[d] = IF On(d, v) THEN [call[d] EXCEPT !.at = "dead"] ELSE call[d]
    BY <1>11 DEF Crash
  <2>. QED
    BY <1>0, <1>a, <2>1 DEF CallState
<1>12. ASSUME NEW v \in Workers, Stop(v) PROVE Goal
  <2>1. pending' = [pending EXCEPT ![v] = [k \in Heads |-> Nobody]]
    BY <1>12 DEF Stop
  <2>2. pending[w][i] = d /\ w # v
    BY <2>1
  <2>3. ~On(d, v)
    BY <1>0, <2>2 DEF On
  <2>4. call'[d] = call[d]
    BY <1>12, <2>3 DEF Stop
  <2>. QED
    BY <1>b, <2>2, <2>4
<1>13. ASSUME UNCHANGED <<pending, call>> PROVE Goal
  BY <1>13, <1>b
<1>14. \/ UNCHANGED <<pending, call>>
       \/ \E c \in Calls :
            \/ Begin(c) \/ Request(c) \/ Commit(c) \/ Sent(c) \/ SendFails(c)
            \/ TimerFires(c) \/ Post(c) \/ GivesUp(c) \/ Conclude(c)
       \/ \E v \in Workers : \E job \in results : Deliver(v, job)
       \/ \E v \in Workers : Crash(v) \/ Stop(v)
  BY NextCases DEF Push, Serve, ServeFails, Launch, vars
<1>. HIDE DEF Goal
<1>15. Goal
  BY <1>1, <1>2, <1>3, <1>5, <1>7, <1>8, <1>9, <1>10, <1>11, <1>12, <1>13, <1>14
<1>. QED
  BY <1>15 DEF Goal

\* The service takes back no answer.
LEMMA ServedGrows ==
    ASSUME TypeOK, [Next]_vars, NEW i \in Heads
    PROVE  served[i] \subseteq served'[i]
<1>. served \in [Heads -> SUBSET Outputs]
  BY DEF TypeOK
<1>1. ASSUME NEW c \in Calls, Post(c) PROVE served[i] \subseteq served'[i]
  BY <1>1 DEF Post
<1>2. ASSUME NEW job \in requests, Serve(job) \/ ServeFails(job) PROVE served[i] \subseteq served'[i]
  BY <1>2 DEF Serve, ServeFails
<1>3. \/ UNCHANGED served
      \/ \E c \in Calls : Post(c)
      \/ \E job \in requests : Serve(job) \/ ServeFails(job)
  BY NextCases DEF Push, Begin, Request, Commit, Sent, SendFails, TimerFires, GivesUp, Conclude,
     Deliver, Crash, Stop, Launch, queues, vars
<1>. QED
  BY <1>1, <1>2, <1>3

\* What is on its way is what the service has answered.
LEMMA ResultsAreServedStep ==
    TypeOK /\ ResultsAreServed /\ [Next]_vars => ResultsAreServed'
<1>. SUFFICES ASSUME TypeOK, ResultsAreServed, [Next]_vars, NEW result \in results'
              PROVE  result.output \in served'[result.input]
  BY DEF ResultsAreServed
<1>. served \in [Heads -> SUBSET Outputs] /\ results \subseteq ResultJob
  BY DEF TypeOK
<1>1. ASSUME NEW old \in results, result.input = old.input, result.output = old.output
      PROVE  result.output \in served'[result.input]
  <2>1. old.input \in Heads
    BY DEF ResultJob
  <2>. QED
    BY <1>1, <2>1, ServedGrows DEF ResultsAreServed
<1>2. ASSUME NEW job \in requests, NEW output \in Outputs, results' = Answered(job, output),
             served' = [served EXCEPT ![job.input] = @ \union {output}]
      PROVE  result.output \in served'[result.input]
  <2>1. job.input \in Heads
    BY DEF TypeOK, RequestJob
  <2>2. CASE result \in results
    BY <1>1, <2>2
  <2>3. CASE result \notin results
    <3>1. result.input = job.input /\ result.output = output
      BY <1>2, <2>3 DEF Answered
    <3>. QED
      BY <1>2, <2>1, <3>1
  <2>. QED
    BY <2>2, <2>3
<1>3. ASSUME NEW w \in Workers, NEW job \in results, Deliver(w, job)
      PROVE  result.output \in served'[result.input]
  <2>1. \/ result \in results
        \/ result = [job EXCEPT !.tries = @ - 1]
    BY <1>3 DEF Deliver, Again
  <2>2. job \in ResultJob
    OBVIOUS
  <2>3. CASE result = [job EXCEPT !.tries = @ - 1]
    <3>1. result.input = job.input /\ result.output = job.output
      BY <2>2, <2>3 DEF ResultJob
    <3>. QED
      BY <1>1, <3>1
  <2>. QED
    BY <1>1, <2>1, <2>3
<1>4. ASSUME UNCHANGED results PROVE result.output \in served'[result.input]
  BY <1>1, <1>4
<1>5. \/ UNCHANGED results
      \/ \E job \in requests : \E output \in Outputs :
            /\ results' = Answered(job, output)
            /\ served' = [served EXCEPT ![job.input] = @ \union {output}]
      \/ \E w \in Workers : \E job \in results : Deliver(w, job)
  BY NextCases DEF Push, Begin, Request, Commit, Sent, SendFails, TimerFires, Post, GivesUp,
     Conclude, Serve, ServeFails, Crash, Stop, Launch, queues, vars
<1>. QED
  BY <1>2, <1>3, <1>4, <1>5

\* Who has been told an answer.
Told(d) ==
    call[d].at = "answered" \/ (call[d].at \in {"sending", "sent"} /\ call[d].settled = "resolved")

\* Answers reach calls with the input they are for, and only those that pass let one pass.
LEMMA AnswersStep ==
    TypeOK /\ SoundInv /\ [Next]_vars => AnswersAreServed' /\ PassesAreDue'
<1>. DEFINE Sound(d) ==
              /\ Told(d)' => call'[d].answer \in served'[call'[d].input]
              /\ call'[d].outcome = "PASSED" =>
                   /\ call'[d].at = "over"
                   /\ call'[d].answer \in served'[call'[d].input]
                   /\ Passes(call'[d].input, call'[d].answer)
<1>. SUFFICES ASSUME TypeOK, SoundInv, [Next]_vars, NEW d \in Calls PROVE Sound(d)
  BY DEF AnswersAreServed, PassesAreDue, Told, At, Passes
<1>. call \in [Calls -> CallState] /\ call[d] \in CallState /\ call[d].input \in Heads
  BY DEF TypeOK, CallState
<1>. served \in [Heads -> SUBSET Outputs]
  BY DEF TypeOK
<1>t. /\ Told(d) => call[d].answer \in served[call[d].input]
      /\ call[d].outcome = "PASSED" => /\ call[d].at = "over"
                                       /\ call[d].answer \in served[call[d].input]
                                       /\ Passes(call[d].input, call[d].answer)
  BY DEF SoundInv, AnswersAreServed, PassesAreDue, Told, At
<1>a. ASSUME call'[d].input = call[d].input, call'[d].answer = call[d].answer,
             Told(d)' => Told(d),
             call'[d].outcome = "PASSED" => call[d].outcome = "PASSED" /\ call'[d].at = "over"
      PROVE  Sound(d)
  BY <1>a, <1>t, ServedGrows
<1>b. ASSUME call'[d] = call[d] PROVE Sound(d)
  BY <1>a, <1>b, <1>t DEF Told
<1>1. ASSUME NEW c \in Calls, Begin(c) PROVE Sound(d)
  <2>1. CASE c = d
    <3>1. call'[d].at = "ready" /\ call'[d].outcome = call[d].outcome /\ call[d].at = "idle"
      BY <1>1, <2>1 DEF Begin, At, CallState
    <3>. QED
      BY <1>t, <3>1 DEF Told
  <2>2. CASE c # d
    BY <1>1, <1>b, <2>2 DEF Begin
  <2>. QED
    BY <2>1, <2>2
<1>2. ASSUME NEW c \in Calls, Request(c) PROVE Sound(d)
  <2>1. CASE c = d
    <3>1. /\ call'[d].at \in {"sending", "waiting"} /\ call'[d].outcome = call[d].outcome
          /\ call'[d].settled = call[d].settled /\ call[d].at = "ready"
      BY <1>2, <2>1 DEF Request, At, CallState
    <3>2. call[d].settled = "open"
      BY <3>1 DEF SoundInv, PromisesMatch
    <3>. QED
      BY <1>t, <3>1, <3>2 DEF Told
  <2>2. CASE c # d
    BY <1>2, <1>b, <2>2 DEF Request
  <2>. QED
    BY <2>1, <2>2
<1>3. ASSUME NEW c \in Calls, Commit(c) PROVE Sound(d)
  <2>1. call[c].at = "sending" /\ call' = [call EXCEPT ![c].at = "sent"]
    BY <1>3 DEF Commit, At
  <2>. QED
    BY <1>a, <1>t, <2>1 DEF CallState, Told
<1>x. ASSUME NEW c \in Calls, call' = [call EXCEPT ![c] = Ended(call[c], "over")] PROVE Sound(d)
  BY <1>a, <1>t, <1>x DEF CallState, Told, Ended
<1>4. ASSUME NEW c \in Calls, Sent(c) PROVE Sound(d)
  <2>0. call[c].at = "sent"
    BY <1>4 DEF Sent, At
  <2>1. CASE call[c].settled = "open"
    <3>1. call' = [call EXCEPT ![c].at = "waiting"]
      BY <1>4, <2>1 DEF Sent
    <3>. QED
      BY <1>a, <1>t, <2>0, <3>1 DEF CallState, Told
  <2>2. CASE call[c].settled = "resolved"
    <3>1. call' = [call EXCEPT ![c].at = "answered"]
      BY <1>4, <2>2 DEF Sent
    <3>. QED
      BY <1>a, <1>t, <2>0, <2>2, <3>1 DEF CallState, Told
  <2>3. CASE call[c].settled \notin {"open", "resolved"}
    BY <1>4, <1>x, <2>3 DEF Sent
  <2>. QED
    BY <2>1, <2>2, <2>3
<1>5. ASSUME NEW c \in Calls, NEW ends, Rejected(c, ends) PROVE Sound(d)
  <2>1. On(d, call[c].worker) => call[d].at # "over"
    BY DEF On, Under
  <2>2. /\ call'[d].input = call[d].input /\ call'[d].answer = call[d].answer
        /\ call'[d].at \in {call[d].at, "dead", "over"}
        /\ call'[d].settled \in {call[d].settled, "rejected"}
        /\ call'[d].outcome = "PASSED" => call[d].outcome = "PASSED"
        /\ call[d].at = "over" => call'[d].at = "over"
    BY <1>5, <2>1, RejectedEffect
  <2>. QED
    BY <1>a, <1>t, <2>2 DEF Told
<1>6. ASSUME NEW c \in Calls, SendFails(c) PROVE Sound(d)
  BY <1>5, <1>6, <1>x DEF SendFails
<1>7. ASSUME NEW c \in Calls, TimerFires(c) PROVE Sound(d)
  BY <1>5, <1>7 DEF TimerFires
<1>8. ASSUME NEW c \in Calls, Post(c) PROVE Sound(d)
  <2>1. PICK output \in Outputs :
          /\ call' = [call EXCEPT ![c].at = "answered", ![c].answer = output]
          /\ served' = [served EXCEPT ![call[c].input] = @ \union {output}]
    BY <1>8 DEF Post
  <2>2. call[c].at = "ready"
    BY <1>8 DEF Post, At
  <2>3. CASE c = d
    <3>1. call'[d].answer = output /\ call'[d].input = call[d].input
          /\ call'[d].outcome = call[d].outcome
      BY <2>1, <2>3 DEF CallState
    <3>2. output \in served'[call[d].input]
      BY <2>1, <2>3
    <3>. QED
      BY <1>t, <2>2, <2>3, <3>1, <3>2
  <2>4. CASE c # d
    BY <1>b, <2>1, <2>4
  <2>. QED
    BY <2>3, <2>4
<1>9. ASSUME NEW c \in Calls, GivesUp(c) PROVE Sound(d)
  BY <1>9, <1>x DEF GivesUp
<1>10. ASSUME NEW c \in Calls, Conclude(c) PROVE Sound(d)
  <2>1. CASE c = d
    <3>1. /\ call'[d].input = call[d].input /\ call'[d].answer = call[d].answer
          /\ call'[d].at = "over"
          /\ call'[d].outcome = IF Passes(call[d].input, call[d].answer)
                                THEN "PASSED" ELSE "INCOMPLETE"
      BY <1>10, <2>1 DEF Conclude, CallState
    <3>2. call[d].answer \in served[call[d].input]
      BY <1>10, <1>t, <2>1 DEF Conclude, At, Told
    <3>. QED
      BY <3>1, <3>2, ServedGrows DEF Told
  <2>2. CASE c # d
    BY <1>10, <1>b, <2>2 DEF Conclude
  <2>. QED
    BY <2>1, <2>2
<1>11. ASSUME NEW w \in Workers, NEW job \in results, Deliver(w, job) PROVE Sound(d)
  <2>0. job.input \in Heads
    BY DEF TypeOK, ResultJob
  <2>. DEFINE c == pending[w][job.input]
  <2>1. CASE c = Nobody
    BY <1>11, <1>b, <2>1 DEF Deliver
  <2>2. CASE c # Nobody
    <3>1. call' = Resolved(c, job.output)
      BY <1>11, <2>2 DEF Deliver
    <3>2. c \in Calls /\ call[c].input = job.input
          /\ call[c].at \in {"sending", "sent", "waiting", "dead"}
      BY <2>0, <2>2, EntryIsCall DEF SoundInv, EntriesAreOpen
    <3>. HIDE DEF c
    <3>3. d \in Waiting(c) => call[d].at = "waiting" /\ call[d].input = job.input
      BY <3>2 DEF Waiting, At, SoundInv, PromisesMatch
    <3>4. job.output \in served'[job.input]
      BY <2>0, ServedGrows DEF SoundInv, ResultsAreServed
    <3>5. CASE d = c \/ d \in Waiting(c)
      BY <1>t, <3>1, <3>2, <3>3, <3>4, <3>5, ResolvedEffect
    <3>6. CASE d # c /\ d \notin Waiting(c)
      <4>1. /\ call'[d].input = call[d].input /\ call'[d].answer = call[d].answer
            /\ call'[d].at = call[d].at /\ call'[d].settled = call[d].settled
            /\ call'[d].outcome = call[d].outcome
        BY <3>1, <3>2, <3>6, ResolvedEffect
      <4>. QED
        BY <1>a, <1>t, <4>1 DEF Told
    <3>. QED
      BY <3>5, <3>6
  <2>. QED
    BY <2>1, <2>2
<1>12. ASSUME NEW w \in Workers, Crash(w) PROVE Sound(d)
  <2>1. call'[d] = IF On(d, w) THEN [call[d] EXCEPT !.at = "dead"] ELSE call[d]
    BY <1>12 DEF Crash
  <2>2. On(d, w) => call[d].at # "over"
    BY DEF On, Under
  <2>. QED
    BY <1>a, <1>b, <1>t, <2>1, <2>2 DEF CallState, Told
<1>13. ASSUME NEW w \in Workers, Stop(w) PROVE Sound(d)
  <2>1. \/ call'[d] = call[d]
        \/ On(d, w) /\ call'[d] = [call[d] EXCEPT !.at = "dead"]
        \/ call'[d] = Ended(call[d], "over")
    BY <1>13 DEF Stop
  <2>2. On(d, w) => call[d].at # "over"
    BY DEF On, Under
  <2>. QED
    BY <1>a, <1>b, <1>t, <2>1, <2>2 DEF CallState, Told, Ended
<1>14. ASSUME UNCHANGED call PROVE Sound(d)
  BY <1>14, <1>b
<1>15. \/ UNCHANGED call
       \/ \E c \in Calls :
            \/ Begin(c) \/ Request(c) \/ Commit(c) \/ Sent(c) \/ SendFails(c)
            \/ TimerFires(c) \/ Post(c) \/ GivesUp(c) \/ Conclude(c)
       \/ \E w \in Workers : \E job \in results : Deliver(w, job)
       \/ \E w \in Workers : Crash(w) \/ Stop(w)
  BY NextCases DEF Push, Serve, ServeFails, Launch, vars
<1>. HIDE DEF Sound
<1>. QED
  BY <1>1, <1>2, <1>3, <1>4, <1>6, <1>7, <1>8, <1>9, <1>10, <1>11, <1>12, <1>13, <1>14, <1>15

LEMMA InitiallySound == Init => SoundInv
<1>. SUFFICES ASSUME Init PROVE SoundInv
  OBVIOUS
<1>1. \A c \in Calls : /\ call[c].at = "idle" /\ call[c].promise = c
                       /\ call[c].settled = "open" /\ call[c].outcome = "none"
  BY DEF Init
<1>2. EntriesAreOpen
  BY DEF Init, EntriesAreOpen
<1>3. ResultsAreServed
  BY DEF Init, ResultsAreServed
<1>. QED
  BY <1>1, <1>2, <1>3 DEF SoundInv, PromisesMatch, AnswersAreServed, PassesAreDue, At

LEMMA SoundInvariant == Spec => []SoundInv
<1>1. TypeOK /\ SoundInv /\ [Next]_vars => SoundInv'
  BY EntriesAreOpenStep, PromisesMatchStep, AnswersStep, ResultsAreServedStep DEF SoundInv
<1>. QED
  BY InitiallySound, <1>1, TypeCorrect, PTL DEF Spec

\* Lines of findings that lie in the evidence are lines of the evidence.
LEMMA LocatedLines ==
    ASSUME NEW findings \in SUBSET Ranges, NEW evidence \in SUBSET Ranges,
           \A finding \in findings : Located(finding, evidence)
    PROVE  LinesOf(findings) \subseteq LinesOf(evidence)
<1>. SUFFICES ASSUME NEW finding \in findings, NEW n \in finding.first..finding.last
              PROVE  [file |-> finding.file, line |-> n] \in LinesOf(evidence)
  <2>1. ASSUME NEW x \in LinesOf(findings)
        PROVE  \E finding \in findings : \E n \in finding.first..finding.last :
                 x = [file |-> finding.file, line |-> n]
    <3>1. PICK lines \in {{[file |-> range.file, line |-> n] : n \in range.first..range.last} :
                              range \in findings} : x \in lines
      BY DEF LinesOf
    <3>. QED
      BY <3>1
  <2>. QED
    BY <2>1
<1>1. PICK range \in evidence : /\ range.file = finding.file
                                /\ range.first <= finding.first
                                /\ range.last >= finding.last
  BY DEF Located
<1>2. n \in range.first..range.last
  BY <1>1 DEF Ranges
<1>. QED
  BY <1>1, <1>2 DEF LinesOf

\* The findings of a review are ranges of lines.
LEMMA FindingsAreRanges ==
    ASSUME NEW output \in Outputs
    PROVE  output.findings \in SUBSET Ranges
<1>1. PICK answer \in Answers : output = RunAgentReview(answer)
  BY DEF Outputs
<1>2. answer.findings \in SUBSET Ranges
  BY AnswersAssumption
<1>3. output.findings \in {{}, answer.findings}
  BY <1>1 DEF RunAgentReview
<1>. QED
  BY <1>2, <1>3

\* What has happened has happened.
LEMMA SpentGrows ==
    ASSUME TypeOK, [Next]_vars, NEW e \in Events
    PROVE  spent'[e] \in Nat /\ (spent'[e] = 0 => spent[e] = 0)
<1>. spent \in [Events -> Nat]
  BY DEF TypeOK
<1>1. ASSUME NEW f \in Events, Spend(f) PROVE spent'[e] \in Nat /\ spent'[e] >= spent[e]
  BY <1>1 DEF Spend
<1>2. UNCHANGED spent \/ \E f \in Events : Spend(f)
  BY NextCases DEF Push, Begin, Request, Commit, Sent, SendFails, TimerFires, Post, GivesUp,
     Conclude, Serve, ServeFails, Deliver, Crash, Stop, Launch, vars, Events
<1>. QED
  BY <1>1, <1>2

\* As long as nobody has pushed, calls prepare their inputs from the Run's head.
HeadInv == spent["push"] = 0 => head = RunHead /\ \A c \in Calls : call[c].input = RunHead

LEMMA HeadStep == TypeOK /\ EntriesAreOpen /\ HeadInv /\ [Next]_vars => HeadInv'
<1>. SUFFICES ASSUME TypeOK, EntriesAreOpen, HeadInv, [Next]_vars, spent'["push"] = 0
              PROVE  head' = RunHead /\ \A d \in Calls : call'[d].input = RunHead
  BY DEF HeadInv
<1>. call \in [Calls -> CallState] /\ "push" \in Events
  BY DEF TypeOK, Events
<1>1. head = RunHead /\ \A d \in Calls : call[d].input = RunHead
  BY SpentGrows DEF HeadInv
<1>2. ~Push
  <2>. SUFFICES ASSUME Push PROVE FALSE
    OBVIOUS
  <2>. QED
    BY DEF Push, Spend, TypeOK
<1>3. head' = head
  BY <1>2, NextCases DEF Begin, Request, Commit, Sent, SendFails, TimerFires, Post, GivesUp,
     Conclude, Serve, ServeFails, Deliver, Crash, Stop, Launch, vars
<1>4. ASSUME NEW d \in Calls PROVE call'[d].input = RunHead
  <2>. call[d] \in CallState
    OBVIOUS
  <2>1. CASE Begin(d)
    BY <1>1, <2>1 DEF Begin, CallState
  <2>2. CASE Request(d)
    BY <1>1, <2>2 DEF Request, CallState
  <2>3. CASE Kept(d)
    BY <1>1, <2>3 DEF Kept
  <2>. QED
    BY <2>1, <2>2, <2>3, CallsAreKept
<1>. QED
  BY <1>1, <1>3, <1>4

LEMMA HeadInvariant == Spec => []HeadInv
<1>1. Init => HeadInv
  BY DEF Init, HeadInv
<1>2. TypeOK /\ SoundInv /\ HeadInv /\ [Next]_vars => HeadInv'
  BY HeadStep DEF SoundInv
<1>. QED
  BY <1>1, <1>2, SoundInvariant, TypeCorrect, PTL DEF Spec

\* A review passes only on an answer that the service gave to the input the call prepared and,
\* until somebody pushes, on findings in lines that the Run's head changes, wherever and however
\* late results arrive; after a push, in lines that the head it read changes. Of the reader of
\* diffs it uses what EvidenceIsSound says: nothing of a diff with a header of another file among its
\* added lines, as the property does (EvidenceAssumption of the run evaluates it for small edits,
\* those that mislead the reader included).
THEOREM PassedReviewsSound ==
    ASSUME \A h \in Heads : EvidenceIsSound(Edits[h])
    PROVE  Spec => []PassedReviewsAreSound
<1>1. ASSUME NEW h \in Heads
      PROVE  /\ Evidence[h] \in SUBSET Ranges
             /\ NamesNoOtherFile(Edits[h]) => LinesOf(Evidence[h]) \subseteq ChangedLines[h]
  <2>1. Evidence[h] = EvidenceOf(Diff(Edits[h])) /\ ChangedLines[h] = ChangedBy(Edits[h])
    BY DEF Evidence, ChangedLines
  <2>2. /\ EvidenceOf(Diff(Edits[h])) \subseteq Ranges
        /\ NamesNoOtherFile(Edits[h]) =>
             LinesOf(EvidenceOf(Diff(Edits[h]))) \subseteq ChangedBy(Edits[h])
    BY DEF EvidenceIsSound
  <2>. QED
    BY <2>1, <2>2
<1>2. TypeOK /\ SoundInv /\ HeadInv => PassedReviewsAreSound
  <2>. SUFFICES ASSUME TypeOK, SoundInv, HeadInv, NEW c \in Calls, call[c].outcome = "PASSED"
                PROVE  /\ call[c].answer \in served[call[c].input]
                       /\ call[c].answer.refused = "no"
                       /\ NamesNoOtherFile(Edits[EvidenceHead(c)]) =>
                            LinesOf(call[c].answer.findings) \subseteq ChangedLines[EvidenceHead(c)]
    BY DEF PassedReviewsAreSound
  <2>1. call[c].input \in Heads /\ EvidenceHead(c) = call[c].input
    BY DEF TypeOK, CallState, HeadInv, EvidenceHead
  <2>2. call[c].answer \in served[call[c].input] /\ Passes(call[c].input, call[c].answer)
    BY DEF SoundInv, PassesAreDue
  <2>3. call[c].answer.findings \in SUBSET Ranges
    BY <2>1, <2>2, FindingsAreRanges DEF TypeOK
  <2>4. LinesOf(call[c].answer.findings) \subseteq LinesOf(Evidence[call[c].input])
    BY <1>1, <2>1, <2>2, <2>3, LocatedLines DEF Passes
  <2>. QED
    BY <1>1, <2>1, <2>2, <2>4 DEF Passes
<1>. QED
  BY <1>2, SoundInvariant, HeadInvariant, TypeCorrect, PTL

-----------------------------------------------------------------------------
\* The inductive invariant behind WaitersAreServed.

\* A call under way is in a Worker that is alive, a dead one in a dead Worker; without a
\* rollout there is one at a time.
CallsAreInWorkers ==
    \A c \in Calls : /\ Under(c) => workers[call[c].worker] = "alive"
                     /\ At(c, "dead") => workers[call[c].worker] = "dead"

OneWorkerAtATime ==
    spent["rollout"] = 0 => \A v, w \in Alive : v = w

\* As long as no timer overtakes a send, the promise that a call waits for, or will when
\* its send is over, is the one its Worker has for its input.
Asks(c) ==
    At(c, "waiting") \/ (call[c].at \in {"sending", "sent"} /\ call[c].settled = "open")

AskersAreRegistered ==
    spent["slow"] = 0 => \A c \in Calls :
        Asks(c) => pending[call[c].worker][call[c].input] = call[c].promise

NoneIsRejectedInItsSend ==
    spent["slow"] = 0 => \A c \in Calls :
        call[c].at \in {"sending", "sent"} => call[c].settled # "rejected"

\* A job has the input of the call that asked for it.
JobsMatch ==
    \A job \in requests \union results :
        ~At(job.from, "idle") /\ call[job.from].input = job.input

\* An open promise whose request is committed has a job of its own.
AskedMeansUnderWay ==
    spent["failure"] + spent["slow"] + spent["rollout"] = 0 =>
        \A c \in Calls :
            call[c].at \in {"sent", "waiting"} /\ call[c].promise = c /\ call[c].settled = "open" =>
                \E job \in requests \union results : job.from = c

ServedInv ==
    /\ EntriesAreOpen /\ PromisesMatch
    /\ CallsAreInWorkers /\ OneWorkerAtATime
    /\ AskersAreRegistered /\ NoneIsRejectedInItsSend
    /\ JobsMatch /\ AskedMeansUnderWay
-----------------------------------------------------------------------------
\* A step that spends an event counts it.
LEMMA SpendCounts ==
    ASSUME TypeOK, NEW e \in Events, Spend(e)
    PROVE  spent'[e] # 0
  BY DEF Spend, TypeOK

\* Calls go on in Workers that are alive, and die with them.
LEMMA CallsAreInWorkersStep ==
    TypeOK /\ EntriesAreOpen /\ CallsAreInWorkers /\ [Next]_vars => CallsAreInWorkers'
<1>. DEFINE Lives(d) == /\ call'[d].at \notin {"idle", "over", "dead"} =>
                             workers'[call'[d].worker] = "alive"
                        /\ call'[d].at = "dead" => workers'[call'[d].worker] = "dead"
<1>. SUFFICES ASSUME TypeOK, EntriesAreOpen, CallsAreInWorkers, [Next]_vars, NEW d \in Calls
              PROVE  Lives(d)
  BY DEF CallsAreInWorkers, Under, At
<1>. call \in [Calls -> CallState] /\ call[d] \in CallState /\ call[d].worker \in Workers
  BY DEF TypeOK, CallState
<1>. workers \in [Workers -> {"unborn", "alive", "dead"}]
  BY DEF TypeOK
<1>0. /\ call[d].at \notin {"idle", "over", "dead"} => workers[call[d].worker] = "alive"
      /\ call[d].at = "dead" => workers[call[d].worker] = "dead"
  BY DEF CallsAreInWorkers, Under, At
<1>a. ASSUME workers' = workers, call'[d].worker = call[d].worker,
             call'[d].at = call[d].at \/ call'[d].at = "over"
                \/ (/\ call[d].at \notin {"idle", "over", "dead"}
                    /\ call'[d].at \in {"sending", "sent", "waiting", "answered"})
      PROVE  Lives(d)
  BY <1>0, <1>a
<1>b. ASSUME NEW v \in Workers, workers' = [workers EXCEPT ![v] = "dead"],
             call'[d].worker = call[d].worker,
             call'[d].at \in {call[d].at, "over", "dead"},
             On(d, v) <=> call'[d].at # call[d].at,
             call'[d].at = "dead" => On(d, v) \/ call[d].at = "dead"
      PROVE  Lives(d)
  BY <1>0, <1>b DEF On, Under
<1>1. ASSUME NEW c \in Calls, Begin(c) PROVE Lives(d)
  <2>1. CASE c = d
    <3>1. PICK w \in Alive :
            call' = [call EXCEPT ![c].at = "ready", ![c].worker = w, ![c].input = head]
      BY <1>1 DEF Begin
    <3>2. workers' = workers /\ workers[w] = "alive"
      BY <1>1 DEF Begin, Alive
    <3>. QED
      BY <2>1, <3>1, <3>2 DEF CallState
  <2>2. CASE c # d
    BY <1>1, <1>a, <2>2 DEF Begin
  <2>. QED
    BY <2>1, <2>2
<1>2. ASSUME NEW c \in Calls, Request(c) PROVE Lives(d)
  <2>1. /\ workers' = workers
        /\ c = d => call'[d].at \in {"sending", "waiting"} /\ call[d].at = "ready"
                    /\ call'[d].worker = call[d].worker
        /\ c # d => call'[d] = call[d]
    BY <1>2 DEF Request, At, CallState
  <2>. QED
    BY <1>a, <2>1
<1>3. ASSUME NEW c \in Calls, Commit(c) PROVE Lives(d)
  <2>1. /\ workers' = workers /\ call[c].at = "sending"
        /\ call' = [call EXCEPT ![c].at = "sent"]
    BY <1>3 DEF Commit, At
  <2>. QED
    BY <1>a, <2>1 DEF CallState
<1>x. ASSUME NEW c \in Calls, call' = [call EXCEPT ![c] = Ended(call[c], "over")], workers' = workers
      PROVE  Lives(d)
  BY <1>a, <1>x DEF CallState, Ended
<1>4. ASSUME NEW c \in Calls, Sent(c) PROVE Lives(d)
  <2>1. \/ call' = [call EXCEPT ![c].at = "waiting"]
        \/ call' = [call EXCEPT ![c].at = "answered"]
        \/ call' = [call EXCEPT ![c] = Ended(call[c], "over")]
    BY <1>4 DEF Sent
  <2>2. workers' = workers /\ call[c].at = "sent"
    BY <1>4 DEF Sent, At
  <2>3. CASE call' = [call EXCEPT ![c].at = "waiting"]
    BY <1>a, <2>2, <2>3 DEF CallState
  <2>4. CASE call' = [call EXCEPT ![c].at = "answered"]
    BY <1>a, <2>2, <2>4 DEF CallState
  <2>. QED
    BY <1>x, <2>1, <2>2, <2>3, <2>4
<1>5. ASSUME NEW c \in Calls, NEW ends, Rejected(c, ends) PROVE Lives(d)
  <2>1. CASE Waiting(c) = {}
    <3>1. call[c].worker \in Workers
      BY DEF CallState
    <3>2. call'[d].at = (IF On(d, call[c].worker) THEN "dead" ELSE call[d].at)
          /\ workers' = [workers EXCEPT ![call[c].worker] = "dead"]
          /\ call'[d].worker = call[d].worker
      BY <1>5, <2>1, RejectedEffect
    <3>3. On(d, call[c].worker) => call[d].at # "dead"
      BY DEF On, Under
    <3>. QED
      BY <1>b, <3>1, <3>2, <3>3
  <2>2. CASE Waiting(c) # {}
    <3>1. /\ call'[d].at \in {call[d].at, "over"} /\ workers' = workers
          /\ call'[d].worker = call[d].worker
      BY <1>5, <2>2, RejectedEffect
    <3>. QED
      BY <1>a, <3>1
  <2>. QED
    BY <2>1, <2>2
<1>6. ASSUME NEW c \in Calls, SendFails(c) PROVE Lives(d)
  BY <1>5, <1>6, <1>x DEF SendFails
<1>7. ASSUME NEW c \in Calls, TimerFires(c) PROVE Lives(d)
  BY <1>5, <1>7 DEF TimerFires
<1>8. ASSUME NEW c \in Calls, Post(c) PROVE Lives(d)
  <2>1. PICK output : call' = [call EXCEPT ![c].at = "answered", ![c].answer = output]
    BY <1>8 DEF Post
  <2>2. workers' = workers /\ call[c].at = "ready"
    BY <1>8 DEF Post, At
  <2>. QED
    BY <1>a, <2>1, <2>2 DEF CallState
<1>9. ASSUME NEW c \in Calls, GivesUp(c) PROVE Lives(d)
  BY <1>9, <1>x DEF GivesUp
<1>10. ASSUME NEW c \in Calls, Conclude(c) PROVE Lives(d)
  <2>1. workers' = workers /\ call'[d].worker = call[d].worker
        /\ call'[d].at \in {call[d].at, "over"}
    BY <1>10 DEF Conclude, CallState
  <2>. QED
    BY <1>a, <2>1
<1>11. ASSUME NEW w \in Workers, NEW job \in results, Deliver(w, job) PROVE Lives(d)
  <2>0. job.input \in Heads /\ workers' = workers
    BY <1>11 DEF TypeOK, ResultJob, Deliver
  <2>. DEFINE c == pending[w][job.input]
  <2>1. CASE c = Nobody
    BY <1>11, <1>a, <2>0, <2>1 DEF Deliver
  <2>2. CASE c # Nobody
    <3>1. call' = Resolved(c, job.output) /\ c \in Calls
      BY <1>11, <2>0, <2>2, EntryIsCall DEF Deliver
    <3>. HIDE DEF c
    <3>2. d \in Waiting(c) => call[d].at = "waiting"
      BY DEF Waiting, At
    <3>3. call'[d].worker = call[d].worker
          /\ call'[d].at = IF d \in Waiting(c) THEN "answered" ELSE call[d].at
      BY <3>1, ResolvedEffect
    <3>. QED
      BY <1>a, <2>0, <3>2, <3>3
  <2>. QED
    BY <2>1, <2>2
<1>12. ASSUME NEW w \in Workers, Crash(w) PROVE Lives(d)
  <2>1. /\ call'[d] = IF On(d, w) THEN [call[d] EXCEPT !.at = "dead"] ELSE call[d]
        /\ workers' = [workers EXCEPT ![w] = "dead"]
    BY <1>12 DEF Crash
  <2>2. On(d, w) => call[d].at # "dead"
    BY DEF On, Under
  <2>. QED
    BY <1>b, <2>1, <2>2 DEF CallState
<1>13. ASSUME NEW w \in Workers, Stop(w) PROVE Lives(d)
  <2>1. /\ \/ ~On(d, w) /\ call'[d] = call[d]
           \/ On(d, w) /\ call'[d] = [call[d] EXCEPT !.at = "dead"]
           \/ On(d, w) /\ call'[d] = Ended(call[d], "over")
        /\ workers' = [workers EXCEPT ![w] = "dead"]
    BY <1>13 DEF Stop
  <2>2. On(d, w) => call[d].at \notin {"dead", "over"}
    BY DEF On, Under
  <2>. QED
    BY <1>b, <2>1, <2>2 DEF CallState, Ended
<1>14. ASSUME NEW w \in Workers, Launch(w) PROVE Lives(d)
  <2>1. call' = call /\ workers' = [workers EXCEPT ![w] = "alive"] /\ workers[w] = "unborn"
    BY <1>14 DEF Launch
  <2>. QED
    BY <1>0, <2>1
<1>15. ASSUME UNCHANGED <<call, workers>> PROVE Lives(d)
  BY <1>15, <1>a
<1>16. \/ UNCHANGED <<call, workers>>
       \/ \E c \in Calls :
            \/ Begin(c) \/ Request(c) \/ Commit(c) \/ Sent(c) \/ SendFails(c)
            \/ TimerFires(c) \/ Post(c) \/ GivesUp(c) \/ Conclude(c)
       \/ \E w \in Workers : \E job \in results : Deliver(w, job)
       \/ \E w \in Workers : Crash(w) \/ Stop(w) \/ Launch(w)
  BY NextCases DEF Push, Serve, ServeFails, vars
<1>. HIDE DEF Lives
<1>. QED
  BY <1>1, <1>2, <1>3, <1>4, <1>6, <1>7, <1>8, <1>9, <1>10, <1>11, <1>12, <1>13, <1>14, <1>15,
     <1>16

\* Without a rollout, a Worker is launched only when none is alive.
LEMMA OneWorkerStep ==
    TypeOK /\ OneWorkerAtATime /\ [Next]_vars => OneWorkerAtATime'
<1>. SUFFICES ASSUME TypeOK, OneWorkerAtATime, [Next]_vars, spent'["rollout"] = 0,
                     NEW v \in Alive', NEW w \in Alive'
              PROVE  v = w
  BY DEF OneWorkerAtATime
<1>. workers \in [Workers -> {"unborn", "alive", "dead"}] /\ call \in [Calls -> CallState]
  BY DEF TypeOK
<1>1. \A x, y \in Alive : x = y
  BY SpentGrows DEF OneWorkerAtATime, Events
<1>2. ASSUME Alive' \subseteq Alive PROVE v = w
  BY <1>1, <1>2
<1>3. ASSUME NEW c \in Calls, NEW ends, Rejected(c, ends) PROVE v = w
  <2>1. workers' = workers \/ workers' = [workers EXCEPT ![call[c].worker] = "dead"]
    BY <1>3 DEF Rejected
  <2>2. call[c].worker \in Workers
    BY DEF CallState
  <2>. QED
    BY <1>2, <2>1, <2>2 DEF Alive
<1>4. ASSUME NEW x \in Workers, Crash(x) \/ Stop(x) PROVE v = w
  <2>1. workers' = [workers EXCEPT ![x] = "dead"]
    BY <1>4 DEF Crash, Stop
  <2>. QED
    BY <1>2, <2>1 DEF Alive
<1>5. ASSUME NEW x \in Workers, Launch(x) PROVE v = w
  <2>1. CASE Alive = {}
    BY <1>5, <2>1 DEF Launch, Alive
  <2>2. CASE Alive # {}
    BY <1>5, <2>2, SpendCounts DEF Launch, Events
  <2>. QED
    BY <2>1, <2>2
<1>6. \/ UNCHANGED workers
      \/ \E c \in Calls : \E ends \in SUBSET Calls : Rejected(c, ends)
      \/ \E x \in Workers : Crash(x) \/ Stop(x) \/ Launch(x)
  BY NextCases DEF Push, Begin, Request, Commit, Sent, SendFails, TimerFires, Post, GivesUp,
     Conclude, Serve, ServeFails, Deliver, vars
<1>. QED
  BY <1>2, <1>3, <1>4, <1>5, <1>6 DEF Alive

\* Jobs keep asking for, and answering, what their calls have asked.
LEMMA JobsMatchStep ==
    TypeOK /\ EntriesAreOpen /\ JobsMatch /\ [Next]_vars => JobsMatch'
<1>. SUFFICES ASSUME TypeOK, EntriesAreOpen, JobsMatch, [Next]_vars,
                     NEW job \in requests' \union results'
              PROVE  call'[job.from].at # "idle" /\ call'[job.from].input = job.input
  BY DEF JobsMatch, At
<1>1. ASSUME NEW old \in requests \union results, job.from = old.from, job.input = old.input
      PROVE  call'[job.from].at # "idle" /\ call'[job.from].input = job.input
  <2>1. old.from \in Calls
    BY DEF TypeOK, RequestJob, ResultJob
  <2>2. call[old.from].at # "idle" /\ call[old.from].input = old.input
    BY DEF JobsMatch, At
  <2>. QED
    BY <1>1, <2>1, <2>2, InputsStay
<1>2. ASSUME NEW c \in Calls, Commit(c)
      PROVE  call'[job.from].at # "idle" /\ call'[job.from].input = job.input
  <2>1. CASE job \in requests \union results
    BY <1>1, <2>1
  <2>2. CASE job \notin requests \union results
    <3>1. job.from = c /\ job.input = call[c].input
      BY <1>2, <2>2 DEF Commit
    <3>2. call[c].at # "idle"
      BY <1>2 DEF Commit, At
    <3>. QED
      BY <3>1, <3>2, InputsStay
  <2>. QED
    BY <2>1, <2>2
<1>3. ASSUME NEW old \in requests, NEW output, results' \subseteq Answered(old, output),
             requests' \subseteq requests \union Again(requests, old)
      PROVE  call'[job.from].at # "idle" /\ call'[job.from].input = job.input
  <2>1. \/ job \in requests \union results
        \/ job \in requests' /\ job = [old EXCEPT !.tries = @ - 1]
        \/ job = [from |-> old.from, delivery |-> old.tries, input |-> old.input,
                  output |-> output, tries |-> ResultDeliveries]
    BY <1>3 DEF Again, Answered
  <2>2. old \in RequestJob
    BY DEF TypeOK
  <2>3. \/ job \in requests \union results
        \/ job.from = old.from /\ job.input = old.input
    BY <2>1, <2>2 DEF RequestJob
  <2>. QED
    BY <1>1, <2>3
<1>4. ASSUME NEW old \in requests, Serve(old) \/ ServeFails(old)
      PROVE  call'[job.from].at # "idle" /\ call'[job.from].input = job.input
  <2>1. requests' \subseteq requests \union Again(requests, old)
    BY <1>4 DEF Serve, ServeFails
  <2>2. \E output : results' \subseteq Answered(old, output)
    BY <1>4 DEF Serve, ServeFails, Answered
  <2>. QED
    BY <1>3, <2>1, <2>2
<1>5. ASSUME NEW w \in Workers, NEW old \in results, Deliver(w, old)
      PROVE  call'[job.from].at # "idle" /\ call'[job.from].input = job.input
  <2>1. job \in requests \union results \/ job = [old EXCEPT !.tries = @ - 1]
    BY <1>5 DEF Deliver, Again
  <2>2. old \in ResultJob
    BY DEF TypeOK
  <2>3. \/ job \in requests \union results
        \/ job.from = old.from /\ job.input = old.input
    BY <2>1, <2>2 DEF ResultJob
  <2>. QED
    BY <1>1, <2>3
<1>6. ASSUME UNCHANGED <<requests, results>>
      PROVE  call'[job.from].at # "idle" /\ call'[job.from].input = job.input
  BY <1>1, <1>6
<1>7. \/ UNCHANGED <<requests, results>>
      \/ \E c \in Calls : Commit(c)
      \/ \E old \in requests : Serve(old) \/ ServeFails(old)
      \/ \E w \in Workers : \E old \in results : Deliver(w, old)
  BY NextCases DEF Push, Begin, Request, Sent, SendFails, TimerFires, Post, GivesUp,
     Conclude, Crash, Stop, Launch, queues, vars
<1>. QED
  BY <1>2, <1>4, <1>5, <1>6, <1>7

\* As long as no timer overtakes a send, none is rejected in it.
LEMMA NoneIsRejectedStep ==
    TypeOK /\ EntriesAreOpen /\ PromisesMatch /\ NoneIsRejectedInItsSend /\ [Next]_vars
        => NoneIsRejectedInItsSend'
<1>. DEFINE Good(d) == call'[d].at \in {"sending", "sent"} => call'[d].settled # "rejected"
<1>. SUFFICES ASSUME TypeOK, EntriesAreOpen, PromisesMatch, NoneIsRejectedInItsSend, [Next]_vars,
                     spent'["slow"] = 0, NEW d \in Calls
              PROVE  Good(d)
  BY DEF NoneIsRejectedInItsSend
<1>. call \in [Calls -> CallState] /\ call[d] \in CallState
  BY DEF TypeOK
<1>0. call[d].at \in {"sending", "sent"} => call[d].settled # "rejected"
  BY SpentGrows DEF NoneIsRejectedInItsSend, Events
<1>k. ASSUME call'[d].settled = call[d].settled PROVE Good(d)
  <2>1. CASE Kept(d)
    BY <1>0, <1>k, <2>1 DEF Kept
  <2>2. CASE Begin(d)
    BY <2>2 DEF Begin, CallState
  <2>3. CASE Request(d)
    <3>1. call[d].settled = "open"
      BY <2>3 DEF Request, At, PromisesMatch
    <3>. QED
      BY <1>k, <3>1
  <2>. QED
    BY <2>1, <2>2, <2>3, CallsAreKept
<1>1. ASSUME NEW c \in Calls, NEW ends, Rejected(c, ends),
             (call[c].at = "waiting" /\ call[c].promise = c) \/ c \in ends
      PROVE  Good(d)
  <2>1. c \in Waiting(c) \union ends
    BY <1>1 DEF Waiting, At
  <2>2. \/ call'[d].settled = call[d].settled
        \/ call'[d].at = "over"
    BY <1>1, <2>1, RejectedEffect
  <2>. QED
    BY <1>k, <2>2
<1>2. ASSUME NEW c \in Calls, SendFails(c) PROVE Good(d)
  <2>1. CASE call[c].settled = "open"
    BY <1>1, <1>2, <2>1 DEF SendFails
  <2>2. CASE call[c].settled # "open"
    BY <1>2, <2>2, SpendCounts DEF SendFails, Events
  <2>. QED
    BY <2>1, <2>2
<1>3. ASSUME NEW c \in Calls, TimerFires(c) PROVE Good(d)
  <2>1. CASE call[c].at = "waiting"
    BY <1>1, <1>3, <2>1 DEF TimerFires
  <2>2. CASE call[c].at # "waiting"
    BY <1>3, <2>2, SpendCounts DEF TimerFires, Events, At
  <2>. QED
    BY <2>1, <2>2
<1>4. ASSUME NEW w \in Workers, NEW job \in results, Deliver(w, job) PROVE Good(d)
  <2>0. job.input \in Heads
    BY DEF TypeOK, ResultJob
  <2>. DEFINE c == pending[w][job.input]
  <2>1. CASE c = Nobody
    BY <1>4, <1>k, <2>1 DEF Deliver
  <2>2. CASE c # Nobody
    <3>1. call' = Resolved(c, job.output) /\ c \in Calls
      BY <1>4, <2>0, <2>2, EntryIsCall DEF Deliver
    <3>. HIDE DEF c
    <3>2. call'[d].settled \in {"resolved", call[d].settled}
      BY <3>1, ResolvedEffect
    <3>. QED
      BY <1>k, <3>2
  <2>. QED
    BY <2>1, <2>2
<1>5. ASSUME NEW c \in Calls,
             \/ Begin(c) \/ Request(c) \/ Commit(c) \/ Sent(c)
             \/ Post(c) \/ GivesUp(c) \/ Conclude(c)
      PROVE  call'[d].settled = call[d].settled
  <2>1. CASE Begin(c)
    BY <2>1 DEF Begin, CallState
  <2>2. CASE Request(c)
    BY <2>2 DEF Request, CallState
  <2>3. CASE Commit(c)
    BY <2>3 DEF Commit, CallState
  <2>4. CASE Sent(c)
    <3>1. \/ call' = [call EXCEPT ![c].at = "waiting"]
          \/ call' = [call EXCEPT ![c].at = "answered"]
          \/ call' = [call EXCEPT ![c] = Ended(call[c], "over")]
      BY <2>4 DEF Sent
    <3>2. CASE call' = [call EXCEPT ![c].at = "waiting"]
      BY <3>2 DEF CallState
    <3>3. CASE call' = [call EXCEPT ![c].at = "answered"]
      BY <3>3 DEF CallState
    <3>4. CASE call' = [call EXCEPT ![c] = Ended(call[c], "over")]
      BY <3>4 DEF CallState, Ended
    <3>. QED
      BY <3>1, <3>2, <3>3, <3>4
  <2>5. CASE Post(c)
    BY <2>5 DEF Post, CallState
  <2>6. CASE GivesUp(c)
    BY <2>6 DEF GivesUp, CallState, Ended
  <2>7. CASE Conclude(c)
    BY <2>7 DEF Conclude, CallState
  <2>. QED
    BY <1>5, <2>1, <2>2, <2>3, <2>4, <2>5, <2>6, <2>7
<1>6. ASSUME NEW w \in Workers, Crash(w) \/ Stop(w) PROVE call'[d].settled = call[d].settled
  <2>1. \/ call'[d] = call[d]
        \/ call'[d] = [call[d] EXCEPT !.at = "dead"]
        \/ call'[d] = Ended(call[d], "over")
    BY <1>6 DEF Crash, Stop
  <2>. QED
    BY <2>1 DEF CallState, Ended
<1>7. \/ UNCHANGED call
      \/ \E c \in Calls :
           \/ Begin(c) \/ Request(c) \/ Commit(c) \/ Sent(c) \/ SendFails(c)
           \/ TimerFires(c) \/ Post(c) \/ GivesUp(c) \/ Conclude(c)
      \/ \E w \in Workers : \E job \in results : Deliver(w, job)
      \/ \E w \in Workers : Crash(w) \/ Stop(w)
  BY NextCases DEF Push, Serve, ServeFails, Launch, vars
<1>. HIDE DEF Good
<1>. QED
  BY <1>k, <1>2, <1>3, <1>4, <1>5, <1>6, <1>7

\* As long as no timer overtakes a send, who asks stays registered: an entry is removed only
\* together with all who wait for it.
LEMMA AskersAreRegisteredStep ==
    /\ TypeOK /\ EntriesAreOpen /\ PromisesMatch /\ AskersAreRegistered
    /\ NoneIsRejectedInItsSend /\ [Next]_vars
    => AskersAreRegistered'
<1>. DEFINE Found(d) ==
              call'[d].at = "waiting"
                \/ (call'[d].at \in {"sending", "sent"} /\ call'[d].settled = "open") =>
                  pending'[call'[d].worker][call'[d].input] = call'[d].promise
<1>. SUFFICES ASSUME TypeOK, EntriesAreOpen, PromisesMatch, AskersAreRegistered,
                     NoneIsRejectedInItsSend, [Next]_vars, spent'["slow"] = 0, NEW d \in Calls
              PROVE  Found(d)
  BY DEF AskersAreRegistered, Asks, At
<1>. call \in [Calls -> CallState] /\ call[d] \in CallState
  BY DEF TypeOK
<1>. call[d].worker \in Workers /\ call[d].input \in Heads /\ call[d].promise \in Calls
  BY DEF CallState
<1>. pending \in [Workers -> [Heads -> Calls \union {Nobody}]] /\ Nobody \notin Calls
  BY DEF TypeOK, Calls, Nobody
<1>0. ASSUME NEW c \in Calls, Asks(c)
      PROVE  pending[call[c].worker][call[c].input] = call[c].promise
  BY <1>0, SpentGrows DEF AskersAreRegistered, Events
<1>s. ASSUME NEW c \in Calls, call[c].at \in {"sending", "sent"}
      PROVE  call[c].promise = c /\ call[c].settled # "rejected"
  BY <1>s, SpentGrows DEF PromisesMatch, NoneIsRejectedInItsSend, Events
<1>a. ASSUME call'[d].worker = call[d].worker, call'[d].input = call[d].input,
             call'[d].promise = call[d].promise,
             call'[d].at = "waiting"
                \/ (call'[d].at \in {"sending", "sent"} /\ call'[d].settled = "open") =>
                  /\ Asks(d)
                  /\ pending'[call[d].worker][call[d].input]
                       = pending[call[d].worker][call[d].input]
      PROVE  Found(d)
  BY <1>0, <1>a
<1>b. ASSUME call'[d] = call[d],
             Asks(d) => pending'[call[d].worker][call[d].input]
                          = pending[call[d].worker][call[d].input]
      PROVE  Found(d)
  BY <1>a, <1>b DEF Asks, At
<1>1. ASSUME NEW c \in Calls, Begin(c) PROVE Found(d)
  <2>1. CASE c = d
    <3>1. call'[d].at = "ready"
      BY <1>1, <2>1 DEF Begin, CallState
    <3>. QED
      BY <3>1
  <2>2. CASE c # d
    BY <1>1, <1>b, <2>2 DEF Begin
  <2>. QED
    BY <2>1, <2>2
<1>2. ASSUME NEW c \in Calls, Request(c) PROVE Found(d)
  <2>. DEFINE w == call[c].worker
              i == call[c].input
              first == pending[w][i] = Nobody
  <2>0. w \in Workers /\ i \in Heads
    BY DEF CallState
  <2>1. pending' = IF first THEN [pending EXCEPT ![w][i] = c] ELSE pending
    BY <1>2 DEF Request
  <2>2. call' = [call EXCEPT ![c].at = IF first THEN "sending" ELSE "waiting",
                             ![c].promise = IF first THEN c ELSE pending[w][i]]
    BY <1>2 DEF Request
  <2>3. CASE c = d
    <3>1. /\ call'[d].worker = w /\ call'[d].input = i
          /\ call'[d].promise = IF first THEN c ELSE pending[w][i]
      BY <2>2, <2>3 DEF CallState
    <3>2. pending'[w][i] = IF first THEN c ELSE pending[w][i]
      BY <2>0, <2>1
    <3>. HIDE DEF w, i, first
    <3>. QED
      BY <3>1, <3>2
  <2>4. CASE c # d
    <3>1. call'[d] = call[d]
      BY <2>2, <2>4
    <3>2. Asks(d) => pending[call[d].worker][call[d].input] # Nobody
      BY <1>0
    <3>3. Asks(d) => pending'[call[d].worker][call[d].input]
                       = pending[call[d].worker][call[d].input]
      BY <2>0, <2>1, <3>2
    <3>. QED
      BY <1>b, <3>1, <3>3
  <2>. QED
    BY <2>3, <2>4
<1>3. ASSUME NEW c \in Calls, Commit(c) PROVE Found(d)
  <2>1. call[c].at = "sending" /\ call' = [call EXCEPT ![c].at = "sent"] /\ pending' = pending
    BY <1>3 DEF Commit, At
  <2>. QED
    BY <1>a, <2>1 DEF CallState, Asks, At
<1>4. ASSUME NEW c \in Calls, Sent(c) PROVE Found(d)
  <2>0. call[c].at = "sent" /\ call[c].settled \in {"open", "resolved"}
    BY <1>4, <1>s DEF Sent, At, CallState
  <2>1. CASE call[c].settled = "open"
    <3>1. pending' = pending /\ call' = [call EXCEPT ![c].at = "waiting"]
      BY <1>4, <2>1 DEF Sent
    <3>. QED
      BY <1>a, <2>0, <2>1, <3>1 DEF CallState, Asks, At
  <2>2. CASE call[c].settled = "resolved"
    <3>1. pending' = pending /\ call' = [call EXCEPT ![c].at = "answered"]
      BY <1>4, <2>2 DEF Sent
    <3>. QED
      BY <1>a, <2>0, <2>2, <3>1 DEF CallState, Asks, At
  <2>. QED
    BY <2>0, <2>1, <2>2
<1>5. ASSUME NEW c \in Calls, NEW ends, Rejected(c, ends), Forget(c), c \in ends \union Waiting(c),
             Asks(c), call[c].promise = c
      PROVE  Found(d)
  <2>1. call[c].worker \in Workers /\ call[c].input \in Heads
    BY DEF CallState
  <2>2. pending' = [pending EXCEPT ![call[c].worker][call[c].input] = Nobody]
    BY <1>5 DEF Forget
  <2>3. pending[call[c].worker][call[c].input] = c
    BY <1>0, <1>5
  <2>4. CASE ~Asks(d) \/ d = c \/ d \in Waiting(c)
    <3>1. ~(call'[d].at = "waiting"
              \/ (call'[d].at \in {"sending", "sent"} /\ call'[d].settled = "open"))
      <4>1. CASE Waiting(c) = {}
        <5>1. call'[d].at = (IF On(d, call[c].worker) THEN "dead" ELSE call[d].at)
              /\ call'[d].settled = call[d].settled
          BY <1>5, <4>1, RejectedEffect
        <5>2. d = c => On(d, call[c].worker)
          BY <1>5 DEF On, Under, Asks, At
        <5>. QED
          BY <2>4, <4>1, <5>1, <5>2 DEF Asks, At
      <4>2. CASE Waiting(c) # {}
        <5>1. /\ call'[d].at = IF d \in Waiting(c) \union ends THEN "over" ELSE call[d].at
              /\ call'[d].settled = IF d = c THEN "rejected" ELSE call[d].settled
          BY <1>5, <4>2, RejectedEffect
        <5>. QED
          BY <1>5, <2>4, <5>1 DEF Asks, At
      <4>. QED
        BY <4>1, <4>2
    <3>. QED
      BY <3>1
  <2>5. CASE Asks(d) /\ d # c /\ d \notin Waiting(c)
    <3>1. call[d].promise # c
      BY <1>s, <2>5 DEF Asks, At, Waiting
    <3>2. pending[call[d].worker][call[d].input] # c
      BY <1>0, <2>5, <3>1
    <3>3. pending'[call[d].worker][call[d].input] = pending[call[d].worker][call[d].input]
      BY <2>1, <2>2, <2>3, <3>2
    <3>4. call'[d].worker = call[d].worker /\ call'[d].input = call[d].input
          /\ call'[d].promise = call[d].promise
      BY <1>5, RejectedEffect
    <3>. QED
      BY <1>a, <2>5, <3>3, <3>4
  <2>. QED
    BY <2>4, <2>5
<1>6. ASSUME NEW c \in Calls, SendFails(c) PROVE Found(d)
  <2>1. CASE call[c].settled = "open"
    <3>1. call[c].promise = c /\ Asks(c)
      BY <1>6, <1>s, <2>1 DEF SendFails, At, Asks
    <3>. QED
      BY <1>5, <1>6, <2>1, <3>1 DEF SendFails
  <2>2. CASE call[c].settled # "open"
    BY <1>6, <2>2, SpendCounts DEF SendFails, Events
  <2>. QED
    BY <2>1, <2>2
<1>7. ASSUME NEW c \in Calls, TimerFires(c) PROVE Found(d)
  <2>1. CASE call[c].at = "waiting"
    <3>1. Asks(c) /\ c \in Waiting(c) /\ call[c].promise = c
      BY <1>7, <2>1 DEF TimerFires, Asks, At, Waiting
    <3>. QED
      BY <1>5, <1>7, <3>1 DEF TimerFires
  <2>2. CASE call[c].at # "waiting"
    BY <1>7, <2>2, SpendCounts DEF TimerFires, Events, At
  <2>. QED
    BY <2>1, <2>2
<1>8. ASSUME NEW c \in Calls, Post(c) \/ GivesUp(c) \/ Conclude(c) PROVE Found(d)
  <2>1. pending' = pending
    BY <1>8 DEF Post, GivesUp, Conclude
  <2>2. CASE c = d
    <3>1. call'[d].at \in {"answered", "over"}
      <4>1. CASE Post(c)
        BY <2>2, <4>1 DEF Post, CallState
      <4>2. CASE GivesUp(c)
        BY <2>2, <4>2 DEF GivesUp, CallState, Ended
      <4>3. CASE Conclude(c)
        BY <2>2, <4>3 DEF Conclude, CallState
      <4>. QED
        BY <1>8, <4>1, <4>2, <4>3
    <3>. QED
      BY <3>1
  <2>3. CASE c # d
    <3>1. call'[d] = call[d]
      BY <1>8, <2>3 DEF Post, GivesUp, Conclude
    <3>. QED
      BY <1>b, <2>1, <3>1
  <2>. QED
    BY <2>2, <2>3
<1>9. ASSUME NEW w \in Workers, NEW job \in results, Deliver(w, job) PROVE Found(d)
  <2>0. job.input \in Heads
    BY DEF TypeOK, ResultJob
  <2>. DEFINE c == pending[w][job.input]
  <2>1. CASE c = Nobody
    BY <1>9, <1>b, <2>1 DEF Deliver
  <2>2. CASE c # Nobody
    <3>1. /\ call' = Resolved(c, job.output) /\ c \in Calls
          /\ pending' = [pending EXCEPT ![w][job.input] = Nobody]
          /\ call[c].promise = c
      BY <1>9, <2>0, <2>2, EntryIsCall DEF Deliver, EntriesAreOpen
    <3>2. Asks(d) /\ call[d].promise # c =>
            pending'[call[d].worker][call[d].input] = pending[call[d].worker][call[d].input]
      BY <1>0, <2>0, <3>1
    <3>. HIDE DEF c
    <3>3. CASE d = c \/ d \in Waiting(c)
      <4>1. call[d].at = "waiting" => d \in Waiting(c)
        BY <3>1, <3>3 DEF Waiting, At
      <4>2. /\ call'[d].settled = IF d = c THEN "resolved" ELSE call[d].settled
            /\ call'[d].at = IF d \in Waiting(c) THEN "answered" ELSE call[d].at
        BY <3>1, ResolvedEffect
      <4>. QED
        BY <3>3, <4>1, <4>2
    <3>4. CASE d # c /\ d \notin Waiting(c)
      <4>1. Asks(d) => call[d].promise # c
        BY <1>s, <3>4 DEF Asks, At, Waiting
      <4>2. /\ call'[d].worker = call[d].worker /\ call'[d].input = call[d].input
            /\ call'[d].promise = call[d].promise
            /\ call'[d].settled = call[d].settled /\ call'[d].at = call[d].at
        BY <3>1, <3>4, ResolvedEffect
      <4>. QED
        BY <1>a, <3>2, <4>1, <4>2 DEF Asks, At
    <3>. QED
      BY <3>3, <3>4
  <2>. QED
    BY <2>1, <2>2
<1>10. ASSUME NEW w \in Workers, Crash(w) \/ Stop(w) PROVE Found(d)
  <2>1. CASE On(d, w)
    <3>1. call'[d].at \in {"dead", "over"}
      <4>1. \/ call'[d] = [call[d] EXCEPT !.at = "dead"]
            \/ call'[d] = Ended(call[d], "over")
        BY <1>10, <2>1 DEF Crash, Stop
      <4>. QED
        BY <4>1 DEF Ended, CallState
    <3>. QED
      BY <3>1
  <2>2. CASE ~On(d, w)
    <3>1. call'[d] = call[d]
      BY <1>10, <2>2 DEF Crash, Stop
    <3>2. Asks(d) => call[d].worker # w
      BY <2>2 DEF Asks, At, On, Under
    <3>3. pending' = pending \/ pending' = [pending EXCEPT ![w] = [i \in Heads |-> Nobody]]
      BY <1>10 DEF Crash, Stop
    <3>. QED
      BY <1>b, <3>1, <3>2, <3>3
  <2>. QED
    BY <2>1, <2>2
<1>11. ASSUME UNCHANGED <<call, pending>> PROVE Found(d)
  BY <1>11, <1>b
<1>12. \/ UNCHANGED <<call, pending>>
       \/ \E c \in Calls :
            \/ Begin(c) \/ Request(c) \/ Commit(c) \/ Sent(c) \/ SendFails(c)
            \/ TimerFires(c) \/ Post(c) \/ GivesUp(c) \/ Conclude(c)
       \/ \E w \in Workers : \E job \in results : Deliver(w, job)
       \/ \E w \in Workers : Crash(w) \/ Stop(w)
  BY NextCases DEF Push, Serve, ServeFails, Launch, vars
<1>. HIDE DEF Found
<1>. QED
  BY <1>1, <1>2, <1>3, <1>4, <1>6, <1>7, <1>8, <1>9, <1>10, <1>11, <1>12

\* Without failures, slow sends and rollouts a job stays until the promise it is for is settled.
LEMMA AskedMeansUnderWayStep ==
    TypeOK /\ ServedInv /\ [Next]_vars => AskedMeansUnderWay'
<1>. DEFINE UnderWay(d) == \E job \in requests' \union results' : job.from = d
<1>. SUFFICES ASSUME TypeOK, ServedInv, [Next]_vars,
                     spent'["failure"] + spent'["slow"] + spent'["rollout"] = 0,
                     NEW d \in Calls, call'[d].at \in {"sent", "waiting"},
                     call'[d].promise = d, call'[d].settled = "open"
              PROVE  UnderWay(d)
  BY DEF AskedMeansUnderWay
<1>. EntriesAreOpen
  BY DEF ServedInv
<1>. call \in [Calls -> CallState] /\ call[d] \in CallState
  BY DEF TypeOK
<1>. call[d].worker \in Workers /\ call[d].input \in Heads
  BY DEF CallState
<1>. pending \in [Workers -> [Heads -> Calls \union {Nobody}]] /\ Nobody \notin Calls
  BY DEF TypeOK, Calls, Nobody
<1>0. /\ spent'["failure"] = 0 /\ spent'["slow"] = 0 /\ spent'["rollout"] = 0
      /\ spent["failure"] = 0 /\ spent["slow"] = 0 /\ spent["rollout"] = 0
  <2>1. /\ spent'["failure"] \in Nat /\ spent'["slow"] \in Nat /\ spent'["rollout"] \in Nat
        /\ spent["failure"] \in Nat /\ spent["slow"] \in Nat /\ spent["rollout"] \in Nat
    BY SpentGrows DEF Events, TypeOK
  <2>2. \A m, n, k \in Nat : m + n + k = 0 => m = 0 /\ n = 0 /\ k = 0
    OBVIOUS
  <2>3. spent'["failure"] + spent'["slow"] + spent'["rollout"] = 0
    OBVIOUS
  <2>4. spent'["failure"] = 0 /\ spent'["slow"] = 0 /\ spent'["rollout"] = 0
    BY <2>1, <2>2, <2>3
  <2>. QED
    BY <2>4, SpentGrows DEF Events
<1>1. ~Begin(d)
  <2>1. SUFFICES ASSUME Begin(d) PROVE FALSE
    OBVIOUS
  <2>2. call'[d].at = "ready"
    BY <2>1 DEF Begin
  <2>. QED
    BY <2>2
<1>2. ~Request(d)
  <2>1. SUFFICES ASSUME Request(d) PROVE FALSE
    OBVIOUS
  <2>. DEFINE first == pending[call[d].worker][call[d].input] = Nobody
  <2>2. call' = [call EXCEPT ![d].at = IF first THEN "sending" ELSE "waiting",
                             ![d].promise = IF first THEN d
                                            ELSE pending[call[d].worker][call[d].input]]
    BY <2>1 DEF Request
  <2>3. /\ call'[d].at = IF first THEN "sending" ELSE "waiting"
        /\ call'[d].promise = IF first THEN d ELSE pending[call[d].worker][call[d].input]
    BY <2>2 DEF CallState
  <2>4. pending[call[d].worker][call[d].input] = d
    BY <2>3
  <2>5. call[d].at = "ready"
    BY <2>1 DEF Request, At
  <2>. QED
    BY <2>4, <2>5 DEF EntriesAreOpen
<1>3. ASSUME Commit(d) PROVE UnderWay(d)
  <2>. DEFINE job == [from |-> d, input |-> call[d].input, tries |-> RequestDeliveries]
  <2>1. job \in requests'
    BY <1>3 DEF Commit
  <2>2. job.from = d
    OBVIOUS
  <2>. HIDE DEF job
  <2>. QED
    BY <2>1, <2>2
<1>4. ASSUME call[d].at \in {"sent", "waiting"}, call[d].promise = d, call[d].settled = "open"
      PROVE  UnderWay(d)
  <2>1. PICK old \in requests \union results : old.from = d
    BY <1>0, <1>4 DEF ServedInv, AskedMeansUnderWay
  <2>2. ASSUME NEW job \in requests, Serve(job) PROVE UnderWay(d)
    <3>1. PICK output : results' = Answered(job, output)
      BY <2>2 DEF Serve
    <3>2. requests' = requests \ {job}
      BY <2>2 DEF Serve
    <3>3. \E result \in results' : result.from = job.from
      <4>. DEFINE result == [from |-> job.from, delivery |-> job.tries, input |-> job.input,
                             output |-> output, tries |-> ResultDeliveries]
      <4>1. result \in results'
        BY <3>1 DEF Answered
      <4>2. result.from = job.from
        OBVIOUS
      <4>. HIDE DEF result
      <4>. QED
        BY <4>1, <4>2
    <3>4. old = job \/ old \in requests' \union results'
      BY <3>1, <3>2 DEF Answered
    <3>. QED
      BY <2>1, <3>3, <3>4
  <2>3. ASSUME NEW job \in requests, ServeFails(job) PROVE FALSE
    BY <1>0, <2>3, SpendCounts DEF ServeFails, Events
  <2>4. ASSUME NEW w \in Workers, NEW job \in results, Deliver(w, job) PROVE UnderWay(d)
    <3>1. CASE old # job
      <4>1. requests' = requests /\ results \ {job} \subseteq results'
        BY <2>4 DEF Deliver, Again
      <4>. QED
        BY <2>1, <3>1, <4>1
    <3>2. CASE old = job
      <4>1. job.input = call[d].input
        BY <2>1, <3>2 DEF ServedInv, JobsMatch
      <4>2. pending[call[d].worker][call[d].input] = d
        BY <1>0, <1>4 DEF ServedInv, AskersAreRegistered, Asks, At
      <4>3. workers[call[d].worker] = "alive"
        BY <1>4 DEF ServedInv, CallsAreInWorkers, Under
      <4>4. w = call[d].worker
        BY <1>0, <2>4, <4>3 DEF ServedInv, OneWorkerAtATime, Alive, Deliver
      <4>5. call' = Resolved(d, job.output)
        BY <2>4, <4>1, <4>2, <4>4 DEF Deliver
      <4>6. call'[d].settled = "resolved"
        BY <4>5, ResolvedEffect
      <4>. QED
        BY <4>6
    <3>. QED
      BY <3>1, <3>2
  <2>5. ASSUME requests \union results \subseteq requests' \union results' PROVE UnderWay(d)
    BY <2>1, <2>5
  <2>6. \/ requests \union results \subseteq requests' \union results'
        \/ \E job \in requests : Serve(job) \/ ServeFails(job)
        \/ \E w \in Workers : \E job \in results : Deliver(w, job)
    BY NextCases DEF Push, Begin, Request, Commit, Sent, SendFails, TimerFires, Post, GivesUp,
       Conclude, Crash, Stop, Launch, queues, vars
  <2>. QED
    BY <2>2, <2>3, <2>4, <2>5, <2>6
<1>5. Kept(d)
  BY <1>1, <1>2, CallsAreKept
<1>6. call[d].promise = d /\ call[d].settled = "open"
      /\ (call[d].at \in {"sent", "waiting"} \/ Commit(d))
  BY <1>5 DEF Kept
<1>. QED
  BY <1>3, <1>4, <1>6

LEMMA InitiallyServed == Init => ServedInv
<1>. SUFFICES ASSUME Init PROVE ServedInv
  OBVIOUS
<1>1. \A c \in Calls : /\ call[c].at = "idle" /\ call[c].promise = c
                       /\ call[c].settled = "open"
  BY DEF Init
<1>2. EntriesAreOpen
  BY DEF Init, EntriesAreOpen
<1>3. JobsMatch
  BY DEF Init, JobsMatch
<1>4. OneWorkerAtATime
  BY DEF Init, OneWorkerAtATime, Alive
<1>5. CallsAreInWorkers /\ PromisesMatch
  BY <1>1 DEF CallsAreInWorkers, PromisesMatch, Under, At
<1>6. AskersAreRegistered /\ NoneIsRejectedInItsSend /\ AskedMeansUnderWay
  BY <1>1 DEF AskersAreRegistered, NoneIsRejectedInItsSend, AskedMeansUnderWay, Asks, At
<1>. QED
  BY <1>2, <1>3, <1>4, <1>5, <1>6 DEF ServedInv

LEMMA ServedInvariant == Spec => []ServedInv
<1>1. TypeOK /\ ServedInv /\ [Next]_vars => ServedInv'
  BY EntriesAreOpenStep, PromisesMatchStep, CallsAreInWorkersStep, OneWorkerStep,
     AskersAreRegisteredStep, NoneIsRejectedStep, JobsMatchStep, AskedMeansUnderWayStep
  DEF ServedInv
<1>. QED
  BY InitiallyServed, <1>1, TypeCorrect, PTL DEF Spec

\* Whoever waits is registered in its Worker's map, as long as no timer overtakes a send; and
\* is still asked for or answered, as long as nothing fails and no Worker processes overlap:
\* crashes, lost leases, results for other inputs and late ones lose no answer.
THEOREM WaitersServed == Spec => []WaitersAreServed
<1>1. TypeOK /\ ServedInv => WaitersAreRegistered
  BY DEF ServedInv, AskersAreRegistered, WaitersAreRegistered, Asks
<1>2. TypeOK /\ ServedInv => AnswersAreUnderWay
  <2>. SUFFICES ASSUME TypeOK, ServedInv, NEW c \in Calls, At(c, "waiting"),
                       spent["failure"] + spent["slow"] + spent["rollout"] = 0
                PROVE  \/ At(call[c].promise, "sending")
                       \/ \E job \in requests \union results : job.input = call[c].input
    BY DEF AnswersAreUnderWay
  <2>. DEFINE p == call[c].promise
  <2>1. p \in Calls /\ call[c].worker \in Workers /\ call[c].input \in Heads
    BY DEF TypeOK, CallState
  <2>2. spent["slow"] = 0
    <3>1. spent["failure"] \in Nat /\ spent["slow"] \in Nat /\ spent["rollout"] \in Nat
      BY DEF TypeOK, Events
    <3>. QED
      BY <3>1
  <2>3. pending[call[c].worker][call[c].input] = p
    BY <2>2 DEF ServedInv, AskersAreRegistered, Asks
  <2>4. /\ call[p].worker = call[c].worker /\ call[p].input = call[c].input
        /\ call[p].promise = p /\ call[p].settled = "open"
        /\ call[p].at \in {"sending", "sent", "waiting", "dead"}
    BY <2>1, <2>3 DEF ServedInv, EntriesAreOpen, Calls, Nobody
  <2>5. call[p].at # "dead"
    <3>1. workers[call[c].worker] = "alive"
      BY DEF ServedInv, CallsAreInWorkers, Under, At
    <3>2. call[p].at = "dead" => workers[call[p].worker] = "dead"
      BY <2>1 DEF ServedInv, CallsAreInWorkers, At
    <3>. QED
      BY <2>4, <3>1, <3>2
  <2>6. CASE call[p].at = "sending"
    BY <2>6 DEF At
  <2>7. CASE call[p].at \in {"sent", "waiting"}
    <3>1. PICK job \in requests \union results : job.from = p
      BY <2>1, <2>4, <2>7 DEF ServedInv, AskedMeansUnderWay
    <3>2. job.input = call[p].input
      BY <3>1 DEF ServedInv, JobsMatch
    <3>. QED
      BY <2>4, <3>1, <3>2
  <2>. QED
    BY <2>4, <2>5, <2>6, <2>7
<1>. QED
  BY <1>1, <1>2, ServedInvariant, TypeCorrect, PTL DEF WaitersAreServed
=============================================================================
