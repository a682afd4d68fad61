------------------------------- MODULE Review -------------------------------
(***************************************************************************)
(* The agent review of one Run: executeAgentReview in the Worker, the      *)
(* client that asks for reviews over pg-boss and waits for their results   *)
(* in the memory of its process, and the agent-review service that answers *)
(* from the queue or over HTTP.                                            *)
(*                                                                         *)
(* A call of executeAgentReview reads the pull request's diff, which it    *)
(* gets by the pull request's number and so of its head at that moment,    *)
(* prepares the input from it and asks for a review of that input. Results *)
(* find their way back by the key run:attempt:inputHash, of which only the *)
(* input can vary here: an input stands for the head it was made from.     *)
(*                                                                         *)
(* Steps are executed again after a crash, overlap when a lease is lost,   *)
(* and Worker processes overlap in a rollout. A result may be consumed by  *)
(* a process in which nobody waits; it is then delivered again, to         *)
(* anybody, as long as its retries last.                                   *)
(***************************************************************************)
EXTENDS DiffEvidence, Functions

CONSTANTS
    MaxWorkers,    \* how many lives of Worker processes there are
    MaxCalls,      \* how many calls of executeAgentReview
    Heads,         \* heads of the pull request
    RunHead,       \* the one the Run is about
    Edits,         \* what each head changes: edits of files
    Answers,       \* what the provider of the model may answer
    Transports,    \* how the service is asked: "queue", "http"
    MaxOverlaps,   \* executions that overlap with another
    MaxEvents      \* how many of Events may happen, each at most once but overlaps

\* What TLC bounds: calls that fail; sends that outlast the timer, or fail when their
\* answer has come; Workers that die, or are stopped; executions that overlap; Worker
\* processes that overlap; pushes to the pull request.
Events == {"failure", "slow", "death", "overlap", "rollout", "push"}

ASSUME ReviewAssumption ==
    /\ MaxWorkers \in Nat \ {0} /\ MaxCalls \in Nat \ {0}
    /\ RunHead \in Heads
    /\ Edits \in [Heads -> Seq(FileEdit)]
    /\ Transports \subseteq {"queue", "http"}
    /\ MaxOverlaps \in Nat /\ MaxEvents \in Nat

\* Workers are launched and calls begin in the order of their numbers.
Workers == 1..MaxWorkers
Calls == 1..MaxCalls
Nobody == 0

\* What may be wrong with an answer: there is none, or none in time; it is too large,
\* no JSON, has a prohibited field, holds a secret, or is no report.
Faults == {"failed", "late", "large", "garbled", "prohibited", "secret", "invalid"}
ASSUME AnswersAssumption == Answers \subseteq [faults : SUBSET Faults, findings : SUBSET Ranges]

\* Of several faults the first that is looked for is named.
FirstFault(answer, checks) ==
    LET found == {i \in DOMAIN checks : checks[i].fault \in answer.faults}
    IN  IF found = {} THEN "no" ELSE checks[Min(found)].code

Check(fault, code) == [fault |-> fault, code |-> code]

ProviderFailure(answer) ==
    FirstFault(answer, <<Check("late", "PROVIDER_TIMEOUT"), Check("failed", "PROVIDER_ERROR")>>)

ValidateAgentReport(answer) ==
    FirstFault(answer, <<Check("large", "REPORT_TOO_LARGE"), Check("garbled", "INVALID_OUTPUT"),
                         Check("prohibited", "PROHIBITED_FIELD"), Check("secret", "SECRET_DETECTED"),
                         Check("invalid", "INVALID_OUTPUT")>>)

\* runAgentReview: a report with its findings or, refused, an incomplete one.
RunAgentReview(answer) ==
    LET failure == ProviderFailure(answer)
        refused == IF failure # "no" THEN failure ELSE ValidateAgentReport(answer)
    IN  [refused |-> refused, findings |-> IF refused = "no" THEN answer.findings ELSE {}]

Outputs == {RunAgentReview(answer) : answer \in Answers}

\* The evidence in each head's diff, and what the head changes indeed.
Evidence == [h \in Heads |-> EvidenceOf(Diff(Edits[h]))]
ChangedLines == [h \in Heads |-> ChangedBy(Edits[h])]

RequestDeliveries == 2    \* retryLimit 1
ResultDeliveries == 3     \* retryLimit 2

VARIABLES
    transport,  \* the configured transport
    head,       \* the head of the pull request
    workers,    \* the lives of Workers: "unborn", "alive" or "dead"
    call,       \* the local state of every call
    pending,    \* each Worker's map from inputs to the call whose promise is waited for
    requests,   \* jobs of platform.agent-review
    results,    \* jobs of platform.agent-review-result
    served,     \* history: what the service has answered, by input
    spent       \* which events have happened, and how often

queues == <<requests, results, served>>
vars == <<transport, head, workers, call, pending, queues, spent>>

\* Where a call is. "sending" and "sent" are both inside boss.send: the job is
\* committed before the Worker learns of it.
Places == {"idle", "ready", "sending", "sent", "waiting", "answered", "over", "dead"}
Nothing == [refused |-> "no", findings |-> {}]

CallState ==
    [at : Places, worker : Workers, input : Heads,
     promise : Calls,                                  \* whose promise it waits for
     settled : {"open", "resolved", "rejected"},       \* the state of its own promise
     answer : Outputs \union {Nothing},
     outcome : {"none", "PASSED", "INCOMPLETE"}]

\* A job is known by the call that asked and, for results, by the delivery served.
RequestJob == [from : Calls, input : Heads, tries : 1..RequestDeliveries]
ResultJob == [from : Calls, delivery : 1..RequestDeliveries, input : Heads, output : Outputs,
              tries : 1..ResultDeliveries]

At(c, place) == call[c].at = place
Under(c) == call[c].at \notin {"idle", "over", "dead"}
On(c, w) == Under(c) /\ call[c].worker = w
Alive == {w \in Workers : workers[w] = "alive"}

Happened == FoldFunction(+, 0, spent)

Spend(event) ==
    /\ spent[event] < IF event = "overlap" THEN MaxOverlaps ELSE 1
    /\ Happened < MaxEvents
    /\ spent' = [spent EXCEPT ![event] = @ + 1]

Init ==
    /\ transport \in Transports
    /\ head = RunHead
    /\ workers = [w \in Workers |-> IF w = 1 THEN "alive" ELSE "unborn"]
    /\ call = [c \in Calls |->
                 [at |-> "idle", worker |-> 1, input |-> RunHead,
                  promise |-> c, settled |-> "open", answer |-> Nothing, outcome |-> "none"]]
    /\ pending = [w \in Workers |-> [i \in Heads |-> Nobody]]
    /\ requests = {}
    /\ results = {}
    /\ served = [i \in Heads |-> {}]
    /\ spent = [e \in Events |-> 0]

-----------------------------------------------------------------------------
\* The step guard admits a call while no other is under way, or after the other's
\* lease was lost, and none any more once a result is recorded. The diff is read.
Begin(c) ==
    /\ At(c, "idle")
    /\ \A d \in Calls : ~At(d, "over") /\ (d < c => ~At(d, "idle"))
    /\ IF \E d \in Calls : Under(d) THEN Spend("overlap") ELSE UNCHANGED spent
    /\ \E w \in Alive :
         call' = [call EXCEPT ![c].at = "ready", ![c].worker = w, ![c].input = head]
    /\ UNCHANGED <<transport, head, workers, pending, queues>>

\* The pull request moves on.
Push ==
    /\ Spend("push")
    /\ head' \in Heads \ {head}
    /\ UNCHANGED <<transport, workers, call, pending, queues>>

\* Variant: a second request replaces the first.
RequestReplacing(c) ==
    LET w == call[c].worker IN
    /\ At(c, "ready") /\ transport = "queue"
    /\ pending' = [pending EXCEPT ![w][call[c].input] = c]
    /\ call' = [call EXCEPT ![c].at = "sending"]
    /\ UNCHANGED <<transport, head, workers, queues, spent>>

\* request: who asks for what is already asked for waits for the same promise;
\* anybody else registers a promise of its own before the job is sent.
Request(c) ==
    LET w == call[c].worker
        i == call[c].input
        first == pending[w][i] = Nobody
    IN  /\ At(c, "ready") /\ transport = "queue"
        /\ pending' = IF first THEN [pending EXCEPT ![w][i] = c] ELSE pending
        /\ call' = [call EXCEPT ![c].at = IF first THEN "sending" ELSE "waiting",
                                ![c].promise = IF first THEN c ELSE pending[w][i]]
        /\ UNCHANGED <<transport, head, workers, queues, spent>>

Commit(c) ==
    /\ At(c, "sending")
    /\ requests' = requests \union
                     {[from |-> c, input |-> call[c].input, tries |-> RequestDeliveries]}
    /\ call' = [call EXCEPT ![c].at = "sent"]
    /\ UNCHANGED <<transport, head, workers, pending, results, served, spent>>

-----------------------------------------------------------------------------
\* Those who wait for the promise of c; the caller itself only when send is over.
Waiting(c) == {d \in Calls : At(d, "waiting") /\ call[d].promise = c}

\* What becomes of the calls when the promise of c is settled.
Resolved(c, output) ==
    [d \in Calls |->
       [call[d] EXCEPT !.settled = IF d = c THEN "resolved" ELSE @,
                       !.answer = IF d = c \/ d \in Waiting(c) THEN output ELSE @,
                       !.at = IF d \in Waiting(c) THEN "answered" ELSE @]]

Ended(state, places) ==
    [state EXCEPT !.at = places, !.outcome = IF places = "over" THEN "INCOMPLETE" ELSE @]

\* A promise that is rejected while nobody waits for it is an unhandled rejection:
\* Node ends the process, and every call in it.
Rejected(c, ends) ==
    IF Waiting(c) = {}
    THEN /\ workers' = [workers EXCEPT ![call[c].worker] = "dead"]
         /\ call' = [d \in Calls |->
                       IF On(d, call[c].worker) THEN [call[d] EXCEPT !.at = "dead"] ELSE call[d]]
    ELSE /\ UNCHANGED workers
         /\ call' = [d \in Calls |->
                       LET state == [call[d] EXCEPT !.settled = IF d = c THEN "rejected" ELSE @]
                       IN IF d \in Waiting(c) \union ends THEN Ended(state, "over") ELSE state]

\* Every exit of request by an exception deletes the key, whoever's entry it holds.
Forget(c) == pending' = [pending EXCEPT ![call[c].worker][call[c].input] = Nobody]

\* boss.send answers.
Sent(c) ==
    /\ At(c, "sent")
    /\ CASE call[c].settled = "open" ->
              call' = [call EXCEPT ![c].at = "waiting"] /\ UNCHANGED pending
         [] call[c].settled = "resolved" ->
              call' = [call EXCEPT ![c].at = "answered"] /\ UNCHANGED pending
         [] OTHER ->
              call' = [call EXCEPT ![c] = Ended(@, "over")] /\ Forget(c)
    /\ UNCHANGED <<transport, head, workers, queues, spent>>

\* boss.send fails, before or after the job was committed.
SendFails(c) ==
    /\ At(c, "sending") \/ At(c, "sent")
    /\ Forget(c)
    /\ IF call[c].settled = "open"
       THEN Spend("failure") /\ Rejected(c, {c})
       ELSE Spend("slow") /\ call' = [call EXCEPT ![c] = Ended(@, "over")] /\ UNCHANGED workers
    /\ UNCHANGED <<transport, head, queues>>

\* Variant: the timer removes the entry, but settles nothing.
TimerOnlyForgets(c) ==
    /\ Under(c) /\ call[c].promise = c /\ call[c].settled = "open"
    /\ pending[call[c].worker][call[c].input] = c
    /\ Forget(c)
    /\ UNCHANGED <<transport, head, workers, call, queues, spent>>

\* The timer of a promise, 60 seconds after it was made.
TimerFires(c) ==
    /\ At(c, "sending") \/ At(c, "sent") \/ At(c, "waiting")
    /\ call[c].promise = c
    /\ call[c].settled = "open"
    /\ IF At(c, "waiting") THEN UNCHANGED spent ELSE Spend("slow")
    /\ Forget(c)
    /\ Rejected(c, {})
    /\ UNCHANGED <<transport, head, queues>>

-----------------------------------------------------------------------------
\* The service takes a request, asks the model and sends what it makes of its output.
Answered(job, output) ==
    results \union {[from |-> job.from, delivery |-> job.tries, input |-> job.input,
                     output |-> output, tries |-> ResultDeliveries]}

\* Variant: retries are not counted.
AgainForever(queue, job) == (queue \ {job}) \union {[job EXCEPT !.tries = @ - 1]}

\* A job whose handler throws is delivered again while its retries last.
Again(queue, job) ==
    (queue \ {job}) \union (IF job.tries > 1 THEN {[job EXCEPT !.tries = @ - 1]} ELSE {})

\* Variant: only a valid report is sent.
ServeOnlyReports(job) ==
    /\ \E output \in Outputs :
         /\ results' = IF output.refused = "no" THEN Answered(job, output) ELSE results
         /\ served' = [served EXCEPT ![job.input] = @ \union {output}]
    /\ requests' = requests \ {job}
    /\ UNCHANGED <<transport, head, workers, call, pending, spent>>

Serve(job) ==
    /\ \E output \in Outputs :
         /\ results' = Answered(job, output)
         /\ served' = [served EXCEPT ![job.input] = @ \union {output}]
    /\ requests' = requests \ {job}
    /\ UNCHANGED <<transport, head, workers, call, pending, spent>>

\* It dies or fails, before or after it has sent the result.
ServeFails(job) ==
    /\ Spend("failure")
    /\ \/ UNCHANGED <<results, served>>
       \/ \E output \in Outputs :
            /\ results' = Answered(job, output)
            /\ served' = [served EXCEPT ![job.input] = @ \union {output}]
    /\ requests' = Again(requests, job)
    /\ UNCHANGED <<transport, head, workers, call, pending>>

\* resolveResult in any Worker: whoever waits for the key gets it, else it throws.
Deliver(w, job) ==
    LET c == pending[w][job.input] IN
    /\ w \in Alive
    /\ IF c # Nobody
       THEN /\ pending' = [pending EXCEPT ![w][job.input] = Nobody]
            /\ call' = Resolved(c, job.output)
            /\ results' = results \ {job}
       ELSE /\ results' = Again(results, job)
            /\ UNCHANGED <<pending, call>>
    /\ UNCHANGED <<transport, head, workers, requests, served, spent>>

\* Over HTTP the answer comes back by itself, or not at all.
Post(c) ==
    /\ At(c, "ready") /\ transport = "http"
    /\ \E output \in Outputs :
         /\ call' = [call EXCEPT ![c].at = "answered", ![c].answer = output]
         /\ served' = [served EXCEPT ![call[c].input] = @ \union {output}]
    /\ UNCHANGED <<transport, head, workers, pending, requests, results, spent>>

\* The early returns: no transport, no diff, an input too large; over HTTP no
\* answer or none that parses.
GivesUp(c) ==
    /\ At(c, "ready")
    /\ Spend("failure")
    /\ call' = [call EXCEPT ![c] = Ended(@, "over")]
    /\ UNCHANGED <<transport, head, workers, pending, queues>>

-----------------------------------------------------------------------------
\* Variant: findings are taken for granted.
PassesUnseen(input, output) == output.refused = "no"

\* A report passes if every finding lies in the evidence.
Passes(input, output) ==
    output.refused = "no" /\ \A finding \in output.findings : Located(finding, Evidence[input])

Conclude(c) ==
    /\ At(c, "answered")
    /\ call' = [call EXCEPT ![c].at = "over",
                            ![c].outcome = IF Passes(call[c].input, call[c].answer)
                                           THEN "PASSED" ELSE "INCOMPLETE"]
    /\ UNCHANGED <<transport, head, workers, pending, queues, spent>>

\* A Worker dies, or is stopped and rejects all promises first.
Crash(w) ==
    /\ w \in Alive
    /\ Spend("death")
    /\ workers' = [workers EXCEPT ![w] = "dead"]
    /\ call' = [c \in Calls |-> IF On(c, w) THEN [call[c] EXCEPT !.at = "dead"] ELSE call[c]]
    /\ UNCHANGED <<transport, head, pending, queues>>

Stop(w) ==
    /\ w \in Alive
    /\ Spend("death")
    /\ workers' = [workers EXCEPT ![w] = "dead"]
    /\ call' = [c \in Calls |->
                  CASE On(c, w) /\ At(c, "waiting")  -> Ended(call[c], "over")
                    [] On(c, w) /\ ~At(c, "waiting") -> [call[c] EXCEPT !.at = "dead"]
                    [] OTHER                         -> call[c]]
    /\ pending' = [pending EXCEPT ![w] = [i \in Heads |-> Nobody]]
    /\ UNCHANGED <<transport, head, queues>>

\* Another process, in place of one that has ended or next to it in a rollout.
Launch(w) ==
    /\ workers[w] = "unborn" /\ \A v \in 1..(w - 1) : workers[v] # "unborn"
    /\ IF Alive = {} THEN UNCHANGED spent ELSE Spend("rollout")
    /\ workers' = [workers EXCEPT ![w] = "alive"]
    /\ UNCHANGED <<transport, head, call, pending, queues>>

-----------------------------------------------------------------------------
Next ==
    \/ Push
    \/ \E c \in Calls :
         \/ Begin(c) \/ Request(c) \/ Commit(c) \/ Sent(c) \/ SendFails(c) \/ TimerFires(c)
         \/ Post(c) \/ GivesUp(c) \/ Conclude(c)
    \/ \E job \in requests : Serve(job) \/ ServeFails(job)
    \/ \E w \in Workers :
         Crash(w) \/ Stop(w) \/ Launch(w) \/ \E job \in results : Deliver(w, job)

Spec == Init /\ [][Next]_vars

\* Calls go on and timers fire; the service and the queues owe nothing.
GoesOn(c) ==
    Request(c) \/ Commit(c) \/ Sent(c) \/ Post(c) \/ Conclude(c) \/ (At(c, "waiting") /\ TimerFires(c))

Fairness == WF_vars(\E c \in Calls : GoesOn(c))

FairSpec == Spec /\ Fairness

-----------------------------------------------------------------------------
TypeOK ==
    /\ transport \in Transports /\ head \in Heads
    /\ workers \in [Workers -> {"unborn", "alive", "dead"}]
    /\ call \in [Calls -> CallState]
    /\ pending \in [Workers -> [Heads -> Calls \union {Nobody}]]
    /\ requests \subseteq RequestJob /\ results \subseteq ResultJob
    /\ served \in [Heads -> SUBSET Outputs]
    /\ spent \in [Events -> Nat]

\* The head that the evidence of a call is to be of: the Run's, which the report carries.
\* The diff is the pull request's, though: once somebody has pushed, of any head.
EvidenceHead(c) == IF spent["push"] = 0 THEN RunHead ELSE call[c].input

\* A review passes only on a report that the service made of the very input the call
\* prepared, and whose findings lie in lines that the Run's head changes - although results
\* of other calls, other inputs and earlier processes arrive late, twice and anywhere. The
\* code does not keep this in two cases: after a push the lines may be those that a newer
\* head changes, and where an added line looks like the header of another file, lines
\* that nobody changed.
PassedReviewsAreSound ==
    \A c \in Calls : call[c].outcome = "PASSED" =>
        /\ call[c].answer \in served[call[c].input]
        /\ call[c].answer.refused = "no"
        /\ NamesNoOtherFile(Edits[EvidenceHead(c)]) =>
             LinesOf(call[c].answer.findings) \subseteq ChangedLines[EvidenceHead(c)]

\* Whoever waits can be found: its promise is the one its Worker has for the input.
\* (A send that fails after its promise was settled removes the entry of whoever came
\* after it.)
WaitersAreRegistered ==
    spent["slow"] = 0 => \A c \in Calls : At(c, "waiting") =>
        pending[call[c].worker][call[c].input] = call[c].promise

\* No answer is lost: what is waited for is still asked for or on its way, so that a
\* timeout means a late answer. Failures lose answers, and so does a second Worker,
\* which may use up a result's deliveries.
AnswersAreUnderWay ==
    spent["failure"] + spent["slow"] + spent["rollout"] = 0 =>
        \A c \in Calls : At(c, "waiting") =>
            \/ At(call[c].promise, "sending")
            \/ \E job \in requests \union results : job.input = call[c].input

\* Whoever waits will be found by an answer, and there will be one.
WaitersAreServed == WaitersAreRegistered /\ AnswersAreUnderWay

\* A review that waits always ends, whatever happens to its answer.
ReviewsEnd == \A c \in Calls : At(c, "waiting") ~> ~At(c, "waiting")
=============================================================================
