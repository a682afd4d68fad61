----------------------------- MODULE Publishers -----------------------------
(***************************************************************************)
(* The two tables of messages that the Worker delivers to the outside: the *)
(* outbox, whose rows become jobs of the queue (OutboxPublisher), and the  *)
(* Gitea synchronisation, whose rows become commit statuses and comments   *)
(* (GiteaSyncPublisher).                                                   *)
(*                                                                         *)
(* Both publishers work alike. A poll picks a due row, takes a lease of 30 *)
(* seconds on it in a short transaction, talks to the other side without   *)
(* any lock, and settles the row under the condition that the lease is     *)
(* still the one it took (leaseUntil is the token). Polls are timers that  *)
(* do not wait for one another, and Worker processes overlap in a rollout: *)
(* Publishers are the polls that can be under way at once.                 *)
(*                                                                         *)
(* Meanwhile the API and the retention sweep arm outbox rows again, and    *)
(* workflow handlers change what a synchronisation row should say.         *)
(***************************************************************************)
EXTENDS Naturals, Sequences, SequencesExt, FiniteSets

CONSTANTS
    Jobs,         \* rows of workflow_outbox
    Statuses,     \* rows of gitea_syncs that are commit statuses of one context and head
    Comments,     \* rows of gitea_syncs that are comments
    AttemptOf,    \* the Run's attempt a row of gitea_syncs belongs to
    Publishers,   \* polls under way
    Nobody,       \* no lease
    Bounds        \* how often each event of Events may happen

\* What TLC bounds: rows armed or asked for; calls that fail and publishers that
\* die; and what lets two deliveries of a row overlap, a lease that runs out under
\* a live publisher and a request that Gitea carries out after its client gave up.
Events == {"ask", "failure", "overlap"}

Syncs == Statuses \union Comments
Rows == Jobs \union Syncs

\* A Run has one row per attempt, context and head (a unique key of the table).
ASSUME PublishersAssumption ==
    /\ Nobody \notin Publishers
    /\ Jobs \intersect Syncs = {} /\ Statuses \intersect Comments = {} /\ Rows # {}
    /\ AttemptOf \in [Syncs -> Nat \ {0}]
    /\ \A q, r \in Statuses : AttemptOf[q] = AttemptOf[r] => q = r
    /\ Bounds \in [Events -> Nat]

\* What a row may say: FAILURE is asked for before SUCCESS. Version 0 of a row
\* of gitea_syncs is what nobody has asked for; a job says nothing.
Versions == 0..2

VARIABLES
    attempt,    \* the current attempt of the Run
    rows,       \* both tables
    wanted,     \* history: what the handlers asked of each row of gitea_syncs last
    overtaken,  \* history: an attempt was reported while an older one was still pending,
                \* or an older one after it
    publisher,  \* the local state of every poll
    sent,       \* history: jobs sent to the queue since they were armed last
    statuses,   \* Gitea: the statuses of the context and head, oldest first
    comments,   \* Gitea: the comments of the pull request, oldest first
    wire,       \* requests whose client has gone, still to be carried out
    bound       \* what is left of Bounds

asked == <<attempt, wanted, overtaken>>
remote == <<sent, statuses, comments, wire>>
vars == <<asked, rows, publisher, remote, bound>>

RowStatuses == {"ABSENT", "PENDING", "FAILED", "DONE"}

\* DONE is PUBLISHED in one table and SYNCED in the other. "due" says that the
\* time of the next attempt is over, "live" that the time of the lease is not.
RowRecord ==
    [status : RowStatuses, want : Versions, due : BOOLEAN,
     lease : Publishers \union {Nobody}, live : BOOLEAN]

NoRow == [status |-> "ABSENT", want |-> 0, due |-> TRUE, lease |-> Nobody, live |-> FALSE]

Armed(version) ==
    [status |-> "PENDING", want |-> version, due |-> TRUE, lease |-> Nobody, live |-> FALSE]

Places == {"idle", "send", "list", "create", "update", "mark", "fail"}

\* What a poll remembers of the row it claimed, and the comment it found.
PollState == [at : Places, row : Rows, version : Versions, found : Nat]

IdlePoll == [at |-> "idle", row |-> CHOOSE r \in Rows : TRUE, version |-> 0, found |-> 0]

Says(r, version) == [row |-> r, version |-> version]
Messages == [row : Syncs, version : Versions]

Spend(event) == bound[event] > 0 /\ bound' = [bound EXCEPT ![event] = @ - 1]
Spent(event) == Bounds[event] - bound[event]

At(p, place) == publisher[p].at = place
Row(p) == publisher[p].row
Goto(p, place) == publisher' = [publisher EXCEPT ![p].at = place]

Init ==
    /\ attempt = 1
    /\ rows = [r \in Rows |-> NoRow]
    /\ wanted = [r \in Syncs |-> 0]
    /\ overtaken = FALSE
    /\ publisher = [p \in Publishers |-> IdlePoll]
    /\ sent = {}
    /\ statuses = <<>>
    /\ comments = <<>>
    /\ wire = {}
    /\ bound = Bounds

-----------------------------------------------------------------------------
\* Those who ask. A webhook or a retry inserts an outbox row, a cancel request
\* arms the cleanup's row again whatever its state, under a lease or not.
Arm(j) ==
    /\ Spend("ask")
    /\ rows' = [rows EXCEPT ![j] = Armed(0)]
    /\ sent' = sent \ {j}
    /\ UNCHANGED <<asked, publisher, statuses, comments, wire>>

\* The retention sweep arms a row only if it has been published or has failed.
SweepArm(j) ==
    /\ Spend("ask")
    /\ rows[j].status \in {"FAILED", "DONE"}
    /\ rows' = [rows EXCEPT ![j] = Armed(0)]
    /\ sent' = sent \ {j}
    /\ UNCHANGED <<asked, publisher, statuses, comments, wire>>

\* A retry: rows of older attempts are no longer asked for.
NextAttempt ==
    /\ \E r \in Syncs : AttemptOf[r] > attempt
    /\ attempt' = attempt + 1
    /\ UNCHANGED <<rows, wanted, overtaken, publisher, remote, bound>>

OlderPending(r) ==
    \E q \in Statuses : AttemptOf[q] < AttemptOf[r] /\ rows[q].status \in {"PENDING", "FAILED"}

NewerReported(r) == \E q \in Statuses : AttemptOf[q] > AttemptOf[r] /\ wanted[q] # 0

\* Variants: what the row should say is changed under a live lease, which stays or
\* is taken away.
EnqueueKeepingLease(r) ==
    \E version \in Versions \ {0} :
        /\ AttemptOf[r] <= attempt
        /\ version >= wanted[r]
        /\ Spend("ask")
        /\ wanted' = [wanted EXCEPT ![r] = version]
        /\ overtaken' = (overtaken \/ OlderPending(r) \/ NewerReported(r))
        /\ rows' = [rows EXCEPT ![r].status = "PENDING", ![r].want = version]
        /\ UNCHANGED <<attempt, publisher, remote>>

EnqueueUnderLease(r) ==
    \E version \in Versions \ {0} :
        /\ AttemptOf[r] <= attempt
        /\ version >= wanted[r]
        /\ Spend("ask")
        /\ wanted' = [wanted EXCEPT ![r] = version]
        /\ overtaken' = (overtaken \/ OlderPending(r) \/ NewerReported(r))
        /\ rows' = [rows EXCEPT ![r] = Armed(version)]
        /\ UNCHANGED <<attempt, publisher, remote>>

\* enqueueGiteaSync: refused for another attempt, nothing to do for what is
\* already shown, and given up silently while a publisher holds the row. The attempt is
\* read first and without a lock: when the row is written it may be an older one.
Enqueue(r) ==
    LET row == rows[r] IN
    \E version \in Versions \ {0} :
        /\ AttemptOf[r] <= attempt
        /\ version >= wanted[r]
        /\ Spend("ask")
        /\ wanted' = [wanted EXCEPT ![r] = version]
        /\ overtaken' = (overtaken \/ OlderPending(r) \/ NewerReported(r))
        /\ rows' = IF (row.want = version /\ row.status = "DONE") \/ row.live
                   THEN rows
                   ELSE [rows EXCEPT ![r] = Armed(version)]
        /\ UNCHANGED <<attempt, publisher, remote>>

-----------------------------------------------------------------------------
\* Variants: rows that are done are claimed, too; a lease binds for ever.
ClaimableDone(r) == rows[r].status # "ABSENT" /\ rows[r].due /\ ~rows[r].live

ClaimableUnleased(r) ==
    rows[r].status \in {"PENDING", "FAILED"} /\ rows[r].due /\ rows[r].lease = Nobody

\* A row may be claimed when it is pending or has failed, is due, and no lease
\* on it is live.
Claimable(r) ==
    rows[r].status \in {"PENDING", "FAILED"} /\ rows[r].due /\ ~rows[r].live

Claim(p, r, place) ==
    /\ At(p, "idle")
    /\ Claimable(r)
    /\ rows' = [rows EXCEPT ![r].lease = p, ![r].live = TRUE]
    /\ publisher' = [publisher EXCEPT
                       ![p] = [at |-> place, row |-> r, version |-> rows[r].want, found |-> 0]]
    /\ UNCHANGED <<asked, remote, bound>>

ClaimJob(p) == \E j \in Jobs : Claim(p, j, "send")
ClaimSync(p) == \E r \in Syncs : Claim(p, r, "list")

\* OutboxPublisher dispatches the job. A send that fails may have been committed.
Dispatch(p) ==
    /\ At(p, "send")
    /\ sent' = sent \union {Row(p)}
    /\ Goto(p, "mark")
    /\ UNCHANGED <<asked, rows, statuses, comments, wire, bound>>

DispatchFails(p) ==
    /\ At(p, "send")
    /\ Spend("failure")
    /\ sent' \in {sent, sent \union {Row(p)}}
    /\ Goto(p, "fail")
    /\ UNCHANGED <<asked, rows, statuses, comments, wire>>

\* findMatchingStatus: the same status is anywhere in the list.
MatchesAStatus(p) == Contains(statuses, Says(Row(p), publisher[p].version))

\* Variant: comments are not looked for.
FindNoComment(p) ==
    IF Row(p) \in Statuses /\ MatchesAStatus(p)
    THEN [at |-> "mark", found |-> 0]
    ELSE [at |-> "create", found |-> 0]

\* GiteaSyncPublisher reads what Gitea has. A status that is listed is taken for
\* done, a comment is found by the marker of its row.
Find(p) ==
    LET mine == {i \in DOMAIN comments : comments[i].row = Row(p)}
        first == CHOOSE i \in mine : \A k \in mine : i <= k
        message == Says(Row(p), publisher[p].version)
    IN  IF Row(p) \in Statuses
        THEN [at |-> IF MatchesAStatus(p) THEN "mark" ELSE "create", found |-> 0]
        ELSE IF mine = {} THEN [at |-> "create", found |-> 0]
        ELSE [at |-> IF comments[first] = message THEN "mark" ELSE "update", found |-> first]

List(p) ==
    /\ At(p, "list")
    /\ publisher' = [publisher EXCEPT ![p].at = Find(p).at, ![p].found = Find(p).found]
    /\ UNCHANGED <<asked, rows, remote, bound>>

\* What Gitea does with a request: statuses and new comments are appended, an
\* update replaces the text of one comment.
Request(p) == [op |-> publisher[p].at, found |-> publisher[p].found,
               message |-> Says(Row(p), publisher[p].version)]

Apply(request) ==
    IF request.message.row \in Statuses
    THEN statuses' = Append(statuses, request.message) /\ UNCHANGED comments
    ELSE /\ comments' = IF request.op = "create"
                        THEN Append(comments, request.message)
                        ELSE [comments EXCEPT ![request.found] = request.message]
         /\ UNCHANGED statuses

Posting(p) == At(p, "create") \/ At(p, "update")

Post(p) ==
    /\ Posting(p)
    /\ Apply(Request(p))
    /\ Goto(p, "mark")
    /\ UNCHANGED <<asked, rows, sent, wire, bound>>

\* A call of Gitea that fails or times out: it was not carried out, it was and
\* only the answer is lost, or it still will be.
ListFails(p) ==
    /\ At(p, "list")
    /\ Spend("failure")
    /\ Goto(p, "fail")
    /\ UNCHANGED <<asked, rows, remote>>

PostFails(p) ==
    /\ Posting(p)
    /\ Goto(p, "fail")
    /\ \/ Spend("failure") /\ UNCHANGED <<statuses, comments, wire>>
       \/ Spend("failure") /\ Apply(Request(p)) /\ UNCHANGED wire
       \/ Spend("overlap") /\ wire' = wire \union {Request(p)} /\ UNCHANGED <<statuses, comments>>
    /\ UNCHANGED <<asked, rows, sent>>

Arrive ==
    /\ \E request \in wire : Apply(request) /\ wire' = wire \ {request}
    /\ UNCHANGED <<asked, rows, publisher, sent, bound>>

\* Variant: the lease is not compared.
SettleAlways(p, settled) ==
    /\ rows' = [rows EXCEPT ![Row(p)] = settled]
    /\ publisher' = [publisher EXCEPT ![p] = IdlePoll]

\* Settling a row is conditional on the lease the poll took.
Settle(p, settled) ==
    /\ rows' = IF rows[Row(p)].lease = p THEN [rows EXCEPT ![Row(p)] = settled] ELSE rows
    /\ publisher' = [publisher EXCEPT ![p] = IdlePoll]

Mark(p) ==
    /\ At(p, "mark")
    /\ Settle(p, [rows[Row(p)] EXCEPT !.status = "DONE", !.lease = Nobody, !.live = FALSE])
    /\ UNCHANGED <<asked, remote, bound>>

MarkFails(p) ==
    /\ At(p, "mark")
    /\ Spend("failure")
    /\ Goto(p, "fail")
    /\ UNCHANGED <<asked, rows, remote>>

Fail(p) ==
    /\ At(p, "fail")
    /\ Settle(p, [rows[Row(p)] EXCEPT !.status = "FAILED", !.due = FALSE,
                                      !.lease = Nobody, !.live = FALSE])
    /\ UNCHANGED <<asked, remote, bound>>

Crash(p) ==
    /\ ~At(p, "idle")
    /\ Spend("failure")
    /\ publisher' = [publisher EXCEPT ![p] = IdlePoll]
    /\ UNCHANGED <<asked, rows, remote>>

-----------------------------------------------------------------------------
\* Does the poll that took the row's lease still work on it?
Attended(r) ==
    /\ rows[r].lease # Nobody
    /\ Row(rows[r].lease) = r
    /\ ~At(rows[r].lease, "idle")

LeaseExpires(r) ==
    /\ rows[r].live
    /\ IF Attended(r) THEN Spend("overlap") ELSE UNCHANGED bound
    /\ rows' = [rows EXCEPT ![r].live = FALSE]
    /\ UNCHANGED <<asked, publisher, remote>>

BackoffEnds(r) ==
    /\ ~rows[r].due
    /\ rows' = [rows EXCEPT ![r].due = TRUE]
    /\ UNCHANGED <<asked, publisher, remote, bound>>

-----------------------------------------------------------------------------
Works(p) ==
    \/ ClaimJob(p) \/ ClaimSync(p)
    \/ Dispatch(p) \/ List(p) \/ Post(p) \/ Mark(p) \/ Fail(p)

Next ==
    \/ \E j \in Jobs : Arm(j) \/ SweepArm(j)
    \/ \E r \in Syncs : Enqueue(r)
    \/ NextAttempt
    \/ \E p \in Publishers :
         \/ Works(p)
         \/ DispatchFails(p) \/ ListFails(p) \/ PostFails(p) \/ MarkFails(p) \/ Crash(p)
    \/ Arrive
    \/ \E r \in Rows : LeaseExpires(r) \/ BackoffEnds(r)

Spec == Init /\ [][Next]_vars

\* Timers poll, polls go on, leases nobody attends to run out, back-off times
\* end. Nobody has to ask for anything, and nothing has to fail.
Fairness ==
    /\ \A p \in Publishers : WF_vars(Works(p))
    /\ \A r \in Rows : WF_vars(~Attended(r) /\ LeaseExpires(r)) /\ WF_vars(BackoffEnds(r))

FairSpec == Spec /\ Fairness

-----------------------------------------------------------------------------
TypeOK ==
    /\ attempt \in Nat
    /\ rows \in [Rows -> RowRecord]
    /\ wanted \in [Syncs -> Versions]
    /\ overtaken \in BOOLEAN
    /\ publisher \in [Publishers -> PollState]
    /\ sent \subseteq Jobs
    /\ statuses \in Seq(Messages) /\ comments \in Seq(Messages)
    /\ wire \subseteq [op : {"create", "update"}, found : Nat, message : Messages]
    /\ bound \in [Events -> Nat]
    /\ \A r \in Rows : /\ rows[r].live => rows[r].lease # Nobody
                       /\ rows[r].status = "DONE" => rows[r].lease = Nobody

\* An outbox row says PUBLISHED only if its job has been sent since the row was
\* armed last: re-arming while a publisher is about to mark is not lost.
PublishedWasSent == \A j \in Jobs : rows[j].status = "DONE" => j \in sent

\* A row says SYNCED only if Gitea has been given exactly what the row asks for
\* now, although the publisher read it before and others may have changed it.
SyncedWasPosted ==
    \A r \in Statuses :
        rows[r].status = "DONE" => Contains(statuses, Says(r, rows[r].want))

\* What a row says was done has been done, for the row as it is now.
MarkedMeansDelivered == PublishedWasSent /\ SyncedWasPosted

\* The comment of an attempt is updated in place. One more is created only where
\* two publishers overlapped or Gitea acted on a request after its client gave up;
\* errors and crashes alone make no duplicate.
CommentsOf(r) == {i \in DOMAIN comments : comments[i].row = r}

CommentsAreUnique ==
    \A r \in Comments : Cardinality(CommentsOf(r)) <= 1 + Spent("overlap")

Undisturbed == Spent("overlap") = 0

\* When all is published, undisturbed, and no attempt was reported while an older
\* one was pending or after a newer one, Gitea shows each comment as asked for and, last
\* of all statuses, the one of the newest attempt reported - unless a handler's wish came
\* while a publisher held the row and was dropped.
Quiet == \A r \in Syncs : rows[r].status \in {"ABSENT", "DONE"} /\ rows[r].want = wanted[r]

Newest(r) == \A q \in Statuses : wanted[q] # 0 => AttemptOf[q] <= AttemptOf[r]

GiteaShowsTheLatest ==
    Quiet /\ Undisturbed =>
        /\ \A r \in Comments : wanted[r] # 0 => comments[Min(CommentsOf(r))] = Says(r, wanted[r])
        /\ \A r \in Statuses : wanted[r] # 0 /\ Newest(r) /\ ~overtaken
                                  => Last(statuses) = Says(r, wanted[r])

\* Every row that waits is delivered in the end, whatever failed before.
RowsAreDelivered ==
    \A r \in Rows : rows[r].status \in {"PENDING", "FAILED"} ~> rows[r].status = "DONE"
=============================================================================
