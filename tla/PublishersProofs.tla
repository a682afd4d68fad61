--------------------------- MODULE PublishersProofs ---------------------------
(***************************************************************************)
(* Theorems about the publishers, for any tables, any number of polls and  *)
(* any number of faults.                                                   *)
(***************************************************************************)
EXTENDS Publishers, TLAPS, FiniteSetTheorems, WellFoundedInduction, SequenceTheorems

\* The disjuncts of Next, named once for the step proofs below.
LEMMA NextCases ==
    ASSUME [Next]_vars
    PROVE  \/ \E j \in Jobs : Arm(j) \/ SweepArm(j)
           \/ \E r \in Syncs : Enqueue(r)
           \/ \E p \in Publishers : \E r \in Rows : \E place \in {"send", "list"} :
                /\ Claim(p, r, place)
                /\ \/ r \in Jobs /\ place = "send"
                   \/ r \in Syncs /\ place = "list"
           \/ \E p \in Publishers :
                \/ Dispatch(p) \/ List(p) \/ Post(p) \/ Mark(p) \/ Fail(p)
                \/ DispatchFails(p) \/ ListFails(p) \/ PostFails(p) \/ MarkFails(p) \/ Crash(p)
           \/ Arrive
           \/ \E r \in Rows : LeaseExpires(r) \/ BackoffEnds(r)
           \/ NextAttempt \/ UNCHANGED vars
  BY DEF Next, Works, ClaimJob, ClaimSync, Rows

\* Every set of numbers that is not empty has a least one.
LEMMA LeastExists ==
    ASSUME NEW S \in SUBSET Nat, S # {}
    PROVE  \E i \in S : \A k \in S : i <= k
<1>. DEFINE Less == {ss \in Nat \X Nat : ss[1] < ss[2]}
<1>1. IsWellFoundedOn(Less, Nat)
  BY NatLessThanWellFounded DEF OpToRel
<1>2. PICK i \in S : \A k \in S : <<k, i>> \notin Less
  <2>. HIDE DEF Less
  <2>. QED
    BY <1>1, WFMin
<1>3. \A k \in S : ~(k < i)
  BY <1>2
<1>. QED
  BY <1>3

\* What a poll finds in Gitea is a place to go on from, and the number of a comment.
LEMMA FindTyped ==
    ASSUME TypeOK, NEW p \in Publishers
    PROVE  Find(p).at \in Places /\ Find(p).found \in Nat
<1>. DEFINE mine == {i \in DOMAIN comments : comments[i].row = Row(p)}
            first == CHOOSE i \in mine : \A k \in mine : i <= k
<1>1. mine \in SUBSET Nat
  BY DEF TypeOK
<1>2. mine # {} => first \in Nat
  BY <1>1, LeastExists
<1>. HIDE DEF mine
<1>. QED
  BY <1>2 DEF Find, Places, mine

\* Storing a message anywhere leaves a sequence of messages.
LEMMA StoringKeepsMessages ==
    ASSUME NEW seq \in Seq(Messages), NEW i \in Nat, NEW m \in Messages
    PROVE  [seq EXCEPT ![i] = m] \in Seq(Messages)
<1>1. CASE i \in 1..Len(seq)
  BY <1>1, ExceptSeq
<1>2. CASE i \notin 1..Len(seq)
  <2>1. [seq EXCEPT ![i] = m] = seq
    BY <1>2
  <2>. QED
    BY <2>1
<1>. QED
  BY <1>1, <1>2

\* A step leaves the rows alone, or changes one of them; a row that is done is
\* under no lease.
RowIsSound(row) ==
    /\ row.live => row.lease # Nobody
    /\ row.status = "DONE" => row.lease = Nobody

LEMMA RowsAreSound ==
    ASSUME TypeOK
    PROVE  \A r \in Rows : RowIsSound(rows[r])
  BY DEF TypeOK, RowIsSound

LEMMA OneRowChanges ==
    ASSUME TypeOK, [Next]_vars
    PROVE  \/ rows' = rows
           \/ \E r \in Rows, row \in RowRecord :
                RowIsSound(row) /\ rows' = [rows EXCEPT ![r] = row]
<1>. DEFINE Goal == \/ rows' = rows
                    \/ \E r \in Rows, row \in RowRecord :
                         RowIsSound(row) /\ rows' = [rows EXCEPT ![r] = row]
<1>. USE PublishersAssumption DEF RowRecord, RowStatuses, Versions, RowIsSound
<1>1. ASSUME NEW j \in Jobs, Arm(j) \/ SweepArm(j) PROVE Goal
  <2>1. Armed(0) \in RowRecord /\ RowIsSound(Armed(0))
    BY DEF Armed
  <2>. QED
    BY <1>1, <2>1 DEF Arm, SweepArm, Rows
<1>2. ASSUME NEW r \in Syncs, Enqueue(r) PROVE Goal
  <2>1. \A version \in Versions : Armed(version) \in RowRecord /\ RowIsSound(Armed(version))
    BY DEF Armed
  <2>2. r \in Rows
    BY DEF Rows
  <2>. QED
    BY <1>2, <2>1, <2>2 DEF Enqueue
<1>3. ASSUME NEW p \in Publishers, NEW r \in Rows, NEW place \in {"send", "list"}, Claim(p, r, place)
      PROVE  Goal
  <2>. DEFINE row == [rows[r] EXCEPT !.lease = p, !.live = TRUE]
  <2>1. rows[r] \in RowRecord /\ rows[r].status # "DONE"
    BY <1>3 DEF TypeOK, Claim, Claimable
  <2>2. row \in RowRecord /\ RowIsSound(row)
    BY <2>1
  <2>3. rows' = [rows EXCEPT ![r] = row]
    BY <1>3, <2>1 DEF Claim, TypeOK
  <2>. QED
    BY <2>2, <2>3
<1>4. ASSUME NEW p \in Publishers, Mark(p) \/ Fail(p) PROVE Goal
  <2>. DEFINE old  == rows[Row(p)]
              done == [old EXCEPT !.status = "DONE", !.lease = Nobody, !.live = FALSE]
              fail == [old EXCEPT !.status = "FAILED", !.due = FALSE, !.lease = Nobody, !.live = FALSE]
  <2>1. Row(p) \in Rows /\ old \in RowRecord
    BY DEF TypeOK, PollState, Row
  <2>2. done \in RowRecord /\ RowIsSound(done) /\ fail \in RowRecord /\ RowIsSound(fail)
    BY <2>1
  <2>3. \/ rows' = rows \/ rows' = [rows EXCEPT ![Row(p)] = done]
        \/ rows' = [rows EXCEPT ![Row(p)] = fail]
    BY <1>4 DEF Mark, Fail, Settle
  <2>. HIDE DEF done, fail
  <2>. QED
    BY <2>1, <2>2, <2>3
<1>5. ASSUME NEW r \in Rows, LeaseExpires(r) \/ BackoffEnds(r) PROVE Goal
  <2>. DEFINE over == [rows[r] EXCEPT !.live = FALSE]
              due  == [rows[r] EXCEPT !.due = TRUE]
  <2>1. rows[r] \in RowRecord /\ RowIsSound(rows[r])
    <3>1. rows[r] \in RowRecord
      BY DEF TypeOK
    <3>. QED
      BY <3>1, RowsAreSound
  <2>2. over \in RowRecord /\ RowIsSound(over) /\ due \in RowRecord /\ RowIsSound(due)
    BY <2>1
  <2>3. rows' = [rows EXCEPT ![r] = over] \/ rows' = [rows EXCEPT ![r] = due]
    BY <1>5, <2>1 DEF LeaseExpires, BackoffEnds, TypeOK
  <2>. HIDE DEF over, due
  <2>. QED
    BY <2>2, <2>3
<1>6. ASSUME NEW p \in Publishers,
             \/ Dispatch(p) \/ List(p) \/ Post(p) \/ DispatchFails(p) \/ ListFails(p)
             \/ PostFails(p) \/ MarkFails(p) \/ Crash(p)
      PROVE  Goal
  BY <1>6 DEF Dispatch, List, Post, DispatchFails, ListFails, PostFails, MarkFails, Crash
<1>. QED
  BY NextCases, <1>1, <1>2, <1>3, <1>4, <1>5, <1>6 DEF Arrive, NextAttempt, vars

\* Where a poll may be, by what its step before leaves it with.
LEMMA PollsTyped ==
    ASSUME TypeOK, [Next]_vars
    PROVE  publisher' \in [Publishers -> PollState]
<1>. DEFINE Goal == publisher' \in [Publishers -> PollState]
<1>. USE PublishersAssumption
<1>1. IdlePoll \in PollState
  BY DEF IdlePoll, PollState, Places, Versions
<1>2. ASSUME NEW p \in Publishers, NEW r \in Rows, NEW place \in {"send", "list"}, Claim(p, r, place)
      PROVE  Goal
  <2>. DEFINE poll == [at |-> place, row |-> r, version |-> rows[r].want, found |-> 0]
  <2>1. rows[r].want \in Versions
    BY DEF TypeOK, RowRecord
  <2>2. poll \in PollState
    BY <2>1 DEF PollState, Places
  <2>3. publisher' = [publisher EXCEPT ![p] = poll]
    BY <1>2 DEF Claim
  <2>. HIDE DEF poll
  <2>. QED
    BY <2>2, <2>3 DEF TypeOK
<1>3. ASSUME NEW p \in Publishers, NEW place \in Places, NEW found \in Nat,
             \/ Goto(p, place)
             \/ publisher' = [publisher EXCEPT ![p].at = place, ![p].found = found]
      PROVE  Goal
  <2>. DEFINE moved == [publisher[p] EXCEPT !.at = place]
              finds == [publisher[p] EXCEPT !.at = place, !.found = found]
  <2>1. publisher[p] \in PollState
    BY DEF TypeOK
  <2>2. moved \in PollState /\ finds \in PollState
    BY <2>1 DEF PollState
  <2>3. publisher' = [publisher EXCEPT ![p] = moved] \/ publisher' = [publisher EXCEPT ![p] = finds]
    BY <1>3 DEF Goto, TypeOK, PollState
  <2>. HIDE DEF moved, finds
  <2>. QED
    BY <2>2, <2>3 DEF TypeOK
<1>4. ASSUME NEW p \in Publishers, publisher' = [publisher EXCEPT ![p] = IdlePoll] PROVE Goal
  BY <1>1, <1>4 DEF TypeOK
<1>5. ASSUME NEW p \in Publishers, List(p) PROVE Goal
  BY <1>3, <1>5, FindTyped DEF List
<1>6. ASSUME NEW p \in Publishers,
             Dispatch(p) \/ Post(p) \/ DispatchFails(p) \/ ListFails(p) \/ PostFails(p) \/ MarkFails(p)
      PROVE  Goal
  <2>1. Goto(p, "mark") \/ Goto(p, "fail")
    BY <1>6 DEF Dispatch, Post, DispatchFails, ListFails, PostFails, MarkFails
  <2>. QED
    BY <1>3, <2>1 DEF Places
<1>7. ASSUME NEW p \in Publishers, Mark(p) \/ Fail(p) \/ Crash(p) PROVE Goal
  BY <1>4, <1>7 DEF Mark, Fail, Crash, Settle
<1>. QED
  BY NextCases, <1>2, <1>5, <1>6, <1>7
     DEF Arm, SweepArm, Enqueue, Arrive, LeaseExpires, BackoffEnds, NextAttempt, vars, TypeOK

Requests == [op : {"create", "update"}, found : Nat, message : Messages]

\* A poll that posts does so for a row of gitea_syncs.
PlacesFitRows ==
    \A p \in Publishers :
        /\ publisher[p].at = "send" => Row(p) \in Jobs
        /\ publisher[p].at \in {"list", "create", "update"} => Row(p) \in Syncs

LEMMA RequestTyped ==
    ASSUME TypeOK, PlacesFitRows, NEW p \in Publishers, Posting(p)
    PROVE  Request(p) \in Requests
<1>1. publisher[p] \in PollState /\ Row(p) \in Syncs /\ publisher[p].at \in {"create", "update"}
  BY DEF TypeOK, PlacesFitRows, Posting, At
<1>. QED
  BY <1>1 DEF Request, Requests, Messages, Says, PollState

LEMMA AppliedTyped ==
    ASSUME TypeOK, NEW request \in Requests, Apply(request)
    PROVE  statuses' \in Seq(Messages) /\ comments' \in Seq(Messages)
<1>1. statuses \in Seq(Messages) /\ comments \in Seq(Messages)
  BY DEF TypeOK
<1>2. request.message \in Messages /\ request.found \in Nat
  BY DEF Requests
<1>3. Append(statuses, request.message) \in Seq(Messages)
      /\ Append(comments, request.message) \in Seq(Messages)
  BY <1>1, <1>2
<1>4. [comments EXCEPT ![request.found] = request.message] \in Seq(Messages)
  BY <1>1, <1>2, StoringKeepsMessages
<1>. QED
  BY <1>1, <1>3, <1>4 DEF Apply

LEMMA PlacesKeepFitting ==
    ASSUME TypeOK, PlacesFitRows, [Next]_vars
    PROVE  PlacesFitRows'
<1>. DEFINE Fits(poll) ==
              /\ poll.at = "send" => poll.row \in Jobs
              /\ poll.at \in {"list", "create", "update"} => poll.row \in Syncs
<1>. SUFFICES ASSUME NEW q \in Publishers PROVE Fits(publisher'[q])
  BY DEF PlacesFitRows, Row
<1>0. Fits(publisher[q]) /\ publisher[q] \in PollState
  BY DEF PlacesFitRows, Row, TypeOK
<1>1. ASSUME NEW p \in Publishers, NEW r \in Rows, NEW place \in {"send", "list"},
             Claim(p, r, place),
             (r \in Jobs /\ place = "send") \/ (r \in Syncs /\ place = "list")
      PROVE  Fits(publisher'[q])
  BY <1>0, <1>1 DEF Claim, TypeOK
<1>2. ASSUME NEW p \in Publishers, List(p) PROVE Fits(publisher'[q])
  <2>1. Row(p) \in Syncs
    BY <1>2 DEF PlacesFitRows, List, At
  <2>2. q = p => publisher'[q].row = Row(p)
    BY <1>0, <1>2 DEF List, TypeOK, PollState, Row
  <2>3. q # p => publisher'[q] = publisher[q]
    BY <1>2 DEF List, TypeOK
  <2>4. q = p => publisher'[q].at = Find(p).at /\ Find(p).at # "send"
    BY <1>0, <1>2 DEF List, TypeOK, PollState, Find
  <2>. QED
    BY <1>0, <2>1, <2>2, <2>3, <2>4
<1>3. ASSUME NEW p \in Publishers, Goto(p, "mark") \/ Goto(p, "fail") PROVE Fits(publisher'[q])
  BY <1>0, <1>3 DEF Goto, TypeOK, PollState
<1>4. ASSUME NEW p \in Publishers, publisher' = [publisher EXCEPT ![p] = IdlePoll]
      PROVE  Fits(publisher'[q])
  BY <1>0, <1>4 DEF IdlePoll, TypeOK
<1>5. ASSUME NEW p \in Publishers,
             Dispatch(p) \/ Post(p) \/ DispatchFails(p) \/ ListFails(p) \/ PostFails(p) \/ MarkFails(p)
      PROVE  Goto(p, "mark") \/ Goto(p, "fail")
  BY <1>5 DEF Dispatch, Post, DispatchFails, ListFails, PostFails, MarkFails
<1>6. ASSUME NEW p \in Publishers, Mark(p) \/ Fail(p) \/ Crash(p)
      PROVE  publisher' = [publisher EXCEPT ![p] = IdlePoll]
  BY <1>6 DEF Mark, Fail, Crash, Settle
<1>7. CASE publisher' = publisher
  BY <1>0, <1>7
<1>8. \/ \E p \in Publishers : \E r \in Rows : \E place \in {"send", "list"} :
           /\ Claim(p, r, place)
           /\ \/ r \in Jobs /\ place = "send"
              \/ r \in Syncs /\ place = "list"
      \/ \E p \in Publishers :
           \/ Dispatch(p) \/ List(p) \/ Post(p) \/ Mark(p) \/ Fail(p)
           \/ DispatchFails(p) \/ ListFails(p) \/ PostFails(p) \/ MarkFails(p) \/ Crash(p)
      \/ publisher' = publisher
  BY NextCases DEF Arm, SweepArm, Enqueue, Arrive, LeaseExpires, BackoffEnds, NextAttempt, vars
<1>. HIDE DEF Fits
<1>. QED
  BY <1>1, <1>2, <1>3, <1>4, <1>5, <1>6, <1>7, <1>8

\* Type correctness, by the invariant that a poll's place fits its row: what is
\* posted is a message of gitea_syncs.
TypeInv == TypeOK /\ PlacesFitRows

LEMMA TypeInvInit ==
    ASSUME Init
    PROVE  TypeInv
<1>. USE PublishersAssumption
<1>1. IdlePoll \in PollState
  BY DEF IdlePoll, PollState, Places, Versions
<1>2. rows \in [Rows -> RowRecord] /\ publisher \in [Publishers -> PollState]
  BY <1>1 DEF Init, NoRow, RowRecord, RowStatuses, Versions
<1>3. <<>> \in Seq(Messages)
  OBVIOUS
<1>4. PlacesFitRows
  BY DEF Init, IdlePoll, PlacesFitRows
<1>5. wanted \in [Syncs -> Versions]
  BY DEF Init, Versions
<1>6. \A r \in Rows : RowIsSound(rows[r])
  BY DEF Init, NoRow, RowIsSound
<1>. QED
  BY <1>2, <1>3, <1>4, <1>5, <1>6 DEF Init, TypeInv, TypeOK, RowIsSound

\* Gitea changes by requests that polls have made.
LEMMA GiteaChanges ==
    ASSUME TypeInv, [Next]_vars
    PROVE  \/ statuses' = statuses /\ comments' = comments
           \/ \E request \in Requests : Apply(request)
<1>. USE DEF TypeInv
<1>1. ASSUME NEW p \in Publishers, Post(p) \/ PostFails(p)
      PROVE  \/ statuses' = statuses /\ comments' = comments
             \/ \E request \in Requests : Apply(request)
  BY <1>1, RequestTyped DEF Post, PostFails
<1>2. Arrive => \E request \in Requests : Apply(request)
  BY DEF Arrive, TypeOK, Requests
<1>. QED
  BY NextCases, <1>1, <1>2 DEF NextAttempt, Arm, SweepArm, Enqueue, Claim, Dispatch, List,
     Mark, Fail, DispatchFails, ListFails, MarkFails, Crash, LeaseExpires, BackoffEnds,
     vars, remote

\* What the steps do to the variables that few of them change.
LEMMA OthersTyped ==
    ASSUME TypeInv, [Next]_vars
    PROVE  /\ attempt' \in Nat /\ overtaken' \in BOOLEAN
           /\ wanted' \in [Syncs -> Versions]
           /\ sent' \subseteq Jobs
           /\ bound' \in [Events -> Nat]
           /\ statuses' \in Seq(Messages) /\ comments' \in Seq(Messages)
           /\ wire' \subseteq Requests
<1>. USE DEF TypeInv
<1>1. attempt' \in Nat
  <2>1. attempt' = attempt \/ NextAttempt
    BY NextCases DEF Arm, SweepArm, Enqueue, Claim, Dispatch, List, Post, Mark, Fail,
       DispatchFails, ListFails, PostFails, MarkFails, Crash, Arrive, LeaseExpires,
       BackoffEnds, vars, asked
  <2>2. NextAttempt => attempt' \in Nat
    BY DEF NextAttempt, TypeOK
  <2>. QED
    BY <2>1, <2>2 DEF TypeOK
<1>2. wanted' \in [Syncs -> Versions] /\ overtaken' \in BOOLEAN
  <2>1. (wanted' = wanted /\ overtaken' = overtaken) \/ \E r \in Syncs : Enqueue(r)
    BY NextCases DEF NextAttempt, Arm, SweepArm, Claim, Dispatch, List, Post, Mark,
       Fail, DispatchFails, ListFails, PostFails, MarkFails, Crash, Arrive, LeaseExpires,
       BackoffEnds, vars, asked
  <2>2. ASSUME NEW r \in Syncs, Enqueue(r) PROVE wanted' \in [Syncs -> Versions]
    BY <2>2 DEF Enqueue, TypeOK
  <2>3. ASSUME NEW r \in Syncs, Enqueue(r) PROVE overtaken' \in BOOLEAN
    BY <2>3 DEF Enqueue
  <2>. QED
    BY <2>1, <2>2, <2>3 DEF TypeOK
<1>3. sent' \subseteq Jobs
  <2>1. ASSUME NEW p \in Publishers, At(p, "send") PROVE Row(p) \in Jobs
    BY <2>1 DEF PlacesFitRows, At
  <2>. QED
    BY NextCases, <2>1 DEF TypeOK, NextAttempt, Arm, SweepArm, Enqueue, Claim, Dispatch, List,
       Post, Mark, Fail, DispatchFails, ListFails, PostFails, MarkFails, Crash, Arrive,
       LeaseExpires, BackoffEnds, vars, remote
<1>4. bound' \in [Events -> Nat]
  <2>1. ASSUME NEW e \in Events, Spend(e) PROVE bound' \in [Events -> Nat]
    BY <2>1 DEF Spend, TypeOK
  <2>2. bound' = bound \/ \E e \in Events : Spend(e)
    BY NextCases DEF Events, NextAttempt, Arm, SweepArm, Enqueue, Claim, Dispatch, List, Post,
       Mark, Fail, DispatchFails, ListFails, PostFails, MarkFails, Crash, Arrive, LeaseExpires,
       BackoffEnds, vars
  <2>. QED
    BY <2>1, <2>2 DEF TypeOK
<1>6. statuses' \in Seq(Messages) /\ comments' \in Seq(Messages)
  BY GiteaChanges, AppliedTyped DEF TypeOK
<1>7. wire' \subseteq Requests
  <2>1. ASSUME NEW p \in Publishers, PostFails(p) PROVE wire' \subseteq Requests
    BY <2>1, RequestTyped DEF PostFails, TypeOK, Requests
  <2>. QED
    BY NextCases, <2>1 DEF NextAttempt, Arm, SweepArm, Enqueue, Claim, Dispatch, List, Post,
       Mark, Fail, DispatchFails, ListFails, MarkFails, Crash, Arrive, LeaseExpires,
       BackoffEnds, vars, remote, TypeOK, Requests
<1>. QED
  BY <1>1, <1>2, <1>3, <1>4, <1>6, <1>7

LEMMA TypeInvNext ==
    ASSUME TypeInv, [Next]_vars
    PROVE  TypeInv'
<1>1. PlacesFitRows' /\ publisher' \in [Publishers -> PollState]
  BY PlacesKeepFitting, PollsTyped DEF TypeInv
<1>2. rows' \in [Rows -> RowRecord]
  BY OneRowChanges DEF TypeInv, TypeOK
<1>3. \A r \in Rows : RowIsSound(rows'[r])
  BY OneRowChanges, RowsAreSound DEF TypeInv, TypeOK
<1>. QED
  BY <1>1, <1>2, <1>3, OthersTyped DEF TypeInv, TypeOK, RowIsSound, Requests

\* Type correctness: both tables, every poll, and what Gitea and the queue were
\* given keep their types, and a row that is done is under no lease.
THEOREM TypeCorrect == Spec => []TypeOK
<1>1. TypeInv /\ UNCHANGED vars => TypeInv'
  BY TypeInvNext
<1>2. TypeInv => TypeOK
  BY DEF TypeInv
<1>. QED
  BY TypeInvInit, TypeInvNext, <1>2, PTL DEF Spec

-----------------------------------------------------------------------------
\* A poll under whose lease a row is knows what the row asks for, and when it is
\* about to mark the row it has delivered just that.
Holds(p) == publisher[p].at # "idle" /\ rows[Row(p)].lease = p

PollsKnowTheirRows ==
    \A p \in Publishers : Holds(p) => publisher[p].version = rows[Row(p)].want

Delivered(r, version) ==
    /\ r \in Jobs => r \in sent
    /\ r \in Statuses => Contains(statuses, Says(r, version))

MarkersHaveDelivered ==
    \A p \in Publishers :
        publisher[p].at = "mark" /\ Holds(p) => Delivered(Row(p), publisher[p].version)

DeliveryInv ==
    TypeInv /\ PollsKnowTheirRows /\ MarkersHaveDelivered /\ MarkedMeansDelivered

\* What has been delivered stays so, until a row is armed.
LEMMA DeliveredStands ==
    ASSUME TypeInv, [Next]_vars, NEW r \in Rows, NEW version \in Versions, Delivered(r, version)
    PROVE  Delivered(r, version)' \/ rows'[r] = Armed(0)
<1>1. r \in Jobs => r \in sent' \/ rows'[r] = Armed(0)
  <2>1. sent \subseteq sent' \/ \E j \in Jobs : (Arm(j) \/ SweepArm(j)) /\ sent' = sent \ {j}
    BY NextCases DEF NextAttempt, Arm, SweepArm, Enqueue, Claim, Dispatch, List, Post, Mark, Fail,
       DispatchFails, ListFails, PostFails, MarkFails, Crash, Arrive, LeaseExpires,
       BackoffEnds, vars, remote
  <2>2. ASSUME NEW j \in Jobs, Arm(j) \/ SweepArm(j) PROVE rows'[j] = Armed(0)
    BY <2>2 DEF Arm, SweepArm, TypeInv, TypeOK, Rows
  <2>. QED
    BY <2>1, <2>2 DEF Delivered
<1>2. r \in Statuses => Contains(statuses', Says(r, version))
  <2>1. statuses \in Seq(Messages)
    BY DEF TypeInv, TypeOK
  <2>2. statuses' = statuses \/ \E m \in Messages : statuses' = Append(statuses, m)
    BY GiteaChanges DEF Apply, Requests
  <2>. QED
    BY <2>1, <2>2 DEF Delivered, Contains
<1>. QED
  BY <1>1, <1>2 DEF Delivered

\* A poll that holds a row has just claimed it, or held it before, and the row asks
\* for the same.
LEMMA HoldingStep ==
    ASSUME TypeInv, [Next]_vars, NEW q \in Publishers, Holds(q)'
    PROVE  \/ \E r \in Rows, place \in {"send", "list"} : Claim(q, r, place)
           \/ /\ Holds(q)
              /\ publisher'[q].row = Row(q) /\ publisher'[q].version = publisher[q].version
              /\ rows'[Row(q)].want = rows[Row(q)].want
<1>. DEFINE Same == /\ Holds(q)
                    /\ publisher'[q].row = Row(q) /\ publisher'[q].version = publisher[q].version
                    /\ rows'[Row(q)].want = rows[Row(q)].want
            Moved == \/ publisher'[q] = publisher[q]
                     \/ /\ publisher[q].at # "idle"
                        /\ publisher'[q].row = Row(q)
                        /\ publisher'[q].version = publisher[q].version
<1>. USE PublishersAssumption
<1>1. /\ publisher[q] \in PollState /\ Row(q) \in Rows
      /\ \A p \in Publishers : Row(p) \in Rows
      /\ rows \in [Rows -> RowRecord]
  BY DEF TypeInv, TypeOK, PollState, Row
<1>2. /\ publisher'[q].at # "idle"
      /\ rows'[publisher'[q].row].lease = q
  BY DEF Holds, Row
<1>3. ASSUME Moved, rows' = rows PROVE Same
  BY <1>1, <1>2, <1>3 DEF Holds, Row
<1>4. ASSUME NEW r \in Rows, NEW row, rows' = [rows EXCEPT ![r] = row],
             row.lease = Nobody \/ row.lease # q, publisher'[q] = publisher[q]
      PROVE  Same
  <2>1. Row(q) # r
    BY <1>1, <1>2, <1>4 DEF Row
  <2>. QED
    BY <1>1, <1>2, <1>4, <2>1 DEF Holds, Row
<1>5. ASSUME NEW j \in Rows, NEW version, rows' = [rows EXCEPT ![j] = Armed(version)],
             publisher' = publisher
      PROVE  Same
  BY <1>4, <1>5 DEF Armed
<1>6. ASSUME NEW p \in Publishers \ {q}, NEW r \in Rows, NEW place \in {"send", "list"},
             Claim(p, r, place)
      PROVE  Same
  <2>. DEFINE row == [rows[r] EXCEPT !.lease = p, !.live = TRUE]
  <2>1. rows' = [rows EXCEPT ![r] = row] /\ row.lease = p
    BY <1>1, <1>6 DEF Claim, RowRecord
  <2>2. publisher'[q] = publisher[q]
    BY <1>6 DEF Claim, TypeInv, TypeOK
  <2>. HIDE DEF row
  <2>. QED
    BY <1>4, <2>1, <2>2
<1>7. ASSUME NEW p \in Publishers, NEW row, Settle(p, row), row.lease = Nobody PROVE Same
  <2>1. p # q
    BY <1>2, <1>7 DEF Settle, IdlePoll, TypeInv, TypeOK
  <2>2. publisher'[q] = publisher[q]
    BY <1>7, <2>1 DEF Settle, TypeInv, TypeOK
  <2>3. rows' = rows \/ rows' = [rows EXCEPT ![Row(p)] = row]
    BY <1>7 DEF Settle
  <2>. QED
    BY <1>1, <1>3, <1>4, <1>7, <2>2, <2>3
<1>8. ASSUME NEW p \in Publishers, Mark(p) \/ Fail(p) PROVE Same
  <2>. DEFINE old  == rows[Row(p)]
              done == [old EXCEPT !.status = "DONE", !.lease = Nobody, !.live = FALSE]
              fail == [old EXCEPT !.status = "FAILED", !.due = FALSE, !.lease = Nobody, !.live = FALSE]
  <2>1. done.lease = Nobody /\ fail.lease = Nobody
    BY <1>1 DEF RowRecord
  <2>2. Settle(p, done) \/ Settle(p, fail)
    BY <1>8 DEF Mark, Fail
  <2>. HIDE DEF done, fail
  <2>. QED
    BY <1>7, <2>1, <2>2
<1>9. ASSUME NEW p \in Publishers,
             \/ Dispatch(p) \/ List(p) \/ Post(p) \/ DispatchFails(p) \/ ListFails(p)
             \/ PostFails(p) \/ MarkFails(p)
      PROVE  Same
  <2>1. publisher[p].at # "idle" /\ rows' = rows
    BY <1>9 DEF Dispatch, List, Post, Posting, DispatchFails, ListFails, PostFails, MarkFails, At
  <2>2. \/ \E place : publisher' = [publisher EXCEPT ![p].at = place]
        \/ \E place, found : publisher' = [publisher EXCEPT ![p].at = place, ![p].found = found]
    BY <1>9 DEF Dispatch, List, Post, DispatchFails, ListFails, PostFails, MarkFails, Goto
  <2>3. Moved
    <3>1. CASE p # q
      <4>1. publisher'[q] = publisher[q]
        BY <2>2, <3>1 DEF TypeInv, TypeOK
      <4>. QED
        BY <4>1
    <3>2. CASE p = q
      <4>1. ASSUME NEW place, NEW found
            PROVE  /\ [publisher EXCEPT ![q].at = place][q].row = Row(q)
                   /\ [publisher EXCEPT ![q].at = place][q].version = publisher[q].version
                   /\ [publisher EXCEPT ![q].at = place, ![q].found = found][q].row = Row(q)
                   /\ [publisher EXCEPT ![q].at = place, ![q].found = found][q].version
                        = publisher[q].version
        BY <1>1 DEF TypeInv, TypeOK, PollState, Row
      <4>2. publisher'[q].row = Row(q) /\ publisher'[q].version = publisher[q].version
        <5>1. CASE \E place : publisher' = [publisher EXCEPT ![p].at = place]
          <6>1. PICK place : publisher' = [publisher EXCEPT ![q].at = place]
            BY <3>2, <5>1
          <6>. QED
            BY <4>1, <6>1
        <5>2. CASE \E place, found : publisher' = [publisher EXCEPT ![p].at = place, ![p].found = found]
          <6>1. PICK place, found : publisher' = [publisher EXCEPT ![q].at = place, ![q].found = found]
            BY <3>2, <5>2
          <6>. QED
            BY <4>1, <6>1
        <5>. QED
          BY <2>2, <5>1, <5>2
      <4>. QED
        BY <2>1, <3>2, <4>2 DEF Row
    <3>. QED
      BY <3>1, <3>2
  <2>. QED
    BY <1>3, <2>1, <2>3
<1>10. ASSUME NEW p \in Publishers, Crash(p) PROVE Same
  <2>1. p # q
    BY <1>2, <1>10 DEF Crash, IdlePoll, TypeInv, TypeOK
  <2>2. publisher'[q] = publisher[q] /\ rows' = rows
    BY <1>10, <2>1 DEF Crash, TypeInv, TypeOK
  <2>. QED
    BY <1>3, <2>2
<1>11. ASSUME NEW r \in Rows, LeaseExpires(r) \/ BackoffEnds(r) PROVE Same
  <2>1. publisher' = publisher
    BY <1>11 DEF LeaseExpires, BackoffEnds
  <2>2. \A x \in Rows : rows'[x].lease = rows[x].lease /\ rows'[x].want = rows[x].want
    BY <1>1, <1>11 DEF LeaseExpires, BackoffEnds, RowRecord
  <2>. QED
    BY <1>1, <1>2, <2>1, <2>2 DEF Holds, Row
<1>12. CASE publisher' = publisher /\ rows' = rows
  BY <1>3, <1>12
<1>. HIDE DEF Same
<1>13. \/ \E j \in Rows : \E version : rows' = [rows EXCEPT ![j] = Armed(version)] /\ publisher' = publisher
       \/ publisher' = publisher /\ rows' = rows
       \/ \E p \in Publishers : \E r \in Rows : \E place \in {"send", "list"} : Claim(p, r, place)
       \/ \E p \in Publishers :
            \/ Dispatch(p) \/ List(p) \/ Post(p) \/ Mark(p) \/ Fail(p)
            \/ DispatchFails(p) \/ ListFails(p) \/ PostFails(p) \/ MarkFails(p) \/ Crash(p)
       \/ \E r \in Rows : LeaseExpires(r) \/ BackoffEnds(r)
  BY NextCases DEF Arm, SweepArm, Enqueue, Arrive, NextAttempt, vars, Rows
<1>. QED
  BY <1>5, <1>6, <1>8, <1>9, <1>10, <1>11, <1>12, <1>13 DEF Same

LEMMA PollsKeepKnowing ==
    ASSUME DeliveryInv, [Next]_vars
    PROVE  PollsKnowTheirRows'
<1>. SUFFICES ASSUME NEW q \in Publishers, Holds(q)'
              PROVE  publisher'[q].version = rows'[publisher'[q].row].want
  BY DEF PollsKnowTheirRows, Row
<1>1. ASSUME NEW r \in Rows, NEW place \in {"send", "list"}, Claim(q, r, place)
      PROVE  publisher'[q].version = rows'[publisher'[q].row].want
  <2>1. publisher'[q].version = rows[r].want /\ publisher'[q].row = r
    BY <1>1 DEF Claim, DeliveryInv, TypeInv, TypeOK
  <2>2. rows'[r].want = rows[r].want
    BY <1>1 DEF Claim, DeliveryInv, TypeInv, TypeOK, RowRecord
  <2>. QED
    BY <2>1, <2>2
<1>. QED
  BY <1>1, HoldingStep DEF DeliveryInv, PollsKnowTheirRows

\* A poll that gets as far as marking its row has delivered what it knows of it.
LEMMA MarkingIsReached ==
    ASSUME TypeInv, [Next]_vars, NEW q \in Publishers,
           publisher'[q].at = "mark", publisher[q].at # "mark"
    PROVE  Delivered(Row(q), publisher[q].version)'
<1>. DEFINE Goal == Delivered(Row(q), publisher[q].version)'
<1>. USE PublishersAssumption
<1>1. publisher[q] \in PollState /\ statuses \in Seq(Messages)
  BY DEF TypeInv, TypeOK
<1>2. \/ Dispatch(q) \/ List(q) \/ Post(q)
  <2>1. ASSUME NEW p \in Publishers, NEW r \in Rows, NEW place \in {"send", "list"}, Claim(p, r, place)
        PROVE  FALSE
    BY <2>1 DEF Claim, TypeInv, TypeOK
  <2>2. ASSUME NEW p \in Publishers, Dispatch(p) \/ List(p) \/ Post(p), p # q PROVE FALSE
    BY <2>2 DEF Dispatch, List, Post, Goto, TypeInv, TypeOK
  <2>3. ASSUME NEW p \in Publishers, publisher' = [publisher EXCEPT ![p] = IdlePoll] PROVE FALSE
    BY <2>3 DEF IdlePoll, TypeInv, TypeOK
  <2>4. ASSUME NEW p \in Publishers, Goto(p, "fail") PROVE FALSE
    BY <1>1, <2>4 DEF Goto, TypeInv, TypeOK, PollState
  <2>5. publisher' # publisher
    OBVIOUS
  <2>6. ASSUME NEW p \in Publishers,
               \/ Mark(p) \/ Fail(p) \/ DispatchFails(p) \/ ListFails(p) \/ PostFails(p)
               \/ MarkFails(p) \/ Crash(p)
        PROVE  FALSE
    BY <2>3, <2>4, <2>6
       DEF Mark, Fail, Settle, DispatchFails, ListFails, PostFails, MarkFails, Crash
  <2>. QED
    BY NextCases, <2>1, <2>2, <2>5, <2>6
       DEF Arm, SweepArm, Enqueue, Arrive, LeaseExpires, BackoffEnds, NextAttempt, vars
<1>3. CASE Dispatch(q)
  <2>1. Row(q) \in Jobs /\ Row(q) \notin Statuses
    BY <1>3 DEF Dispatch, At, TypeInv, PlacesFitRows, Syncs
  <2>2. publisher'[q].row = Row(q)
    BY <1>1, <1>3 DEF Dispatch, Goto, TypeInv, TypeOK, PollState, Row
  <2>3. Row(q) \in sent'
    BY <1>3 DEF Dispatch
  <2>. QED
    BY <2>1, <2>2, <2>3 DEF Delivered, Row
<1>4. CASE List(q)
  <2>1. Row(q) \notin Jobs /\ statuses' = statuses
    BY <1>4 DEF List, At, TypeInv, PlacesFitRows, remote
  <2>2. /\ publisher'[q].row = Row(q) /\ publisher'[q].version = publisher[q].version
        /\ publisher'[q].at = Find(q).at
    BY <1>1, <1>4 DEF List, TypeInv, TypeOK, PollState, Row
  <2>3. Row(q) \in Statuses => Contains(statuses, Says(Row(q), publisher[q].version))
    BY <2>2 DEF Find, MatchesAStatus
  <2>. QED
    BY <2>1, <2>2, <2>3 DEF Delivered, Row
<1>5. CASE Post(q)
  <2>1. Row(q) \notin Jobs
    BY <1>5 DEF Post, Posting, At, TypeInv, PlacesFitRows
  <2>2. publisher'[q].row = Row(q) /\ publisher'[q].version = publisher[q].version
    BY <1>1, <1>5 DEF Post, Goto, TypeInv, TypeOK, PollState, Row
  <2>3. Row(q) \in Statuses => statuses' = Append(statuses, Says(Row(q), publisher[q].version))
    <3>1. /\ Request(q).message = Says(Row(q), publisher[q].version)
          /\ Request(q).message.row = Row(q)
      BY DEF Request, Says
    <3>2. Apply(Request(q))
      BY <1>5 DEF Post
    <3>. QED
      BY <3>1, <3>2 DEF Apply
  <2>4. Row(q) \in Statuses => Contains(statuses', Says(Row(q), publisher[q].version))
    BY <1>1, <2>3 DEF Contains
  <2>. QED
    BY <2>1, <2>2, <2>4 DEF Delivered, Row
<1>. QED
  BY <1>2, <1>3, <1>4, <1>5

LEMMA MarkersKeepDelivering ==
    ASSUME DeliveryInv, [Next]_vars
    PROVE  MarkersHaveDelivered'
<1>. SUFFICES ASSUME NEW q \in Publishers, publisher'[q].at = "mark", Holds(q)'
              PROVE  Delivered(Row(q), publisher[q].version)'
  BY DEF MarkersHaveDelivered
<1>. USE PublishersAssumption DEF DeliveryInv
<1>1. CASE publisher[q].at # "mark"
  BY <1>1, MarkingIsReached
<1>2. CASE publisher[q].at = "mark"
  <2>1. ~\E r \in Rows, place \in {"send", "list"} : Claim(q, r, place)
    BY <1>2 DEF Claim, At
  <2>2. Holds(q) /\ publisher'[q].row = Row(q) /\ publisher'[q].version = publisher[q].version
    BY <2>1, HoldingStep
  <2>3. Row(q) \in Rows /\ publisher[q].version \in Versions
    BY DEF TypeInv, TypeOK, PollState, Row
  <2>4. Delivered(Row(q), publisher[q].version)
    BY <1>2, <2>2 DEF MarkersHaveDelivered
  <2>5. rows'[Row(q)] # Armed(0)
    BY <2>2 DEF Holds, Row, Armed
  <2>. QED
    BY <2>2, <2>3, <2>4, <2>5, DeliveredStands DEF Delivered, Row
<1>. QED
  BY <1>1, <1>2

\* A row that is done was so before, and asks for the same, or a poll that held it
\* has just marked it.
LEMMA DoneStep ==
    ASSUME TypeInv, [Next]_vars, NEW r \in Rows, rows'[r].status = "DONE"
    PROVE  \/ rows[r].status = "DONE" /\ rows'[r].want = rows[r].want
           \/ \E p \in Publishers :
                /\ Mark(p) /\ Row(p) = r /\ rows[r].lease = p
                /\ rows'[r].want = rows[r].want
<1>. DEFINE Same == rows[r].status = "DONE" /\ rows'[r].want = rows[r].want
<1>1. rows \in [Rows -> RowRecord] /\ rows[r] \in RowRecord
  BY DEF TypeInv, TypeOK
<1>2. ASSUME NEW j \in Rows, NEW version, rows' = [rows EXCEPT ![j] = Armed(version)] PROVE Same
  BY <1>1, <1>2 DEF Armed
<1>3. ASSUME NEW p \in Publishers, NEW x \in Rows, NEW place \in {"send", "list"}, Claim(p, x, place)
      PROVE  Same
  <2>1. r # x
    BY <1>1, <1>3 DEF Claim, Claimable, RowRecord
  <2>. QED
    BY <1>1, <1>3, <2>1 DEF Claim
<1>4. ASSUME NEW p \in Publishers, Fail(p) PROVE Same
  BY <1>1, <1>4 DEF Fail, Settle, RowRecord
<1>5. ASSUME NEW p \in Publishers, Mark(p), ~(Row(p) = r /\ rows[r].lease = p) PROVE Same
  BY <1>1, <1>5 DEF Mark, Settle, RowRecord
<1>6. ASSUME NEW p \in Publishers, Mark(p), Row(p) = r, rows[r].lease = p
      PROVE  rows'[r].want = rows[r].want
  BY <1>1, <1>6 DEF Mark, Settle, RowRecord
<1>7. ASSUME NEW x \in Rows, LeaseExpires(x) \/ BackoffEnds(x) PROVE Same
  BY <1>1, <1>7 DEF LeaseExpires, BackoffEnds, RowRecord
<1>8. CASE rows' = rows
  BY <1>8
<1>9. ASSUME NEW p \in Publishers,
             \/ Dispatch(p) \/ List(p) \/ Post(p) \/ DispatchFails(p) \/ ListFails(p)
             \/ PostFails(p) \/ MarkFails(p) \/ Crash(p)
      PROVE  rows' = rows
  BY <1>9 DEF Dispatch, List, Post, DispatchFails, ListFails, PostFails, MarkFails, Crash
<1>10. \/ \E j \in Rows : \E version : rows' = [rows EXCEPT ![j] = Armed(version)]
       \/ rows' = rows
       \/ \E p \in Publishers : \E x \in Rows : \E place \in {"send", "list"} : Claim(p, x, place)
       \/ \E p \in Publishers : Mark(p) \/ Fail(p)
       \/ \E x \in Rows : LeaseExpires(x) \/ BackoffEnds(x)
  BY NextCases, <1>9 DEF Arm, SweepArm, Enqueue, Arrive, NextAttempt, vars, Rows
<1>. HIDE DEF Same
<1>. QED
  BY <1>2, <1>3, <1>4, <1>5, <1>6, <1>7, <1>8, <1>10 DEF Same

LEMMA MarkedKeepsMeaning ==
    ASSUME DeliveryInv, [Next]_vars
    PROVE  MarkedMeansDelivered'
<1>. SUFFICES ASSUME NEW r \in Rows, rows'[r].status = "DONE"
              PROVE  Delivered(r, rows[r].want)'
  BY DEF MarkedMeansDelivered, PublishedWasSent, SyncedWasPosted, Delivered, Rows, Syncs
<1>. USE DEF DeliveryInv
<1>1. rows[r].want \in Versions
  BY DEF TypeInv, TypeOK, RowRecord
<1>2. Delivered(r, rows[r].want) /\ rows'[r].want = rows[r].want
  <2>1. CASE rows[r].status = "DONE" /\ rows'[r].want = rows[r].want
    BY <2>1 DEF MarkedMeansDelivered, PublishedWasSent, SyncedWasPosted, Delivered
  <2>2. ASSUME NEW p \in Publishers, Mark(p), Row(p) = r, rows[r].lease = p,
               rows'[r].want = rows[r].want
        PROVE  Delivered(r, rows[r].want)
    <3>1. publisher[p].at = "mark" /\ Holds(p)
      BY <2>2 DEF Mark, At, Holds
    <3>. QED
      BY <2>2, <3>1 DEF MarkersHaveDelivered, PollsKnowTheirRows
  <2>. QED
    BY <2>1, <2>2, DoneStep
<1>3. rows'[r] # Armed(0)
  BY DEF Armed
<1>. QED
  BY <1>1, <1>2, <1>3, DeliveredStands DEF Delivered

\* What a row says was done has been done, for the row as it is now: a job that
\* counts as published was sent since its row was armed last, and a status that
\* counts as shown was posted with what the row asks for.
THEOREM MarkedDelivered == Spec => []MarkedMeansDelivered
<1>1. Init => DeliveryInv
  <2>. SUFFICES ASSUME Init PROVE DeliveryInv
    OBVIOUS
  <2>1. \A r \in Rows : rows[r].status = "ABSENT"
    BY DEF Init, NoRow
  <2>2. \A p \in Publishers : publisher[p].at = "idle"
    BY DEF Init, IdlePoll
  <2>. QED
    BY TypeInvInit, <2>1, <2>2
       DEF DeliveryInv, PollsKnowTheirRows, MarkersHaveDelivered, MarkedMeansDelivered,
           PublishedWasSent, SyncedWasPosted, Holds, Rows, Syncs
<1>2. DeliveryInv /\ [Next]_vars => DeliveryInv'
  BY TypeInvNext, PollsKeepKnowing, MarkersKeepDelivering, MarkedKeepsMeaning DEF DeliveryInv
<1>3. DeliveryInv => MarkedMeansDelivered
  BY DEF DeliveryInv
<1>. QED
  BY <1>1, <1>2, <1>3, PTL DEF Spec
-----------------------------------------------------------------------------
\* Duplicates. A comment is there, is being created, or is on its way; and before there
\* is one, every poll that looks for it may come to create it. Apart from one, the poll
\* that holds the row under a live lease, each of these has cost an overlap.
Leads(p) == rows[Row(p)].lease = p /\ rows[Row(p)].live

Creating(r) == {p \in Publishers : At(p, "create") /\ Row(p) = r}

Straying(r) ==
    {p \in Publishers : publisher[p].at \in {"list", "create"} /\ Row(p) = r /\ ~Leads(p)}

OnItsWay(r) == {request \in wire : request.op = "create" /\ request.message.row = r}

CommentsCounted(r) ==
    /\ IsFiniteSet(OnItsWay(r))
    /\ CommentsOf(r) = {} =>
         /\ IsFiniteSet(Straying(r))
         /\ Cardinality(Straying(r)) + Cardinality(OnItsWay(r)) <= Spent("overlap")
    /\ CommentsOf(r) # {} =>
         /\ IsFiniteSet(Creating(r))
         /\ Cardinality(CommentsOf(r)) + Cardinality(Creating(r)) + Cardinality(OnItsWay(r))
              <= 1 + Spent("overlap")

\* What is updated is a comment of the row, and stays one.
UpdatesFit ==
    /\ \A p \in Publishers :
         At(p, "update") => Row(p) \in Comments /\ publisher[p].found \in CommentsOf(Row(p))
    /\ \A request \in wire :
         request.op = "update" => /\ request.message.row \in Comments
                                  /\ request.found \in CommentsOf(request.message.row)

CommentsInv == TypeInv /\ UpdatesFit /\ \A r \in Comments : CommentsCounted(r)

\* What little has to be known of cardinalities.
LEMMA SmallerSet ==
    ASSUME NEW S, IsFiniteSet(S), NEW T, T \subseteq S
    PROVE  IsFiniteSet(T) /\ Cardinality(T) \in Nat /\ Cardinality(S) \in Nat
           /\ Cardinality(T) <= Cardinality(S)
  BY FS_Subset, FS_CardinalityType

LEMMA SetAndOne ==
    ASSUME NEW S, IsFiniteSet(S), NEW x, NEW T, T \subseteq S \union {x}
    PROVE  IsFiniteSet(T) /\ Cardinality(T) \in Nat /\ Cardinality(S) \in Nat
           /\ Cardinality(T) <= Cardinality(S) + 1
<1>1. /\ IsFiniteSet(S \union {x})
      /\ Cardinality(S \union {x}) = IF x \in S THEN Cardinality(S) ELSE Cardinality(S) + 1
  BY FS_AddElement
<1>2. /\ IsFiniteSet(T) /\ Cardinality(T) \in Nat /\ Cardinality(S \union {x}) \in Nat
      /\ Cardinality(T) <= Cardinality(S \union {x})
  BY <1>1, SmallerSet
<1>3. Cardinality(S) \in Nat
  BY FS_CardinalityType
<1>. QED
  BY <1>1, <1>2, <1>3

LEMMA SetButOne ==
    ASSUME NEW S, IsFiniteSet(S), NEW x \in S, NEW T, T \subseteq S \ {x}
    PROVE  IsFiniteSet(T) /\ Cardinality(T) \in Nat /\ Cardinality(S) \in Nat
           /\ Cardinality(T) + 1 <= Cardinality(S)
<1>1. IsFiniteSet(S \ {x}) /\ Cardinality(S \ {x}) = Cardinality(S) - 1
  BY FS_RemoveElement
<1>2. /\ IsFiniteSet(T) /\ Cardinality(T) \in Nat /\ Cardinality(S \ {x}) \in Nat
      /\ Cardinality(T) <= Cardinality(S \ {x})
  BY <1>1, SmallerSet
<1>3. Cardinality(S) \in Nat
  BY FS_CardinalityType
<1>. QED
  BY <1>1, <1>2, <1>3

LEMMA CommentsFinite ==
    ASSUME TypeOK, NEW r \in Comments
    PROVE  IsFiniteSet(CommentsOf(r)) /\ CommentsOf(r) \in SUBSET Nat
<1>1. CommentsOf(r) \subseteq 1..Len(comments) /\ Len(comments) \in Nat
  BY DEF TypeOK, CommentsOf
<1>2. IsFiniteSet(1..Len(comments))
  BY <1>1, FS_Interval
<1>3. 1..Len(comments) \in SUBSET Nat
  BY <1>1
<1>. HIDE DEF CommentsOf
<1>. QED
  BY <1>1, <1>2, <1>3, FS_Subset

\* The steps of the counting argument.
Added(set, more) == \E x : more \subseteq set \union {x}

CommentStep(r) ==
    \/ /\ CommentsOf(r)' = CommentsOf(r) /\ OnItsWay(r)' \subseteq OnItsWay(r)
       /\ Spent("overlap")' >= Spent("overlap")
       /\ CommentsOf(r) = {} => Straying(r)' \subseteq Straying(r)
       /\ CommentsOf(r) # {} => Creating(r)' \subseteq Creating(r)
    \/ /\ CommentsOf(r)' # {} /\ Added(CommentsOf(r), CommentsOf(r)')
       /\ \E p \in Creating(r) : Creating(r)' \subseteq Creating(r) \ {p}
       /\ OnItsWay(r)' \subseteq OnItsWay(r) /\ Spent("overlap")' >= Spent("overlap")
    \/ /\ CommentsOf(r)' # {} /\ Added(CommentsOf(r), CommentsOf(r)')
       /\ Creating(r)' \subseteq Creating(r)
       /\ \E request \in OnItsWay(r) : OnItsWay(r)' \subseteq OnItsWay(r) \ {request}
       /\ Spent("overlap")' >= Spent("overlap")
    \/ /\ CommentsOf(r)' = CommentsOf(r) /\ Added(OnItsWay(r), OnItsWay(r)')
       /\ Creating(r)' \subseteq Creating(r) /\ Straying(r)' \subseteq Straying(r)
       /\ Spent("overlap")' >= Spent("overlap") + 1
    \/ /\ CommentsOf(r)' = CommentsOf(r) /\ OnItsWay(r)' \subseteq OnItsWay(r)
       /\ Creating(r)' \subseteq Creating(r) /\ Added(Straying(r), Straying(r)')
       /\ Spent("overlap")' >= Spent("overlap") + 1

LEMMA CountingStep ==
    ASSUME TypeInv, TypeInv', NEW r \in Comments, CommentsCounted(r), CommentStep(r)
    PROVE  CommentsCounted(r)'
<1>. DEFINE c == CommentsOf(r)
            C == CommentsOf(r)'
            k == Creating(r)
            K == Creating(r)'
            t == Straying(r)
            T == Straying(r)'
            w == OnItsWay(r)
            W == OnItsWay(r)'
            o == Spent("overlap")
            O == Spent("overlap")'
<1>0. /\ IsFiniteSet(w)
      /\ c = {} => IsFiniteSet(t) /\ Cardinality(t) + Cardinality(w) <= o
      /\ c # {} => IsFiniteSet(k) /\ Cardinality(c) + Cardinality(k) + Cardinality(w) <= 1 + o
  BY DEF CommentsCounted
<1>1. o \in Int /\ O \in Int
  BY PublishersAssumption DEF TypeInv, TypeOK, Spent, Events
<1>2. IsFiniteSet(c)
  BY CommentsFinite DEF TypeInv
<1>3. k \subseteq t \union {rows[r].lease}
  BY DEF Creating, Straying, Leads, At
<1>4. \/ C = c /\ W \subseteq w /\ O >= o /\ (c = {} => T \subseteq t) /\ (c # {} => K \subseteq k)
      \/ C # {} /\ Added(c, C) /\ (\E p \in k : K \subseteq k \ {p}) /\ W \subseteq w /\ O >= o
      \/ C # {} /\ Added(c, C) /\ K \subseteq k /\ (\E x \in w : W \subseteq w \ {x}) /\ O >= o
      \/ C = c /\ Added(w, W) /\ K \subseteq k /\ T \subseteq t /\ O >= o + 1
      \/ C = c /\ W \subseteq w /\ K \subseteq k /\ Added(t, T) /\ O >= o + 1
  BY DEF CommentStep
<1>. SUFFICES /\ IsFiniteSet(W)
              /\ C = {} => IsFiniteSet(T) /\ Cardinality(T) + Cardinality(W) <= O
              /\ C # {} => /\ IsFiniteSet(K)
                           /\ Cardinality(C) + Cardinality(K) + Cardinality(W) <= 1 + O
  BY DEF CommentsCounted
<1>5. /\ IsFiniteSet(k) /\ Cardinality(k) \in Nat /\ Cardinality(c) \in Nat /\ Cardinality(w) \in Nat
      /\ Cardinality(c) + Cardinality(k) + Cardinality(w) <= 1 + o
  <2>1. CASE c # {}
    BY <1>0, <1>2, <2>1, FS_CardinalityType
  <2>2. CASE c = {}
    <3>1. IsFiniteSet(k) /\ Cardinality(k) \in Nat /\ Cardinality(t) \in Nat
          /\ Cardinality(k) <= Cardinality(t) + 1
      <4>. HIDE DEF k, t
      <4>. QED
        BY <1>0, <1>3, <2>2, SetAndOne
    <3>2. Cardinality(c) = 0
      BY <2>2, FS_EmptySet
    <3>3. Cardinality(w) \in Nat
      BY <1>0, FS_CardinalityType
    <3>. HIDE DEF k, t, c, w, o
    <3>. QED
      BY <1>0, <1>1, <2>2, <3>1, <3>2, <3>3
  <2>. QED
    BY <2>1, <2>2
<1>6. Added(c, C) => IsFiniteSet(C) /\ Cardinality(C) \in Nat /\ Cardinality(C) <= Cardinality(c) + 1
  BY <1>2, SetAndOne DEF Added
<1>7. Added(w, W) => IsFiniteSet(W) /\ Cardinality(W) \in Nat /\ Cardinality(W) <= Cardinality(w) + 1
  BY <1>0, SetAndOne DEF Added
<1>8. Added(t, T) /\ IsFiniteSet(t) =>
        /\ IsFiniteSet(T) /\ Cardinality(T) \in Nat /\ Cardinality(t) \in Nat
        /\ Cardinality(T) <= Cardinality(t) + 1
  BY SetAndOne DEF Added
<1>9. W \subseteq w => IsFiniteSet(W) /\ Cardinality(W) \in Nat /\ Cardinality(W) <= Cardinality(w)
  BY <1>0, SmallerSet
<1>10. K \subseteq k => IsFiniteSet(K) /\ Cardinality(K) \in Nat /\ Cardinality(K) <= Cardinality(k)
  BY <1>5, SmallerSet
<1>11. T \subseteq t /\ IsFiniteSet(t) =>
         /\ IsFiniteSet(T) /\ Cardinality(T) \in Nat /\ Cardinality(t) \in Nat
         /\ Cardinality(T) <= Cardinality(t)
  BY SmallerSet
<1>12. (\E p \in k : K \subseteq k \ {p}) =>
         IsFiniteSet(K) /\ Cardinality(K) \in Nat /\ Cardinality(K) + 1 <= Cardinality(k)
  BY <1>5, SetButOne
<1>13. (\E x \in w : W \subseteq w \ {x}) =>
         IsFiniteSet(W) /\ Cardinality(W) \in Nat /\ Cardinality(W) + 1 <= Cardinality(w)
  BY <1>0, SetButOne
<1>14. c = {} => Cardinality(t) \in Nat
  BY <1>0, FS_CardinalityType
<1>. HIDE DEF c, C, k, K, t, T, w, W, o, O
<1>15. CASE C = c /\ W \subseteq w /\ O >= o /\ (c = {} => T \subseteq t) /\ (c # {} => K \subseteq k)
  BY <1>0, <1>1, <1>5, <1>9, <1>10, <1>11, <1>14, <1>15
<1>16. CASE C # {} /\ Added(c, C) /\ (\E p \in k : K \subseteq k \ {p}) /\ W \subseteq w /\ O >= o
  BY <1>1, <1>5, <1>6, <1>9, <1>12, <1>16
<1>17. CASE C # {} /\ Added(c, C) /\ K \subseteq k /\ (\E x \in w : W \subseteq w \ {x}) /\ O >= o
  BY <1>1, <1>5, <1>6, <1>10, <1>13, <1>17
<1>18. CASE C = c /\ Added(w, W) /\ K \subseteq k /\ T \subseteq t /\ O >= o + 1
  BY <1>0, <1>1, <1>5, <1>7, <1>10, <1>11, <1>14, <1>18
<1>19. CASE C = c /\ W \subseteq w /\ K \subseteq k /\ Added(t, T) /\ O >= o + 1
  BY <1>0, <1>1, <1>5, <1>8, <1>9, <1>10, <1>14, <1>19
<1>. QED
  BY <1>4, <1>15, <1>16, <1>17, <1>18, <1>19

\* An overlap is spent or it is not.
LEMMA SpendCounts ==
    ASSUME TypeInv, NEW event \in Events, Spend(event)
    PROVE  /\ event # "overlap" => Spent("overlap")' = Spent("overlap")
           /\ event = "overlap" => Spent("overlap")' = Spent("overlap") + 1
  BY PublishersAssumption DEF TypeInv, TypeOK, Spend, Spent, Events

\* What a request makes of the comments of a row.
RequestFits(request) ==
    request.op = "update" => /\ request.message.row \in Comments
                             /\ request.found \in CommentsOf(request.message.row)

LEMMA RequestsFit ==
    ASSUME TypeInv, UpdatesFit, NEW p \in Publishers, Posting(p)
    PROVE  /\ Request(p) \in Requests /\ RequestFits(Request(p))
           /\ Request(p).message.row = Row(p) /\ Row(p) \in Syncs
           /\ Request(p).op = publisher[p].at /\ Request(p).message.version = publisher[p].version
<1>1. Row(p) \in Syncs
  BY DEF TypeInv, PlacesFitRows, Posting, At
<1>2. /\ Request(p).message.row = Row(p) /\ Request(p).op = publisher[p].at
      /\ Request(p).message.version = publisher[p].version
      /\ Request(p).found = publisher[p].found
  BY DEF Request, Says
<1>. QED
  BY <1>1, <1>2, RequestTyped DEF RequestFits, UpdatesFit, At, TypeInv

LEMMA AppliedToComments ==
    ASSUME TypeInv, NEW request \in Requests, RequestFits(request), Apply(request), NEW r \in Comments
    PROVE  \/ /\ request.op = "create" /\ request.message.row = r
              /\ CommentsOf(r)' = CommentsOf(r) \union {Len(comments) + 1}
              /\ comments' = Append(comments, request.message)
           \/ /\ request.op = "update" \/ request.message.row # r
              /\ CommentsOf(r)' = CommentsOf(r)
              /\ request.message.row # r => \A i \in CommentsOf(r) : comments'[i] = comments[i]
              /\ request.op = "update" => comments' = [comments EXCEPT ![request.found] = request.message]
<1>1. comments \in Seq(Messages) /\ request.message \in Messages /\ request.op \in {"create", "update"}
  BY DEF TypeInv, TypeOK, Requests
<1>2. CASE request.message.row \in Statuses
  BY <1>2, PublishersAssumption DEF Apply, RequestFits, CommentsOf
<1>3. CASE request.message.row \notin Statuses /\ request.op = "create"
  <2>. DEFINE new == Append(comments, request.message)
  <2>1. comments' = new
    BY <1>3 DEF Apply
  <2>2. /\ DOMAIN new = DOMAIN comments \union {Len(comments) + 1}
        /\ new[Len(comments) + 1] = request.message
        /\ \A i \in DOMAIN comments : new[i] = comments[i] /\ i # Len(comments) + 1
    BY <1>1
  <2>. HIDE DEF new
  <2>. QED
    BY <1>3, <2>1, <2>2 DEF CommentsOf, new
<1>4. CASE request.message.row \notin Statuses /\ request.op = "update"
  <2>1. comments' = [comments EXCEPT ![request.found] = request.message]
    BY <1>4 DEF Apply
  <2>2. request.found \in DOMAIN comments /\ comments[request.found].row = request.message.row
    BY <1>4 DEF RequestFits, CommentsOf
  <2>3. DOMAIN comments' = DOMAIN comments
        /\ comments'[request.found] = request.message
        /\ \A i \in DOMAIN comments \ {request.found} : comments'[i] = comments[i]
    BY <1>1, <2>1, <2>2
  <2>. QED
    BY <1>4, <2>1, <2>2, <2>3 DEF CommentsOf
<1>. QED
  BY <1>1, <1>2, <1>3, <1>4

\* Comments of a row are never fewer.
LEMMA CommentsStay ==
    ASSUME TypeInv, UpdatesFit, [Next]_vars, NEW r \in Comments
    PROVE  CommentsOf(r) \subseteq CommentsOf(r)'
<1>1. ASSUME NEW p \in Publishers, Post(p) PROVE CommentsOf(r) \subseteq CommentsOf(r)'
  BY <1>1, RequestsFit, AppliedToComments DEF Post
<1>2. ASSUME NEW p \in Publishers, PostFails(p) PROVE CommentsOf(r) \subseteq CommentsOf(r)'
  <2>1. comments' = comments \/ Apply(Request(p))
    BY <1>2 DEF PostFails
  <2>2. comments' = comments => CommentsOf(r)' = CommentsOf(r)
    BY DEF CommentsOf
  <2>. QED
    BY <1>2, <2>1, <2>2, RequestsFit, AppliedToComments DEF PostFails
<1>3. ASSUME Arrive PROVE CommentsOf(r) \subseteq CommentsOf(r)'
  <2>1. PICK request \in wire : Apply(request)
    BY <1>3 DEF Arrive
  <2>2. request \in Requests /\ RequestFits(request)
    BY DEF TypeInv, TypeOK, Requests, UpdatesFit, RequestFits
  <2>. QED
    BY <2>1, <2>2, AppliedToComments
<1>4. CASE comments' = comments
  BY <1>4 DEF CommentsOf
<1>. QED
  BY NextCases, <1>1, <1>2, <1>3, <1>4 DEF NextAttempt, Arm, SweepArm, Enqueue, Claim, Dispatch, List,
     Mark, Fail, DispatchFails, ListFails, MarkFails, Crash, LeaseExpires, BackoffEnds,
     vars, remote

\* What a poll that updates has found is a comment of its row.
LEMMA FoundIsMine ==
    ASSUME TypeInv, NEW p \in Publishers, At(p, "list"), Find(p).at = "update" \/ Row(p) \in Comments
    PROVE  /\ Row(p) \in Comments
           /\ Find(p).at \in {"create", "mark", "update"}
           /\ Find(p).at # "create" =>
                /\ Find(p).found \in CommentsOf(Row(p))
                /\ Find(p).at = "mark" => comments[Find(p).found] = Says(Row(p), publisher[p].version)
           /\ Find(p).at = "create" => CommentsOf(Row(p)) = {}
<1>. DEFINE mine == CommentsOf(Row(p))
            first == CHOOSE i \in mine : \A k \in mine : i <= k
            message == Says(Row(p), publisher[p].version)
<1>1. Row(p) \in Syncs /\ mine \in SUBSET Nat
  BY DEF TypeInv, TypeOK, PlacesFitRows, At, CommentsOf
<1>2. Row(p) \in Comments
  BY <1>1 DEF Find, Syncs
<1>3. mine # {} => first \in mine
  BY <1>1, LeastExists
<1>4. Find(p) = IF mine = {} THEN [at |-> "create", found |-> 0]
                ELSE [at |-> IF comments[first] = message THEN "mark" ELSE "update", found |-> first]
  BY <1>2, PublishersAssumption DEF Find, CommentsOf
<1>. HIDE DEF mine, first, message
<1>5. /\ Find(p).at \in {"create", "mark", "update"}
      /\ Find(p).at # "create" =>
           /\ Find(p).found = first /\ mine # {}
           /\ Find(p).at = "mark" => comments[first] = message
      /\ Find(p).at = "create" => mine = {}
  BY <1>4
<1>. QED
  BY <1>2, <1>3, <1>5 DEF mine, message

LEMMA UpdatesKeepFitting ==
    ASSUME TypeInv, UpdatesFit, [Next]_vars
    PROVE  UpdatesFit'
<1>1. ASSUME NEW q \in Publishers, publisher'[q].at = "update"
      PROVE  \E r \in Comments : publisher'[q].row = r /\ publisher'[q].found \in CommentsOf(r)'
  <2>1. CASE List(q)
    <3>1. /\ publisher'[q].row = Row(q) /\ publisher'[q].at = Find(q).at
          /\ publisher'[q].found = Find(q).found /\ At(q, "list")
      BY <2>1 DEF List, TypeInv, TypeOK, PollState, Row
    <3>. QED
      BY <1>1, <3>1, FoundIsMine, CommentsStay
  <2>2. CASE publisher'[q] = publisher[q]
    BY <1>1, <2>2, CommentsStay DEF UpdatesFit, At, Row
  <2>3. ASSUME NEW p \in Publishers, NEW r \in Rows, NEW place \in {"send", "list"}, Claim(p, r, place)
        PROVE  publisher'[q] = publisher[q]
    BY <1>1, <2>3 DEF Claim, TypeInv, TypeOK
  <2>4. ASSUME NEW p \in Publishers, Goto(p, "mark") \/ Goto(p, "fail") PROVE publisher'[q] = publisher[q]
    BY <1>1, <2>4 DEF Goto, TypeInv, TypeOK, PollState
  <2>5. ASSUME NEW p \in Publishers, publisher' = [publisher EXCEPT ![p] = IdlePoll]
        PROVE  publisher'[q] = publisher[q]
    BY <1>1, <2>5 DEF IdlePoll, TypeInv, TypeOK
  <2>6. ASSUME NEW p \in Publishers, List(p), p # q PROVE publisher'[q] = publisher[q]
    BY <2>6 DEF List, TypeInv, TypeOK
  <2>7. ASSUME NEW p \in Publishers,
               \/ Dispatch(p) \/ Post(p) \/ Mark(p) \/ Fail(p)
               \/ DispatchFails(p) \/ ListFails(p) \/ PostFails(p) \/ MarkFails(p) \/ Crash(p)
        PROVE  publisher'[q] = publisher[q]
    BY <2>4, <2>5, <2>7
       DEF Dispatch, Post, Mark, Fail, Settle, DispatchFails, ListFails, PostFails, MarkFails, Crash
  <2>. QED
    BY NextCases, <2>1, <2>2, <2>3, <2>6, <2>7
       DEF Arm, SweepArm, Enqueue, Arrive, LeaseExpires, BackoffEnds, NextAttempt, vars
<1>2. ASSUME NEW request \in wire', request.op = "update"
      PROVE  request.message.row \in Comments /\ request.found \in CommentsOf(request.message.row)'
  <2>1. request \in wire \/ \E p \in Publishers : PostFails(p) /\ request = Request(p)
    BY NextCases DEF NextAttempt, Arm, SweepArm, Enqueue, Claim, Dispatch, List, Post,
       Mark, Fail, DispatchFails, ListFails, PostFails, MarkFails, Crash, Arrive, LeaseExpires,
       BackoffEnds, vars, remote
  <2>2. RequestFits(request)
    BY <2>1, RequestsFit DEF UpdatesFit, RequestFits, PostFails
  <2>. QED
    BY <1>2, <2>2, CommentsStay DEF RequestFits
<1>. QED
  BY <1>1, <1>2 DEF UpdatesFit, At, Row

\* A poll that comes to rest no longer looks for comments; who leads still leads, or
\* it was the one.
LEMMA RestingDrops ==
    ASSUME TypeInv, NEW p \in Publishers, NEW r \in Comments, NEW place \in {"mark", "fail", "idle"},
           publisher'[p].at = place,
           \A q \in Publishers \ {p} :
             /\ publisher'[q] = publisher[q]
             /\ Leads(q) => rows'[Row(q)] = rows[Row(q)]
    PROVE  Creating(r)' \subseteq Creating(r) \ {p} /\ Straying(r)' \subseteq Straying(r) \ {p}
<1>1. ASSUME NEW q \in Publishers, q \in Creating(r)' PROVE q \in Creating(r) \ {p}
  BY <1>1 DEF Creating, At, Row
<1>2. ASSUME NEW q \in Publishers, q \in Straying(r)' PROVE q \in Straying(r) \ {p}
  BY <1>2 DEF Straying, Leads, Row
<1>. QED
  BY <1>1, <1>2 DEF Creating, Straying

LEMMA SettlingDrops ==
    ASSUME TypeInv, NEW p \in Publishers, NEW r \in Comments, Mark(p) \/ Fail(p)
    PROVE  Creating(r)' \subseteq Creating(r) \ {p} /\ Straying(r)' \subseteq Straying(r) \ {p}
<1>1. publisher \in [Publishers -> PollState] /\ rows \in [Rows -> RowRecord]
  BY DEF TypeInv, TypeOK
<1>2. /\ publisher'[p].at = "idle"
      /\ \A q \in Publishers \ {p} : publisher'[q] = publisher[q]
  BY <1>1 DEF Mark, Fail, Settle, IdlePoll
<1>3. \/ rows' = rows
      \/ rows[Row(p)].lease = p /\ \A x \in Rows \ {Row(p)} : rows'[x] = rows[x]
  BY <1>1 DEF Mark, Fail, Settle
<1>4. \A q \in Publishers : Row(q) \in Rows
  BY <1>1 DEF PollState, Row
<1>5. ASSUME NEW q \in Publishers \ {p}
      PROVE  \/ rows'[Row(q)] = rows[Row(q)]
             \/ ~Leads(q)
  BY <1>3, <1>4 DEF Leads
<1>. QED
  BY <1>2, <1>5, RestingDrops

LEMMA LeavingDrops ==
    ASSUME TypeInv, NEW p \in Publishers, NEW r \in Comments,
           \/ Dispatch(p) \/ Post(p) \/ DispatchFails(p) \/ ListFails(p) \/ PostFails(p)
           \/ MarkFails(p) \/ Crash(p)
    PROVE  Creating(r)' \subseteq Creating(r) \ {p} /\ Straying(r)' \subseteq Straying(r) \ {p}
<1>1. publisher \in [Publishers -> PollState]
  BY DEF TypeInv, TypeOK
<1>2. rows' = rows
  BY DEF Dispatch, Post, DispatchFails, ListFails, PostFails, MarkFails, Crash
<1>3. \/ Goto(p, "mark") \/ Goto(p, "fail") \/ publisher' = [publisher EXCEPT ![p] = IdlePoll]
  BY DEF Dispatch, Post, DispatchFails, ListFails, PostFails, MarkFails, Crash
<1>4. /\ publisher'[p].at \in {"mark", "fail", "idle"}
      /\ \A q \in Publishers \ {p} : publisher'[q] = publisher[q]
  BY <1>1, <1>3 DEF Goto, IdlePoll, PollState
<1>. QED
  BY <1>2, <1>4, RestingDrops

\* What a request does, carried out now or to be carried out later.
LEMMA PostingCounts ==
    ASSUME TypeInv, UpdatesFit, NEW p \in Publishers, Post(p) \/ PostFails(p), NEW r \in Comments
    PROVE  CommentStep(r)
<1>1. Creating(r)' \subseteq Creating(r) \ {p} /\ Straying(r)' \subseteq Straying(r) \ {p}
  BY LeavingDrops
<1>2. /\ Request(p) \in Requests /\ RequestFits(Request(p)) /\ Posting(p)
      /\ Request(p).message.row = Row(p) /\ Request(p).op = publisher[p].at
  BY RequestsFit DEF Post, PostFails
<1>3. Spent("overlap") \in Int /\ Spent("overlap")' \in Int
  BY OthersTyped, PublishersAssumption DEF TypeInv, TypeOK, Spent, Events, Next, Works
<1>4. ASSUME Apply(Request(p)), wire' = wire, Spent("overlap")' = Spent("overlap")
      PROVE  CommentStep(r)
  <2>1. OnItsWay(r)' = OnItsWay(r)
    BY <1>4 DEF OnItsWay
  <2>2. CASE p \in Creating(r)
    <3>1. CommentsOf(r)' = CommentsOf(r) \union {Len(comments) + 1}
      BY <1>2, <1>4, <2>2, AppliedToComments DEF Creating, At
    <3>. QED
      BY <1>1, <1>3, <1>4, <2>1, <2>2, <3>1 DEF CommentStep, Added
  <2>3. CASE p \notin Creating(r)
    <3>1. CommentsOf(r)' = CommentsOf(r)
      BY <1>2, <1>4, <2>3, AppliedToComments DEF Creating, At
    <3>. QED
      BY <1>1, <1>3, <1>4, <2>1, <3>1 DEF CommentStep
  <2>. QED
    BY <2>2, <2>3
<1>5. ASSUME UNCHANGED <<statuses, comments, wire>>, Spent("overlap")' = Spent("overlap")
      PROVE  CommentStep(r)
  <2>1. OnItsWay(r)' = OnItsWay(r) /\ CommentsOf(r)' = CommentsOf(r)
    BY <1>5 DEF OnItsWay, CommentsOf
  <2>. QED
    BY <1>1, <1>3, <1>5, <2>1 DEF CommentStep
<1>6. ASSUME wire' = wire \union {Request(p)}, UNCHANGED <<statuses, comments>>,
             Spent("overlap")' = Spent("overlap") + 1
      PROVE  CommentStep(r)
  <2>1. CommentsOf(r)' = CommentsOf(r) /\ OnItsWay(r)' \subseteq OnItsWay(r) \union {Request(p)}
    BY <1>6 DEF OnItsWay, CommentsOf
  <2>2. Added(OnItsWay(r), OnItsWay(r)')
    BY <2>1 DEF Added
  <2>. QED
    BY <1>1, <1>3, <1>6, <2>1, <2>2 DEF CommentStep
<1>7. CASE Post(p)
  BY <1>4, <1>7 DEF Post, Spent
<1>8. CASE PostFails(p)
  <2>1. \/ Spend("failure") /\ UNCHANGED <<statuses, comments, wire>>
        \/ Spend("failure") /\ Apply(Request(p)) /\ UNCHANGED wire
        \/ Spend("overlap") /\ wire' = wire \union {Request(p)} /\ UNCHANGED <<statuses, comments>>
    BY <1>8 DEF PostFails
  <2>2. Spend("failure") => Spent("overlap")' = Spent("overlap")
    BY SpendCounts DEF Events
  <2>3. Spend("overlap") => Spent("overlap")' = Spent("overlap") + 1
    BY SpendCounts DEF Events
  <2>. QED
    BY <1>4, <1>5, <1>6, <2>1, <2>2, <2>3
<1>. QED
  BY <1>7, <1>8

LEMMA ArrivalCounts ==
    ASSUME TypeInv, UpdatesFit, Arrive, NEW r \in Comments
    PROVE  CommentStep(r)
<1>1. PICK request \in wire : Apply(request) /\ wire' = wire \ {request}
  BY DEF Arrive
<1>2. request \in Requests /\ RequestFits(request)
  BY DEF TypeInv, TypeOK, Requests, UpdatesFit, RequestFits
<1>3. Creating(r)' = Creating(r) /\ Straying(r)' = Straying(r) /\ Spent("overlap")' = Spent("overlap")
  BY DEF Arrive, Creating, Straying, Leads, At, Row, Spent
<1>4. Spent("overlap") \in Int
  BY PublishersAssumption DEF TypeInv, TypeOK, Spent, Events
<1>5. CASE request \in OnItsWay(r)
  <2>1. CommentsOf(r)' = CommentsOf(r) \union {Len(comments) + 1}
    BY <1>1, <1>2, <1>5, AppliedToComments DEF OnItsWay
  <2>2. OnItsWay(r)' \subseteq OnItsWay(r) \ {request}
    BY <1>1 DEF OnItsWay
  <2>. QED
    BY <1>3, <1>4, <1>5, <2>1, <2>2 DEF CommentStep, Added
<1>6. CASE request \notin OnItsWay(r)
  <2>1. CommentsOf(r)' = CommentsOf(r)
    BY <1>1, <1>2, <1>6, AppliedToComments DEF OnItsWay
  <2>2. OnItsWay(r)' \subseteq OnItsWay(r)
    BY <1>1 DEF OnItsWay
  <2>. QED
    BY <1>3, <1>4, <2>1, <2>2 DEF CommentStep
<1>. QED
  BY <1>5, <1>6

\* The remaining steps leave Gitea alone.
RemoteStands(r) ==
    /\ CommentsOf(r)' = CommentsOf(r) /\ OnItsWay(r)' \subseteq OnItsWay(r)
    /\ Spent("overlap")' \in Int /\ Spent("overlap") \in Int

LEMMA ClaimingCounts ==
    ASSUME TypeInv, NEW p \in Publishers, NEW x \in Rows, NEW place \in {"send", "list"},
           Claim(p, x, place), NEW r \in Comments, RemoteStands(r),
           Spent("overlap")' = Spent("overlap")
    PROVE  CommentStep(r)
<1>1. publisher \in [Publishers -> PollState] /\ rows \in [Rows -> RowRecord]
      /\ \A q \in Publishers : Row(q) \in Rows
  BY DEF TypeInv, TypeOK, PollState, Row
<1>2. /\ publisher'[p].row = x /\ publisher'[p].at = place
      /\ \A q \in Publishers \ {p} : publisher'[q] = publisher[q]
      /\ rows'[x].lease = p /\ rows'[x].live = TRUE /\ ~rows[x].live
      /\ \A y \in Rows \ {x} : rows'[y] = rows[y]
  BY <1>1 DEF Claim, Claimable, RowRecord
<1>3. ASSUME NEW q \in Publishers, q \in Creating(r)' PROVE q \in Creating(r)
  BY <1>2, <1>3 DEF Creating, At, Row
<1>4. ASSUME NEW q \in Publishers, q \in Straying(r)' PROVE q \in Straying(r)
  <2>1. q # p
    BY <1>2, <1>4 DEF Straying, Leads, Row
  <2>2. ~Leads(q)
    BY <1>1, <1>2, <1>4, <2>1 DEF Straying, Leads, Row
  <2>. QED
    BY <1>2, <1>4, <2>1, <2>2 DEF Straying, Row
<1>. QED
  BY <1>3, <1>4 DEF CommentStep, RemoteStands, Creating, Straying

LEMMA ListingCounts ==
    ASSUME TypeInv, NEW p \in Publishers, List(p), NEW r \in Comments, RemoteStands(r),
           Spent("overlap")' = Spent("overlap")
    PROVE  CommentStep(r)
<1>1. publisher \in [Publishers -> PollState]
  BY DEF TypeInv, TypeOK
<1>2. /\ publisher'[p].at = Find(p).at /\ publisher'[p].row = Row(p)
      /\ \A q \in Publishers \ {p} : publisher'[q] = publisher[q]
      /\ rows' = rows /\ At(p, "list")
  BY <1>1 DEF List, PollState, Row
<1>3. ASSUME NEW q \in Publishers, q \in Creating(r)', CommentsOf(r) # {} PROVE q \in Creating(r)
  <2>1. CASE q = p
    <3>1. Row(p) = r /\ Find(p).at = "create"
      BY <1>2, <1>3, <2>1 DEF Creating, At, Row
    <3>. QED
      BY <1>2, <1>3, <3>1, FoundIsMine
  <2>2. CASE q # p
    BY <1>2, <1>3, <2>2 DEF Creating, At, Row
  <2>. QED
    BY <2>1, <2>2
<1>4. ASSUME NEW q \in Publishers, q \in Straying(r)' PROVE q \in Straying(r)
  BY <1>2, <1>4 DEF Straying, Leads, Row, At
<1>. QED
  BY <1>3, <1>4 DEF CommentStep, RemoteStands, Creating, Straying

LEMMA RowsCount ==
    ASSUME TypeInv, publisher' = publisher, NEW r \in Comments, RemoteStands(r),
           Spent("overlap")' = Spent("overlap"),
           \A p \in Publishers : Leads(p) => Leads(p)'
    PROVE  CommentStep(r)
<1>1. Creating(r)' = Creating(r) /\ Straying(r)' \subseteq Straying(r)
  BY DEF Creating, Straying, Row, At
<1>. QED
  BY <1>1 DEF CommentStep, RemoteStands

LEMMA ExpiryCounts ==
    ASSUME TypeInv, NEW x \in Rows, LeaseExpires(x), NEW r \in Comments, RemoteStands(r)
    PROVE  CommentStep(r)
<1>1. /\ publisher \in [Publishers -> PollState] /\ rows \in [Rows -> RowRecord]
      /\ \A q \in Publishers : Row(q) \in Rows
      /\ rows[x].lease # Nobody /\ rows[x].lease \in Publishers
  <2>1. RowIsSound(rows[x]) /\ rows[x] \in RowRecord
    BY RowsAreSound DEF TypeInv, TypeOK
  <2>. QED
    BY <2>1 DEF TypeInv, TypeOK, PollState, Row, LeaseExpires, RowIsSound, RowRecord
<1>2. publisher' = publisher /\ \A y \in Rows \ {x} : rows'[y] = rows[y]
  BY <1>1 DEF LeaseExpires
<1>3. CASE Attended(x)
  <2>1. Spent("overlap")' = Spent("overlap") + 1
    BY <1>3, SpendCounts DEF LeaseExpires, Events
  <2>2. ASSUME NEW q \in Straying(r)' PROVE q \in Straying(r) \union {rows[x].lease}
    BY <1>1, <1>2, <2>2 DEF Straying, Leads, Row
  <2>3. Creating(r)' = Creating(r) /\ Added(Straying(r), Straying(r)')
    BY <1>2, <2>2 DEF Creating, Row, At, Added
  <2>. QED
    BY <2>1, <2>3 DEF CommentStep, RemoteStands
<1>4. CASE ~Attended(x)
  <2>1. Spent("overlap")' = Spent("overlap")
    BY <1>4 DEF LeaseExpires, Spent
  <2>2. ASSUME NEW q \in Straying(r)' PROVE q \in Straying(r)
    <3>1. q \in Publishers /\ publisher[q].at \in {"list", "create"} /\ Row(q) = r
      BY <1>2, <2>2 DEF Straying, Row
    <3>2. ~(rows[x].lease = q /\ Row(q) = x)
      BY <1>1, <1>4, <3>1 DEF Attended, At
    <3>. QED
      BY <1>1, <1>2, <2>2, <3>1, <3>2 DEF Straying, Leads, Row
  <2>3. Creating(r)' = Creating(r)
    BY <1>2 DEF Creating, Row, At
  <2>. QED
    BY <2>1, <2>2, <2>3 DEF CommentStep, RemoteStands
<1>. QED
  BY <1>3, <1>4

\* All the steps.
LEMMA StepsCount ==
    ASSUME TypeInv, UpdatesFit, [Next]_vars, NEW r \in Comments
    PROVE  CommentStep(r)
<1>. USE PublishersAssumption
<1>1. Spent("overlap")' \in Int /\ Spent("overlap") \in Int
  BY OthersTyped DEF TypeInv, TypeOK, Spent, Events
<1>2. r \in Rows /\ r \in Syncs
  BY DEF Rows, Syncs
<1>3. ASSUME UNCHANGED <<comments, wire>> PROVE RemoteStands(r)
  BY <1>1, <1>3 DEF RemoteStands, CommentsOf, OnItsWay
<1>4. ASSUME NEW event \in Events \ {"overlap"}, Spend(event) PROVE Spent("overlap")' = Spent("overlap")
  BY <1>4, SpendCounts
<1>5. ASSUME bound' = bound PROVE Spent("overlap")' = Spent("overlap")
  BY <1>5 DEF Spent
<1>6. /\ publisher \in [Publishers -> PollState] /\ rows \in [Rows -> RowRecord]
      /\ \A q \in Publishers : Row(q) \in Rows
  BY DEF TypeInv, TypeOK, PollState, Row
<1>7. ASSUME NEW j \in Jobs, Arm(j) \/ SweepArm(j) PROVE CommentStep(r)
  <2>1. publisher' = publisher /\ UNCHANGED <<comments, wire>> /\ Spend("ask")
        /\ \A x \in Rows \ {j} : rows'[x] = rows[x]
    BY <1>6, <1>7 DEF Arm, SweepArm
  <2>2. ASSUME NEW q \in Publishers, q \in Straying(r)' PROVE q \in Straying(r)
    BY <1>2, <1>6, <2>1, <2>2 DEF Straying, Leads, Row
  <2>3. Creating(r)' = Creating(r) /\ Straying(r)' \subseteq Straying(r)
    BY <2>1, <2>2 DEF Creating, Straying, Row, At
  <2>4. RemoteStands(r) /\ Spent("overlap")' = Spent("overlap")
    BY <1>3, <1>4, <2>1 DEF Events
  <2>. QED
    BY <2>3, <2>4 DEF CommentStep, RemoteStands
<1>8. ASSUME NEW x \in Syncs, Enqueue(x) PROVE CommentStep(r)
  <2>1. publisher' = publisher /\ UNCHANGED <<comments, wire>> /\ Spend("ask")
        /\ (rows' = rows \/ (~rows[x].live /\ \A y \in Rows \ {x} : rows'[y] = rows[y]))
    BY <1>6, <1>8 DEF Enqueue, remote
  <2>2. ASSUME NEW q \in Publishers, Leads(q) PROVE Leads(q)'
    <3>1. rows'[Row(q)] = rows[Row(q)]
      BY <1>6, <2>1, <2>2 DEF Leads
    <3>. QED
      BY <2>1, <2>2, <3>1 DEF Leads, Row
  <2>3. RemoteStands(r) /\ Spent("overlap")' = Spent("overlap")
    BY <1>3, <1>4, <2>1 DEF Events
  <2>. QED
    BY <2>1, <2>2, <2>3, RowsCount
<1>9. ASSUME NEW p \in Publishers, NEW x \in Rows, NEW place \in {"send", "list"}, Claim(p, x, place)
      PROVE  CommentStep(r)
  <2>1. UNCHANGED <<comments, wire>> /\ bound' = bound
    BY <1>9 DEF Claim, remote
  <2>. QED
    BY <1>3, <1>5, <1>9, <2>1, ClaimingCounts
<1>10. ASSUME NEW p \in Publishers, List(p) PROVE CommentStep(r)
  <2>1. UNCHANGED <<comments, wire>> /\ bound' = bound
    BY <1>10 DEF List, remote
  <2>. QED
    BY <1>3, <1>5, <1>10, <2>1, ListingCounts
<1>11. ASSUME NEW p \in Publishers, Mark(p) \/ Fail(p) PROVE CommentStep(r)
  <2>1. UNCHANGED <<comments, wire>> /\ bound' = bound
    BY <1>11 DEF Mark, Fail, remote
  <2>2. RemoteStands(r) /\ Spent("overlap")' = Spent("overlap")
    BY <1>3, <1>5, <2>1
  <2>. QED
    BY <1>1, <1>11, <2>2, SettlingDrops DEF CommentStep, RemoteStands
<1>12. ASSUME NEW p \in Publishers,
              Dispatch(p) \/ DispatchFails(p) \/ ListFails(p) \/ MarkFails(p) \/ Crash(p)
       PROVE  CommentStep(r)
  <2>1. UNCHANGED <<comments, wire>> /\ (bound' = bound \/ Spend("failure"))
    BY <1>12 DEF Dispatch, DispatchFails, ListFails, MarkFails, Crash, remote
  <2>2. RemoteStands(r) /\ Spent("overlap")' = Spent("overlap")
    BY <1>3, <1>4, <1>5, <2>1 DEF Events
  <2>. QED
    BY <1>1, <1>12, <2>2, LeavingDrops DEF CommentStep, RemoteStands
<1>13. ASSUME NEW x \in Rows, BackoffEnds(x) PROVE CommentStep(r)
  <2>1. publisher' = publisher /\ UNCHANGED <<comments, wire>> /\ bound' = bound
        /\ \A y \in Rows : rows'[y].lease = rows[y].lease /\ rows'[y].live = rows[y].live
    BY <1>6, <1>13 DEF BackoffEnds, remote, RowRecord
  <2>2. \A q \in Publishers : Leads(q) => Leads(q)'
    BY <1>6, <2>1 DEF Leads, Row
  <2>. QED
    BY <1>3, <1>5, <2>1, <2>2, RowsCount
<1>14. ASSUME NEW x \in Rows, LeaseExpires(x) PROVE CommentStep(r)
  <2>1. UNCHANGED <<comments, wire>>
    BY <1>14 DEF LeaseExpires, remote
  <2>. QED
    BY <1>3, <1>14, <2>1, ExpiryCounts
<1>15. ASSUME publisher' = publisher, rows' = rows, UNCHANGED <<comments, wire>>, bound' = bound
       PROVE  CommentStep(r)
  <2>1. \A q \in Publishers : Leads(q) => Leads(q)'
    BY <1>15 DEF Leads, Row
  <2>. QED
    BY <1>3, <1>5, <1>15, <2>1, RowsCount
<1>16. NextAttempt \/ UNCHANGED vars =>
         publisher' = publisher /\ rows' = rows /\ UNCHANGED <<comments, wire>> /\ bound' = bound
  BY DEF NextAttempt, vars, remote
<1>. QED
  BY NextCases, <1>7, <1>8, <1>9, <1>10, <1>11, <1>12, <1>13, <1>14, <1>15, <1>16,
     PostingCounts, ArrivalCounts

LEMMA CommentsInvInit == Init => CommentsInv
<1>. SUFFICES ASSUME Init PROVE CommentsInv
  OBVIOUS
<1>1. \A p \in Publishers : publisher[p].at = "idle"
  BY DEF Init, IdlePoll
<1>2. ASSUME NEW r \in Comments PROVE CommentsCounted(r)
  <2>1. CommentsOf(r) = {} /\ Straying(r) = {} /\ OnItsWay(r) = {}
    BY <1>1 DEF Init, CommentsOf, Straying, OnItsWay
  <2>2. Spent("overlap") = 0
    BY PublishersAssumption DEF Init, Spent, Events
  <2>. QED
    BY <2>1, <2>2, FS_EmptySet DEF CommentsCounted
<1>. QED
  BY <1>1, <1>2, TypeInvInit DEF CommentsInv, UpdatesFit, At, Init

LEMMA CommentsInvStep == CommentsInv /\ [Next]_vars => CommentsInv'
<1>. SUFFICES ASSUME CommentsInv, [Next]_vars PROVE CommentsInv'
  OBVIOUS
<1>1. TypeInv' /\ UpdatesFit'
  BY TypeInvNext, UpdatesKeepFitting DEF CommentsInv
<1>2. ASSUME NEW r \in Comments PROVE CommentsCounted(r)'
  BY <1>1, StepsCount, CountingStep DEF CommentsInv
<1>. QED
  BY <1>1, <1>2 DEF CommentsInv

LEMMA CountedMeansUnique ==
    ASSUME CommentsInv, NEW r \in Comments
    PROVE  Cardinality(CommentsOf(r)) <= 1 + Spent("overlap")
<1>1. CommentsCounted(r) /\ Spent("overlap") \in Int
  BY PublishersAssumption DEF CommentsInv, TypeInv, TypeOK, Spent, Events
<1>2. CASE CommentsOf(r) = {}
  <2>1. /\ Cardinality(CommentsOf(r)) = 0 /\ Cardinality(Straying(r)) \in Nat
        /\ Cardinality(OnItsWay(r)) \in Nat
        /\ Cardinality(Straying(r)) + Cardinality(OnItsWay(r)) <= Spent("overlap")
    BY <1>1, <1>2, FS_EmptySet, FS_CardinalityType DEF CommentsCounted
  <2>. QED
    BY <1>1, <2>1
<1>3. CASE CommentsOf(r) # {}
  <2>2. IsFiniteSet(CommentsOf(r))
    BY CommentsFinite DEF CommentsInv, TypeInv
  <2>3. /\ Cardinality(CommentsOf(r)) \in Nat /\ Cardinality(Creating(r)) \in Nat
        /\ Cardinality(OnItsWay(r)) \in Nat
        /\ Cardinality(CommentsOf(r)) + Cardinality(Creating(r)) + Cardinality(OnItsWay(r))
             <= 1 + Spent("overlap")
    BY <1>1, <1>3, <2>2, FS_CardinalityType DEF CommentsCounted
  <2>. QED
    BY <1>1, <2>3
<1>. QED
  BY <1>2, <1>3

\* The comment of an attempt is there once, and once more at most for every overlap
\* of two publishers and every request that Gitea carried out after its client gave up;
\* errors and crashes alone make no duplicate.
THEOREM CommentsUnique == Spec => []CommentsAreUnique
<1>1. CommentsInv => CommentsAreUnique
  BY CountedMeansUnique DEF CommentsAreUnique
<1>. QED
  BY <1>1, CommentsInvInit, CommentsInvStep, PTL DEF Spec

-----------------------------------------------------------------------------
\* Undisturbed, who is at work on a row holds it, and no request is on its way.
HoldersLead ==
    /\ wire = {}
    /\ \A p \in Publishers : ~At(p, "idle") /\ Row(p) \in Syncs => Leads(p)

\* Rows of attempts to come are blank; what is asked for last is no less than a row says.
RowsFollowWishes ==
    \A r \in Syncs :
        /\ rows[r].want <= wanted[r]
        /\ wanted[r] # 0 => AttemptOf[r] <= attempt
        /\ rows[r].status # "ABSENT" <=> rows[r].want # 0
        /\ rows[r].lease # Nobody => rows[r].status # "ABSENT"

Shown(r, version) ==
    CommentsOf(r) # {} /\ \A i \in CommentsOf(r) : comments[i] = Says(r, version)

CommentsShown ==
    \A r \in Comments :
        /\ rows[r].status = "DONE" => Shown(r, rows[r].want)
        /\ \A p \in Publishers :
             At(p, "mark") /\ Row(p) = r => Shown(r, publisher[p].version)

\* Unless an attempt has overtaken another, at most one status waits at a time, and
\* what Gitea was given is in the order of attempts and versions, none past what waits.
Waits(r) == rows[r].status \in {"PENDING", "FAILED"}

Precedes(m, n) ==
    AttemptOf[m.row] < AttemptOf[n.row] \/ (m.row = n.row /\ m.version <= n.version)

InTime(m) ==
    /\ m.row \in Statuses /\ m.version # 0 /\ m.version <= rows[m.row].want
    /\ \A r \in Statuses : Waits(r) => AttemptOf[m.row] <= AttemptOf[r]

StatusesInOrder ==
    /\ \A q, r \in Statuses : Waits(q) /\ Waits(r) => q = r
    /\ \A i \in DOMAIN statuses : InTime(statuses[i])
    /\ \A i, k \in DOMAIN statuses : i < k => Precedes(statuses[i], statuses[k])

LatestInv ==
    /\ CommentsInv /\ DeliveryInv /\ RowsFollowWishes /\ Spent("overlap") >= 0
    /\ Undisturbed => HoldersLead /\ CommentsShown
    /\ Undisturbed /\ ~overtaken => StatusesInOrder

\* Overlaps are only ever spent.
LEMMA OverlapStep ==
    ASSUME TypeInv, [Next]_vars, Spent("overlap") >= 0
    PROVE  /\ Spent("overlap")' >= 0
           /\ Undisturbed' => Undisturbed /\ ~Spend("overlap")
<1>1. Spent("overlap") \in Int /\ Spent("overlap")' \in Int
  BY OthersTyped, PublishersAssumption DEF TypeInv, TypeOK, Spent, Events
<1>2. bound' = bound \/ \E event \in Events : Spend(event)
  BY NextCases DEF Events, NextAttempt, Arm, SweepArm, Enqueue, Claim, Dispatch, List, Post,
     Mark, Fail, DispatchFails, ListFails, PostFails, MarkFails, Crash, Arrive, LeaseExpires,
     BackoffEnds, vars
<1>3. bound' = bound => Spent("overlap")' = Spent("overlap")
  BY DEF Spent
<1>4. \A event \in Events : Spend(event) => Spent("overlap")' >= Spent("overlap")
  BY <1>1, SpendCounts
<1>5. Spend("overlap") => Spent("overlap")' = Spent("overlap") + 1
  BY SpendCounts DEF Events
<1>. QED
  BY <1>1, <1>2, <1>3, <1>4, <1>5 DEF Undisturbed

\* What a step does to a row of gitea_syncs: it asks for more, or for the same.
Wished(r, version) ==
    /\ Enqueue(r) /\ rows'[r] = Armed(version)
    /\ version \in Versions \ {0} /\ version >= wanted[r] /\ AttemptOf[r] <= attempt
    /\ wanted' = [wanted EXCEPT ![r] = version]
    /\ overtaken' = (overtaken \/ OlderPending(r) \/ NewerReported(r))
    /\ \A x \in Rows \ {r} : rows'[x] = rows[x]

AsksTheSame(r) ==
    /\ rows'[r].want = rows[r].want
    /\ rows'[r].status = "ABSENT" <=> rows[r].status = "ABSENT"
    /\ rows'[r].lease # Nobody => rows'[r].status # "ABSENT"
    /\ Waits(r)' => Waits(r)

LEMMA SyncRowStep ==
    ASSUME TypeInv, RowsFollowWishes, [Next]_vars, NEW r \in Syncs
    PROVE  AsksTheSame(r) \/ \E version \in Versions : Wished(r, version)
<1>. USE PublishersAssumption
<1>1. /\ rows \in [Rows -> RowRecord] /\ r \in Rows /\ rows[r] \in RowRecord
      /\ rows[r].lease # Nobody => rows[r].status # "ABSENT"
      /\ RowIsSound(rows[r])
      /\ publisher \in [Publishers -> PollState] /\ \A p \in Publishers : Row(p) \in Rows
  BY RowsAreSound DEF TypeInv, TypeOK, RowsFollowWishes, Rows, PollState, Row
<1>2. rows[r].lease # Nobody => Waits(r)
  BY <1>1 DEF RowIsSound, Waits, RowRecord, RowStatuses
<1>3. ASSUME rows'[r] = rows[r] PROVE AsksTheSame(r)
  BY <1>1, <1>3 DEF AsksTheSame, Waits
<1>4. ASSUME NEW j \in Jobs, Arm(j) \/ SweepArm(j) PROVE rows'[r] = rows[r]
  BY <1>1, <1>4 DEF Arm, SweepArm
<1>5. ASSUME NEW x \in Syncs, Enqueue(x), x # r PROVE rows'[r] = rows[r]
  BY <1>1, <1>5 DEF Enqueue
<1>6. ASSUME Enqueue(r) PROVE rows'[r] = rows[r] \/ \E version \in Versions : Wished(r, version)
  <2>1. PICK version \in Versions \ {0} :
          /\ AttemptOf[r] <= attempt /\ version >= wanted[r]
          /\ wanted' = [wanted EXCEPT ![r] = version]
          /\ overtaken' = (overtaken \/ OlderPending(r) \/ NewerReported(r))
          /\ rows' = rows \/ rows' = [rows EXCEPT ![r] = Armed(version)]
    BY <1>6 DEF Enqueue
  <2>2. ASSUME rows' = [rows EXCEPT ![r] = Armed(version)] PROVE Wished(r, version)
    <3>1. rows'[r] = Armed(version) /\ \A x \in Rows \ {r} : rows'[x] = rows[x]
      BY <1>1, <2>2
    <3>. QED
      BY <1>6, <2>1, <3>1 DEF Wished
  <2>. QED
    BY <2>1, <2>2
<1>7. ASSUME NEW p \in Publishers, NEW x \in Rows, NEW place \in {"send", "list"}, Claim(p, x, place)
      PROVE  AsksTheSame(r)
  <2>1. CASE x = r
    <3>1. /\ rows'[r].status = rows[r].status /\ rows'[r].want = rows[r].want
          /\ rows[r].status \in {"PENDING", "FAILED"}
      BY <1>1, <1>7, <2>1 DEF Claim, Claimable, RowRecord
    <3>. QED
      BY <3>1 DEF AsksTheSame, Waits
  <2>2. CASE x # r
    BY <1>1, <1>3, <1>7, <2>2 DEF Claim
  <2>. QED
    BY <2>1, <2>2
<1>8. ASSUME NEW p \in Publishers, Mark(p) \/ Fail(p) PROVE AsksTheSame(r)
  <2>1. CASE Row(p) = r /\ rows[r].lease = p
    <3>. DEFINE done == [rows[r] EXCEPT !.status = "DONE", !.lease = Nobody, !.live = FALSE]
                fail == [rows[r] EXCEPT !.status = "FAILED", !.due = FALSE,
                                        !.lease = Nobody, !.live = FALSE]
    <3>3. /\ done.want = rows[r].want /\ done.lease = Nobody /\ done.status = "DONE"
          /\ fail.want = rows[r].want /\ fail.lease = Nobody /\ fail.status = "FAILED"
      BY <1>1 DEF RowRecord
    <3>4. rows' = [rows EXCEPT ![r] = done] \/ rows' = [rows EXCEPT ![r] = fail]
      BY <1>8, <2>1 DEF Mark, Fail, Settle
    <3>. HIDE DEF done, fail
    <3>1. /\ rows'[r].want = rows[r].want /\ rows'[r].lease = Nobody
          /\ rows'[r].status \in {"DONE", "FAILED"}
      BY <1>1, <3>3, <3>4
    <3>2. Waits(r)
      BY <1>2, <2>1
    <3>. QED
      BY <3>1, <3>2 DEF AsksTheSame, Waits
  <2>2. CASE ~(Row(p) = r /\ rows[r].lease = p)
    <3>1. rows'[r] = rows[r]
      BY <1>1, <1>8, <2>2 DEF Mark, Fail, Settle
    <3>. QED
      BY <1>3, <3>1
  <2>. QED
    BY <2>1, <2>2
<1>9. ASSUME NEW x \in Rows, LeaseExpires(x) \/ BackoffEnds(x) PROVE AsksTheSame(r)
  <2>1. /\ rows'[r].status = rows[r].status /\ rows'[r].want = rows[r].want
        /\ rows'[r].lease = rows[r].lease
    BY <1>1, <1>9 DEF LeaseExpires, BackoffEnds, RowRecord
  <2>. QED
    BY <1>1, <2>1 DEF AsksTheSame, Waits
<1>10. ASSUME NEW p \in Publishers,
             \/ Dispatch(p) \/ List(p) \/ Post(p) \/ DispatchFails(p) \/ ListFails(p)
             \/ PostFails(p) \/ MarkFails(p) \/ Crash(p)
      PROVE  rows' = rows
  BY <1>10 DEF Dispatch, List, Post, DispatchFails, ListFails, PostFails, MarkFails, Crash
<1>11. Arrive \/ NextAttempt \/ UNCHANGED vars => rows' = rows
  BY DEF Arrive, NextAttempt, vars
<1>. QED
  BY NextCases, <1>3, <1>4, <1>5, <1>6, <1>7, <1>8, <1>9, <1>10, <1>11

LEMMA WishesStep ==
    ASSUME TypeInv, RowsFollowWishes, [Next]_vars
    PROVE  RowsFollowWishes'
<1>. SUFFICES ASSUME NEW r \in Syncs
              PROVE  /\ rows'[r].want <= wanted'[r]
                     /\ wanted'[r] # 0 => AttemptOf[r] <= attempt'
                     /\ rows'[r].status # "ABSENT" <=> rows'[r].want # 0
                     /\ rows'[r].lease # Nobody => rows'[r].status # "ABSENT"
  BY DEF RowsFollowWishes
<1>. USE PublishersAssumption
<1>1. /\ rows[r].want <= wanted[r]
      /\ wanted[r] # 0 => AttemptOf[r] <= attempt
      /\ rows[r].status # "ABSENT" <=> rows[r].want # 0
  BY DEF RowsFollowWishes
<1>2. /\ rows[r].want \in Nat /\ wanted[r] \in Nat /\ attempt \in Nat /\ AttemptOf[r] \in Nat
      /\ wanted \in [Syncs -> Versions]
  BY DEF TypeInv, TypeOK, RowRecord, Versions, Rows
<1>3. attempt' \in Nat /\ attempt' >= attempt
  <2>1. attempt' = attempt \/ NextAttempt
    BY NextCases DEF Arm, SweepArm, Enqueue, Claim, Dispatch, List, Post, Mark, Fail,
       DispatchFails, ListFails, PostFails, MarkFails, Crash, Arrive, LeaseExpires,
       BackoffEnds, vars, asked
  <2>2. NextAttempt => attempt' = attempt + 1
    BY DEF NextAttempt
  <2>. QED
    BY <1>2, <2>1, <2>2
<1>4. wanted' = wanted \/ \E x \in Syncs : Enqueue(x)
  BY NextCases DEF NextAttempt, Arm, SweepArm, Claim, Dispatch, List, Post, Mark, Fail,
     DispatchFails, ListFails, PostFails, MarkFails, Crash, Arrive, LeaseExpires,
     BackoffEnds, vars, asked
<1>5. /\ wanted'[r] \in Nat /\ wanted'[r] >= wanted[r]
      /\ wanted'[r] # wanted[r] => AttemptOf[r] <= attempt
  <2>1. ASSUME NEW x \in Syncs, Enqueue(x)
        PROVE  /\ wanted'[r] \in Nat /\ wanted'[r] >= wanted[r]
               /\ wanted'[r] # wanted[r] => AttemptOf[r] <= attempt
    BY <1>2, <2>1 DEF Enqueue, Versions
  <2>. QED
    BY <1>2, <1>4, <2>1
<1>6. CASE AsksTheSame(r)
  BY <1>1, <1>2, <1>3, <1>5, <1>6 DEF AsksTheSame
<1>7. ASSUME NEW version \in Versions, Wished(r, version)
      PROVE  /\ rows'[r].want = version /\ wanted'[r] = version /\ version \in Nat \ {0}
             /\ rows'[r].status # "ABSENT" /\ rows'[r].lease = Nobody /\ AttemptOf[r] <= attempt
  BY <1>2, <1>7 DEF Wished, Armed, Versions
<1>. QED
  BY <1>2, <1>3, <1>6, <1>7, SyncRowStep

\* Undisturbed, a poll that is at work on a row of gitea_syncs has just claimed it, or
\* led before.
LEMMA LeadersStep ==
    ASSUME TypeInv, HoldersLead, [Next]_vars, ~Spend("overlap"), NEW q \in Publishers,
           publisher'[q].at # "idle", publisher'[q].row \in Syncs
    PROVE  rows'[publisher'[q].row].lease = q /\ rows'[publisher'[q].row].live
<1>. DEFINE Goal == rows'[publisher'[q].row].lease = q /\ rows'[publisher'[q].row].live
<1>. USE PublishersAssumption
<1>1. /\ publisher \in [Publishers -> PollState] /\ rows \in [Rows -> RowRecord]
      /\ \A p \in Publishers : Row(p) \in Rows
      /\ Syncs \subseteq Rows
  BY DEF TypeInv, TypeOK, PollState, Row, Rows
<1>2. ASSUME ~At(q, "idle"), Row(q) \in Syncs PROVE Leads(q)
  BY <1>2 DEF HoldersLead
<1>3. ASSUME publisher'[q] = publisher[q], rows'[Row(q)] = rows[Row(q)] PROVE Goal
  BY <1>2, <1>3 DEF Leads, Row, At
<1>4. ASSUME NEW j \in Jobs, Arm(j) \/ SweepArm(j) PROVE Goal
  <2>1. publisher' = publisher /\ \A x \in Rows \ {j} : rows'[x] = rows[x]
    BY <1>1, <1>4 DEF Arm, SweepArm
  <2>2. Row(q) \in Syncs /\ Row(q) # j
    BY <2>1 DEF Row
  <2>. QED
    BY <1>1, <1>3, <2>1, <2>2
<1>5. ASSUME NEW x \in Syncs, Enqueue(x) PROVE Goal
  <2>1. /\ publisher' = publisher
        /\ rows' = rows \/ (~rows[x].live /\ \A y \in Rows \ {x} : rows'[y] = rows[y])
    BY <1>1, <1>5 DEF Enqueue
  <2>2. Leads(q) /\ Row(q) \in Rows
    BY <1>1, <1>2, <2>1 DEF Row, At
  <2>3. rows'[Row(q)] = rows[Row(q)]
    BY <2>1, <2>2 DEF Leads
  <2>. QED
    BY <1>3, <2>1, <2>3
<1>6. ASSUME NEW p \in Publishers, NEW x \in Rows, NEW place \in {"send", "list"}, Claim(p, x, place)
      PROVE  Goal
  <2>1. /\ publisher'[p].row = x /\ rows'[x].lease = p /\ rows'[x].live = TRUE /\ ~rows[x].live
        /\ \A y \in Publishers \ {p} : publisher'[y] = publisher[y]
        /\ \A y \in Rows \ {x} : rows'[y] = rows[y]
    BY <1>1, <1>6 DEF Claim, Claimable, RowRecord
  <2>2. CASE q = p
    BY <2>1, <2>2
  <2>3. CASE q # p
    <3>1. Leads(q) /\ Row(q) \in Rows
      BY <1>1, <1>2, <2>1, <2>3 DEF Row, At
    <3>2. rows'[Row(q)] = rows[Row(q)]
      BY <2>1, <3>1 DEF Leads
    <3>. QED
      BY <1>3, <2>1, <2>3, <3>2
  <2>. QED
    BY <2>2, <2>3
<1>7. ASSUME NEW p \in Publishers, Mark(p) \/ Fail(p) PROVE Goal
  <2>1. /\ publisher'[p].at = "idle"
        /\ \A y \in Publishers \ {p} : publisher'[y] = publisher[y]
        /\ \/ rows' = rows
           \/ rows[Row(p)].lease = p /\ \A x \in Rows \ {Row(p)} : rows'[x] = rows[x]
    BY <1>1, <1>7 DEF Mark, Fail, Settle, IdlePoll
  <2>2. q # p /\ Leads(q) /\ Row(q) \in Rows
    BY <1>1, <1>2, <2>1 DEF Row, At
  <2>3. rows'[Row(q)] = rows[Row(q)]
    BY <1>1, <2>1, <2>2 DEF Leads
  <2>. QED
    BY <1>3, <2>1, <2>2, <2>3
<1>8. ASSUME NEW p \in Publishers,
             \/ Dispatch(p) \/ List(p) \/ Post(p) \/ DispatchFails(p) \/ ListFails(p)
             \/ PostFails(p) \/ MarkFails(p) \/ Crash(p)
      PROVE  Goal
  <2>1. rows' = rows /\ ~At(p, "idle")
    BY <1>8 DEF Dispatch, List, Post, Posting, DispatchFails, ListFails, PostFails, MarkFails, Crash, At
  <2>2. /\ \A y \in Publishers \ {p} : publisher'[y] = publisher[y]
        /\ publisher'[p].at = "idle" \/ publisher'[p].row = Row(p)
    BY <1>1, <1>8 DEF Dispatch, List, Post, DispatchFails, ListFails, PostFails, MarkFails, Crash,
       Goto, IdlePoll, PollState, Row
  <2>3. CASE q = p
    BY <1>2, <2>1, <2>2, <2>3 DEF Leads
  <2>4. CASE q # p
    BY <1>3, <2>1, <2>2, <2>4
  <2>. QED
    BY <2>3, <2>4
<1>9. ASSUME NEW x \in Rows, LeaseExpires(x) PROVE Goal
  <2>1. publisher' = publisher /\ ~Attended(x) /\ \A y \in Rows \ {x} : rows'[y] = rows[y]
    BY <1>1, <1>9 DEF LeaseExpires
  <2>2. Leads(q) /\ Row(q) \in Rows /\ ~At(q, "idle")
    BY <1>1, <1>2, <2>1 DEF Row, At
  <2>3. Row(q) # x
    BY <1>1, <2>1, <2>2 DEF Attended, Leads
  <2>. QED
    BY <1>3, <2>1, <2>2, <2>3
<1>10. ASSUME NEW x \in Rows, BackoffEnds(x) PROVE Goal
  <2>1. publisher' = publisher
        /\ \A y \in Rows : rows'[y].lease = rows[y].lease /\ rows'[y].live = rows[y].live
    BY <1>1, <1>10 DEF BackoffEnds, RowRecord
  <2>2. Leads(q) /\ Row(q) \in Rows
    BY <1>1, <1>2, <2>1 DEF Row, At
  <2>. QED
    BY <2>1, <2>2 DEF Leads, Row
<1>11. Arrive \/ NextAttempt \/ UNCHANGED vars => rows' = rows /\ publisher' = publisher
  BY DEF Arrive, NextAttempt, vars
<1>12. ASSUME rows' = rows, publisher' = publisher PROVE Goal
  BY <1>3, <1>12
<1>. HIDE DEF Goal
<1>13. \/ \E j \in Jobs : Arm(j) \/ SweepArm(j)
       \/ \E x \in Syncs : Enqueue(x)
       \/ \E p \in Publishers : \E x \in Rows : \E place \in {"send", "list"} : Claim(p, x, place)
       \/ \E p \in Publishers :
            \/ Dispatch(p) \/ List(p) \/ Post(p) \/ Mark(p) \/ Fail(p)
            \/ DispatchFails(p) \/ ListFails(p) \/ PostFails(p) \/ MarkFails(p) \/ Crash(p)
       \/ \E x \in Rows : LeaseExpires(x) \/ BackoffEnds(x)
       \/ rows' = rows /\ publisher' = publisher
  BY NextCases, <1>11
<1>14. Goal
  BY <1>13, <1>4, <1>5, <1>6, <1>7, <1>8, <1>9, <1>10, <1>12
<1>. QED
  BY <1>14 DEF Goal

LEMMA HoldersStep ==
    ASSUME TypeInv, HoldersLead, [Next]_vars, ~Spend("overlap")
    PROVE  HoldersLead'
<1>1. ASSUME NEW q \in Publishers, publisher'[q].at # "idle", publisher'[q].row \in Syncs
      PROVE  rows'[publisher'[q].row].lease = q /\ rows'[publisher'[q].row].live
  BY <1>1, LeadersStep
<1>2. wire' = {}
  <2>1. wire = {}
    BY DEF HoldersLead
  <2>2. wire' = wire \/ Arrive \/ \E p \in Publishers : PostFails(p)
    BY NextCases DEF NextAttempt, Arm, SweepArm, Enqueue, Claim, Dispatch, List,
       Post, Mark, Fail, DispatchFails, ListFails, MarkFails, Crash, LeaseExpires,
       BackoffEnds, vars, remote
  <2>3. ASSUME NEW p \in Publishers, PostFails(p) PROVE wire' = wire
    BY <2>3 DEF PostFails
  <2>4. ~Arrive
    BY <2>1 DEF Arrive
  <2>. QED
    BY <2>1, <2>2, <2>3, <2>4
<1>. QED
  BY <1>1, <1>2 DEF HoldersLead, At, Row, Leads

\* The comments of a row change when a poll at work on it posts; undisturbed it leads.
LEMMA ShownStands ==
    ASSUME TypeInv, UpdatesFit, wire = {}, [Next]_vars, NEW r \in Comments, NEW version,
           Shown(r, version),
           \A p \in Publishers : Post(p) \/ PostFails(p) => Row(p) # r
    PROVE  Shown(r, version)'
<1>1. CASE comments' = comments
  BY <1>1 DEF Shown, CommentsOf
<1>2. ASSUME NEW p \in Publishers, Post(p) \/ PostFails(p), Apply(Request(p)) PROVE Shown(r, version)'
  <2>1. /\ Request(p) \in Requests /\ RequestFits(Request(p))
        /\ Request(p).message.row = Row(p) /\ Row(p) # r
    BY <1>2, RequestsFit DEF Post, PostFails
  <2>2. CommentsOf(r)' = CommentsOf(r) /\ \A i \in CommentsOf(r) : comments'[i] = comments[i]
    BY <1>2, <2>1, AppliedToComments
  <2>. QED
    BY <2>2 DEF Shown
<1>3. \/ comments' = comments
      \/ \E p \in Publishers : (Post(p) \/ PostFails(p)) /\ Apply(Request(p))
  BY NextCases DEF NextAttempt, Arm, SweepArm, Enqueue, Claim, Dispatch, List,
     Post, Mark, Fail, DispatchFails, ListFails, PostFails, MarkFails, Crash, Arrive, LeaseExpires,
     BackoffEnds, vars, remote
<1>. QED
  BY <1>1, <1>2, <1>3

\* Undisturbed there is one comment of a row at most, and none while one is created.
LEMMA OneComment ==
    ASSUME CommentsInv, Undisturbed, NEW r \in Comments
    PROVE  /\ \A i, k \in CommentsOf(r) : i = k
           /\ \A p \in Creating(r) : CommentsOf(r) = {}
<1>1. IsFiniteSet(CommentsOf(r)) /\ Cardinality(CommentsOf(r)) \in Nat
  BY CommentsFinite, FS_CardinalityType DEF CommentsInv, TypeInv
<1>2. CommentsCounted(r)
  BY DEF CommentsInv
<1>3. Cardinality(CommentsOf(r)) <= 1
  BY <1>1, CountedMeansUnique DEF Undisturbed
<1>4. ASSUME NEW i \in CommentsOf(r), NEW k \in CommentsOf(r), i # k PROVE FALSE
  <2>1. /\ IsFiniteSet({i}) /\ Cardinality({i}) = 1
        /\ IsFiniteSet(CommentsOf(r) \ {i})
        /\ Cardinality(CommentsOf(r) \ {i}) + 1 <= Cardinality(CommentsOf(r))
        /\ Cardinality(CommentsOf(r) \ {i}) \in Nat
    BY <1>1, FS_Singleton, SetButOne
  <2>2. CommentsOf(r) \ {i} = {}
    BY <1>1, <1>3, <2>1, FS_EmptySet
  <2>. QED
    BY <1>4, <2>2
<1>5. ASSUME NEW p \in Creating(r), CommentsOf(r) # {} PROVE FALSE
  <2>1. /\ IsFiniteSet(Creating(r)) /\ Cardinality(Creating(r)) \in Nat
        /\ Cardinality(OnItsWay(r)) \in Nat
        /\ Cardinality(CommentsOf(r)) + Cardinality(Creating(r)) + Cardinality(OnItsWay(r)) <= 1
    BY <1>2, <1>5, FS_CardinalityType DEF CommentsCounted, Undisturbed
  <2>2. Cardinality(CommentsOf(r)) # 0 /\ Cardinality(Creating(r)) # 0
    BY <1>1, <1>5, <2>1, FS_EmptySet
  <2>. QED
    BY <1>1, <2>1, <2>2
<1>. QED
  BY <1>4, <1>5

\* A poll that is about to mark a comment has seen or made it so.
LEMMA MarkersShow ==
    ASSUME CommentsInv, Undisturbed, [Next]_vars, NEW q \in Publishers, NEW r \in Comments,
           publisher'[q].at = "mark", publisher'[q].row = r, publisher[q].at # "mark"
    PROVE  Shown(r, publisher[q].version)'
<1>. USE PublishersAssumption
<1>1. /\ publisher \in [Publishers -> PollState] /\ comments \in Seq(Messages)
      /\ TypeInv /\ UpdatesFit
  BY DEF CommentsInv, TypeInv, TypeOK
<1>2. Dispatch(q) \/ List(q) \/ Post(q)
  <2>1. ASSUME NEW p \in Publishers, NEW x \in Rows, NEW place \in {"send", "list"}, Claim(p, x, place)
        PROVE  FALSE
    BY <1>1, <2>1 DEF Claim
  <2>2. ASSUME NEW p \in Publishers, Dispatch(p) \/ List(p) \/ Post(p), p # q PROVE FALSE
    BY <1>1, <2>2 DEF Dispatch, List, Post, Goto
  <2>3. ASSUME NEW p \in Publishers, publisher' = [publisher EXCEPT ![p] = IdlePoll] PROVE FALSE
    BY <1>1, <2>3 DEF IdlePoll
  <2>4. ASSUME NEW p \in Publishers, Goto(p, "fail") PROVE FALSE
    BY <1>1, <2>4 DEF Goto, PollState
  <2>5. publisher' # publisher
    OBVIOUS
  <2>6. ASSUME NEW p \in Publishers,
               \/ Mark(p) \/ Fail(p) \/ DispatchFails(p) \/ ListFails(p) \/ PostFails(p)
               \/ MarkFails(p) \/ Crash(p)
        PROVE  FALSE
    BY <2>3, <2>4, <2>6
       DEF Mark, Fail, Settle, DispatchFails, ListFails, PostFails, MarkFails, Crash
  <2>. QED
    BY NextCases, <2>1, <2>2, <2>5, <2>6
       DEF Arm, SweepArm, Enqueue, Arrive, LeaseExpires, BackoffEnds, NextAttempt, vars
<1>3. publisher'[q].row = Row(q) /\ publisher'[q].version = publisher[q].version
  BY <1>1, <1>2 DEF Dispatch, List, Post, Goto, PollState, Row
<1>4. Row(q) = r /\ Row(q) \notin Jobs
  BY <1>3 DEF Syncs
<1>5. ~Dispatch(q)
  BY <1>1, <1>4 DEF Dispatch, At, TypeInv, PlacesFitRows
<1>. DEFINE message == Says(r, publisher[q].version)
<1>6. CASE List(q)
  <2>1. comments' = comments /\ publisher'[q].at = Find(q).at /\ At(q, "list")
    BY <1>1, <1>6 DEF List, remote, PollState
  <2>2. Find(q).found \in CommentsOf(r) /\ comments[Find(q).found] = message
    BY <1>1, <1>4, <2>1, FoundIsMine
  <2>3. \A i \in CommentsOf(r) : comments[i] = message
    BY <2>2, OneComment
  <2>. QED
    BY <1>3, <2>1, <2>2, <2>3 DEF Shown, CommentsOf
<1>7. CASE Post(q)
  <2>1. /\ Request(q) \in Requests /\ RequestFits(Request(q)) /\ Apply(Request(q))
        /\ Request(q).message.row = r /\ Request(q).op = publisher[q].at
        /\ Request(q).message = message
        /\ publisher[q].at \in {"create", "update"}
    BY <1>1, <1>4, <1>7, RequestsFit DEF Post, Request, Posting, At
  <2>2. CASE publisher[q].at = "create"
    <3>1. /\ CommentsOf(r)' = CommentsOf(r) \union {Len(comments) + 1}
          /\ comments' = Append(comments, message)
      BY <1>1, <2>1, <2>2, AppliedToComments
    <3>2. CommentsOf(r) = {}
      BY <1>4, <2>2, OneComment DEF Creating, At
    <3>3. comments'[Len(comments) + 1] = message
      <4>. HIDE DEF message
      <4>1. message \in Messages
        BY <2>1 DEF Requests
      <4>. QED
        BY <1>1, <3>1, <4>1
    <3>. QED
      BY <1>3, <3>1, <3>2, <3>3 DEF Shown
  <2>3. CASE publisher[q].at = "update"
    <3>1. /\ CommentsOf(r)' = CommentsOf(r)
          /\ comments' = [comments EXCEPT ![Request(q).found] = message]
      BY <1>1, <2>1, <2>3, AppliedToComments
    <3>2. Request(q).found \in CommentsOf(r)
      BY <2>1, <2>3 DEF RequestFits
    <3>3. comments'[Request(q).found] = message
      BY <3>1, <3>2 DEF CommentsOf
    <3>4. \A i \in CommentsOf(r) : i = Request(q).found
      BY <3>2, OneComment
    <3>. QED
      BY <1>3, <3>1, <3>2, <3>3, <3>4 DEF Shown
  <2>. QED
    BY <2>1, <2>2, <2>3
<1>. QED
  BY <1>2, <1>5, <1>6, <1>7

LEMMA CommentsShownStep ==
    ASSUME CommentsInv, DeliveryInv, Undisturbed, HoldersLead, CommentsShown, [Next]_vars
    PROVE  CommentsShown'
<1>. USE PublishersAssumption
<1>1. /\ publisher \in [Publishers -> PollState] /\ rows \in [Rows -> RowRecord]
      /\ TypeInv /\ UpdatesFit /\ wire = {}
  BY DEF CommentsInv, TypeInv, TypeOK, HoldersLead
<1>2. ASSUME NEW p \in Publishers, Post(p) \/ PostFails(p)
      PROVE  Row(p) \in Syncs /\ rows[Row(p)].lease = p /\ ~At(p, "idle") /\ ~At(p, "mark")
  <2>1. Posting(p)
    BY <1>2 DEF Post, PostFails
  <2>2. Row(p) \in Syncs /\ ~At(p, "idle") /\ ~At(p, "mark")
    BY <1>1, <2>1 DEF Posting, At, TypeInv, PlacesFitRows
  <2>. QED
    BY <2>2 DEF HoldersLead, Leads
<1>3. ASSUME NEW r \in Comments, rows'[r].status = "DONE" PROVE Shown(r, rows[r].want)'
  <2>1. r \in Rows /\ r \in Syncs
    BY DEF Rows, Syncs
  <2>2. ASSUME Shown(r, rows[r].want), rows'[r].want = rows[r].want,
               \A p \in Publishers : Post(p) \/ PostFails(p) => Row(p) # r
        PROVE  Shown(r, rows[r].want)'
    <3>1. PICK version : version = rows[r].want
      OBVIOUS
    <3>2. Shown(r, version)'
      BY <1>1, <2>2, <3>1, ShownStands
    <3>. QED
      BY <2>2, <3>1, <3>2 DEF Shown
  <2>3. CASE rows[r].status = "DONE" /\ rows'[r].want = rows[r].want
    <3>1. rows[r].lease = Nobody
      BY <1>1, <2>1, <2>3, RowsAreSound DEF RowIsSound, TypeInv
    <3>2. \A p \in Publishers : Post(p) \/ PostFails(p) => Row(p) # r
      BY <1>2, <3>1
    <3>. QED
      BY <2>2, <2>3, <3>2 DEF CommentsShown
  <2>4. ASSUME NEW p \in Publishers, Mark(p), Row(p) = r, rows[r].lease = p,
               rows'[r].want = rows[r].want
        PROVE  Shown(r, rows[r].want)'
    <3>1. At(p, "mark") /\ publisher[p].version = rows[r].want
      BY <2>4 DEF Mark, At, DeliveryInv, PollsKnowTheirRows, Holds
    <3>2. Shown(r, rows[r].want)
      BY <2>4, <3>1 DEF CommentsShown
    <3>3. \A f \in Publishers : Post(f) \/ PostFails(f) => Row(f) # r
      BY <1>2, <2>4, <3>1
    <3>. QED
      BY <2>2, <2>4, <3>2, <3>3
  <2>. QED
    BY <1>1, <1>3, <2>1, <2>3, <2>4, DoneStep
<1>4. ASSUME NEW r \in Comments, NEW q \in Publishers, publisher'[q].at = "mark", publisher'[q].row = r
      PROVE  Shown(r, publisher[q].version)'
  <2>1. CASE publisher[q].at # "mark"
    BY <1>4, <2>1, MarkersShow
  <2>2. CASE publisher[q].at = "mark"
    <3>1. publisher'[q] = publisher[q]
      <4>1. ASSUME NEW p \in Publishers, NEW x \in Rows, NEW place \in {"send", "list"}, Claim(p, x, place)
            PROVE  publisher'[q] = publisher[q]
        BY <1>1, <2>2, <4>1 DEF Claim, At
      <4>2. ASSUME NEW p \in Publishers, Dispatch(p) \/ List(p) \/ Post(p) \/ DispatchFails(p)
                                          \/ ListFails(p) \/ PostFails(p)
            PROVE  publisher'[q] = publisher[q]
        BY <1>1, <2>2, <4>2 DEF Dispatch, List, Post, DispatchFails, ListFails, PostFails, Posting,
           Goto, At
      <4>3. ASSUME NEW p \in Publishers, Mark(p) \/ Fail(p) \/ Crash(p)
            PROVE  publisher'[q] = publisher[q]
        BY <1>1, <1>4, <4>3 DEF Mark, Fail, Crash, Settle, IdlePoll
      <4>4. ASSUME NEW p \in Publishers, MarkFails(p) PROVE publisher'[q] = publisher[q]
        BY <1>1, <1>4, <4>4 DEF MarkFails, Goto, PollState
      <4>. QED
        BY NextCases, <4>1, <4>2, <4>3, <4>4
           DEF Arm, SweepArm, Enqueue, Arrive, LeaseExpires, BackoffEnds, NextAttempt, vars
    <3>2. Row(q) = r /\ At(q, "mark") /\ r \in Syncs
      BY <1>4, <2>2, <3>1 DEF Row, At, Syncs
    <3>3. rows[r].lease = q
      BY <3>2 DEF HoldersLead, Leads, At
    <3>4. \A p \in Publishers : Post(p) \/ PostFails(p) => Row(p) # r
      BY <1>2, <3>2, <3>3
    <3>5. PICK version : version = publisher[q].version
      OBVIOUS
    <3>6. Shown(r, version)
      BY <3>2, <3>5 DEF CommentsShown
    <3>7. Shown(r, version)'
      BY <1>1, <3>4, <3>6, ShownStands
    <3>. QED
      BY <3>1, <3>5, <3>7 DEF Shown
  <2>. QED
    BY <2>1, <2>2
<1>. QED
  BY <1>3, <1>4 DEF CommentsShown, At, Row

\* What is waited for does not fall behind what Gitea was given.
LEMMA OrderStep ==
    ASSUME TypeInv, DeliveryInv, RowsFollowWishes, RowsFollowWishes', HoldersLead, StatusesInOrder,
           [Next]_vars, ~overtaken', ~Spend("overlap")
    PROVE  StatusesInOrder'
<1>. USE PublishersAssumption
<1>1. /\ publisher \in [Publishers -> PollState] /\ rows \in [Rows -> RowRecord]
      /\ statuses \in Seq(Messages) /\ attempt \in Nat
      /\ Statuses \subseteq Syncs /\ Statuses \subseteq Rows
      /\ \A r \in Statuses : AttemptOf[r] \in Nat
  BY DEF TypeInv, TypeOK, Rows, Syncs
<1>2. \A r \in Statuses : rows[r].want \in Nat /\ rows'[r].want \in Nat /\ wanted[r] \in Nat
  <2>1. rows' \in [Rows -> RowRecord] /\ wanted \in [Syncs -> Versions]
    BY OneRowChanges DEF TypeInv, TypeOK
  <2>2. Versions \subseteq Nat /\ \A row \in RowRecord : row.want \in Versions
    BY DEF RowRecord, Versions
  <2>. QED
    BY <1>1, <2>1, <2>2
<1>3. \A r \in Statuses : rows[r].want # 0 => wanted[r] # 0 /\ AttemptOf[r] <= attempt
  BY <1>1, <1>2 DEF RowsFollowWishes
<1>4. ASSUME NEW r \in Statuses
      PROVE  \/ AsksTheSame(r)
             \/ \E version \in Versions : Wished(r, version)
  BY <1>1, <1>4, SyncRowStep
<1>5. ASSUME NEW r \in Statuses, NEW version \in Versions, Wished(r, version)
      PROVE  /\ ~OlderPending(r) /\ ~NewerReported(r)
             /\ rows'[r].want >= rows[r].want
             /\ \A x \in Statuses \ {r} : rows'[x] = rows[x]
             /\ statuses' = statuses
  <2>1. rows'[r].want = version /\ version \in Nat /\ version >= wanted[r] /\ rows[r].want <= wanted[r]
    BY <1>1, <1>5 DEF Wished, Armed, Versions, RowsFollowWishes
  <2>2. ~OlderPending(r) /\ ~NewerReported(r)
    BY <1>5 DEF Wished
  <2>3. statuses' = statuses
    BY <1>5 DEF Wished, Enqueue, remote
  <2>4. \A x \in Statuses \ {r} : rows'[x] = rows[x]
    BY <1>1, <1>5 DEF Wished
  <2>. QED
    BY <1>2, <2>1, <2>2, <2>3, <2>4
<1>6. \A r \in Statuses : rows'[r].want >= rows[r].want
  BY <1>2, <1>4, <1>5 DEF AsksTheSame
<1>7. \A r \in Statuses : Waits(r) => rows[r].want # 0 /\ wanted[r] # 0
  BY <1>1, <1>3 DEF Waits, RowsFollowWishes
<1>8. ASSUME NEW r \in Statuses, NEW version \in Versions, Wished(r, version),
             NEW x \in Statuses, Waits(x)
      PROVE  x = r
  <2>1. AttemptOf[x] <= AttemptOf[r] /\ ~(AttemptOf[x] < AttemptOf[r])
    BY <1>1, <1>5, <1>7, <1>8 DEF OlderPending, NewerReported, Waits
  <2>. QED
    BY <1>1, <2>1
<1>9. ASSUME NEW q \in Statuses, NEW r \in Statuses, Waits(q)', Waits(r)' PROVE q = r
  <2>1. CASE AsksTheSame(q) /\ AsksTheSame(r)
    BY <1>9, <2>1 DEF AsksTheSame, StatusesInOrder
  <2>2. ASSUME NEW f \in Statuses, NEW g \in Statuses, NEW version \in Versions,
               Wished(f, version), Waits(g)'
        PROVE  g = f
    <3>1. CASE g # f
      <4>1. Waits(g)
        BY <1>5, <2>2, <3>1 DEF Waits
      <4>. QED
        BY <1>8, <2>2, <4>1
    <3>. QED
      BY <3>1
  <2>. QED
    BY <1>4, <1>9, <2>1, <2>2
<1>10. ASSUME NEW x \in Statuses, rows[x].want # 0,
              \A r \in Statuses : Waits(r) => AttemptOf[x] <= AttemptOf[r]
       PROVE  \A r \in Statuses : Waits(r)' => AttemptOf[x] <= AttemptOf[r]
  <2>. SUFFICES ASSUME NEW r \in Statuses, Waits(r)' PROVE AttemptOf[x] <= AttemptOf[r]
    OBVIOUS
  <2>1. CASE AsksTheSame(r)
    BY <1>10, <2>1 DEF AsksTheSame
  <2>2. ASSUME NEW version \in Versions, Wished(r, version) PROVE AttemptOf[x] <= AttemptOf[r]
    BY <1>1, <1>3, <1>5, <1>10, <2>2 DEF NewerReported
  <2>. QED
    BY <1>4, <2>1, <2>2
<1>11. \A i \in DOMAIN statuses : InTime(statuses[i]) /\ statuses[i].version \in Nat
  <2>1. \A m \in Messages : m.version \in Nat
    BY DEF Messages, Versions
  <2>. QED
    BY <1>1, <2>1 DEF StatusesInOrder
<1>12. ASSUME NEW m, InTime(m), m.version \in Nat PROVE InTime(m)'
  <2>1. m.row \in Statuses /\ rows[m.row].want # 0 /\ m.version <= rows'[m.row].want
    BY <1>2, <1>6, <1>12 DEF InTime
  <2>2. \A r \in Statuses : Waits(r)' => AttemptOf[m.row] <= AttemptOf[r]
    BY <1>10, <1>12, <2>1 DEF InTime
  <2>. QED
    BY <1>12, <2>1, <2>2 DEF InTime
<1>13. CASE statuses' = statuses
  BY <1>9, <1>11, <1>12, <1>13 DEF StatusesInOrder, Precedes
<1>14. ASSUME NEW p \in Publishers, Post(p) \/ PostFails(p), Apply(Request(p)), Row(p) \in Statuses
       PROVE  StatusesInOrder'
  <2>. DEFINE y == Row(p)
              m == Request(p).message
  <2>1. /\ Posting(p) /\ rows' = rows
    BY <1>14 DEF Post, PostFails
  <2>2. Leads(p) /\ ~At(p, "idle")
    BY <1>1, <1>14, <2>1 DEF HoldersLead, Posting, At
  <2>3. /\ publisher[p].version = rows[y].want /\ rows[y].lease # Nobody
    BY <1>1, <2>2 DEF DeliveryInv, PollsKnowTheirRows, Holds, Leads, At
  <2>4. Waits(y) /\ rows[y].want # 0
    <3>1. rows[y].status # "ABSENT" /\ rows[y].status # "DONE"
      BY <1>1, <1>14, <2>3, RowsAreSound DEF RowsFollowWishes, RowIsSound, TypeInv
    <3>2. rows[y].status \in RowStatuses
      BY <1>1, <1>14 DEF RowRecord
    <3>3. Waits(y)
      BY <3>1, <3>2 DEF Waits, RowStatuses
    <3>. QED
      BY <1>7, <1>14, <3>3
  <2>5. m.row = y /\ m.version = rows[y].want /\ m \in Messages
    BY <1>1, <1>14, <2>1, <2>3, RequestTyped DEF Request, Says, Requests, TypeInv
  <2>6. statuses' = Append(statuses, m)
    BY <1>14, <2>5 DEF Apply
  <2>. HIDE DEF m, y
  <2>7. /\ DOMAIN statuses' = DOMAIN statuses \union {Len(statuses) + 1}
        /\ \A i \in DOMAIN statuses : statuses'[i] = statuses[i] /\ i \in Nat /\ i < Len(statuses) + 1
        /\ statuses'[Len(statuses) + 1] = m /\ Len(statuses) + 1 \notin DOMAIN statuses
        /\ Len(statuses) \in Nat
    BY <1>1, <2>5, <2>6
  <2>8. y \in Statuses /\ \A r \in Statuses : Waits(r) => r = y
    BY <1>14, <2>4 DEF StatusesInOrder, y
  <2>9. ASSUME NEW i \in DOMAIN statuses PROVE Precedes(statuses[i], m)
    <3>1. /\ statuses[i].row \in Statuses /\ AttemptOf[statuses[i].row] <= AttemptOf[y]
          /\ statuses[i].version <= rows[statuses[i].row].want
      BY <1>11, <2>4, <2>8 DEF InTime
    <3>2. AttemptOf[statuses[i].row] < AttemptOf[y] \/ statuses[i].row = y
      BY <1>1, <2>8, <3>1
    <3>. QED
      BY <2>5, <3>1, <3>2 DEF Precedes
  <2>10. InTime(m) /\ m.version \in Nat
    BY <1>1, <1>2, <2>4, <2>5, <2>8 DEF InTime
  <2>11. ASSUME NEW i \in DOMAIN statuses' PROVE InTime(statuses[i])'
    <3>1. PICK n : n = statuses'[i]
      OBVIOUS
    <3>2. InTime(n) /\ n.version \in Nat
      BY <1>11, <2>7, <2>10, <2>11, <3>1
    <3>3. InTime(n)'
      BY <1>12, <3>2
    <3>. QED
      BY <3>1, <3>3 DEF InTime
  <2>12. ASSUME NEW i \in DOMAIN statuses', NEW k \in DOMAIN statuses', i < k
         PROVE  Precedes(statuses'[i], statuses'[k])
    <3>1. CASE k \in DOMAIN statuses
      <4>1. i \in DOMAIN statuses
        BY <2>7, <2>12, <3>1
      <4>. QED
        BY <2>7, <2>12, <3>1, <4>1 DEF StatusesInOrder
    <3>2. CASE k = Len(statuses) + 1
      <4>1. i \in DOMAIN statuses
        BY <2>7, <2>12, <3>2
      <4>. QED
        BY <2>7, <2>9, <3>2, <4>1
    <3>. QED
      BY <2>7, <2>12, <3>1, <3>2
  <2>. QED
    BY <1>9, <2>11, <2>12 DEF StatusesInOrder, InTime, Precedes, Waits
<1>15. \/ statuses' = statuses
       \/ \E p \in Publishers :
            (Post(p) \/ PostFails(p)) /\ Apply(Request(p)) /\ Row(p) \in Statuses
  <2>1. ASSUME NEW p \in Publishers, Apply(Request(p)), Row(p) \notin Statuses PROVE statuses' = statuses
    BY <2>1 DEF Apply, Request, Says
  <2>2. ~Arrive
    BY DEF Arrive, HoldersLead
  <2>. QED
    BY NextCases, <2>1, <2>2 DEF NextAttempt, Arm, SweepArm, Enqueue, Claim, Dispatch, List,
       Post, Mark, Fail, DispatchFails, ListFails, PostFails, MarkFails, Crash, LeaseExpires,
       BackoffEnds, vars, remote
<1>. QED
  BY <1>14, <1>15, <1>13

LEMMA LatestInit == Init => LatestInv
<1>. SUFFICES ASSUME Init PROVE LatestInv
  OBVIOUS
<1>. USE PublishersAssumption
<1>1. \A r \in Rows : rows[r].status = "ABSENT" /\ rows[r].want = 0 /\ rows[r].lease = Nobody
  BY DEF Init, NoRow
<1>2. \A p \in Publishers : publisher[p].at = "idle"
  BY DEF Init, IdlePoll
<1>3. CommentsInv
  BY CommentsInvInit
<1>4. DeliveryInv
  BY TypeInvInit, <1>1, <1>2
     DEF DeliveryInv, PollsKnowTheirRows, MarkersHaveDelivered, MarkedMeansDelivered,
         PublishedWasSent, SyncedWasPosted, Holds, Rows, Syncs
<1>5. RowsFollowWishes
  BY <1>1 DEF RowsFollowWishes, Init, Rows
<1>6. Spent("overlap") = 0
  BY DEF Init, Spent, Events
<1>7. HoldersLead /\ CommentsShown
  BY <1>1, <1>2 DEF HoldersLead, CommentsShown, At, Init, Rows, Syncs
<1>8. StatusesInOrder
  BY <1>1 DEF StatusesInOrder, Waits, Init, Rows, Syncs
<1>. QED
  BY <1>3, <1>4, <1>5, <1>6, <1>7, <1>8 DEF LatestInv

LEMMA DeliveryStep ==
    ASSUME DeliveryInv, [Next]_vars
    PROVE  DeliveryInv'
  BY TypeInvNext, PollsKeepKnowing, MarkersKeepDelivering, MarkedKeepsMeaning DEF DeliveryInv

LEMMA LatestStep == LatestInv /\ [Next]_vars => LatestInv'
<1>. SUFFICES ASSUME LatestInv, [Next]_vars PROVE LatestInv'
  OBVIOUS
<1>1. TypeInv /\ CommentsInv /\ DeliveryInv /\ RowsFollowWishes /\ Spent("overlap") >= 0
  BY DEF LatestInv, CommentsInv
<1>2. CommentsInv' /\ DeliveryInv' /\ RowsFollowWishes'
  BY <1>1, CommentsInvStep, DeliveryStep, WishesStep
<1>3. Spent("overlap")' >= 0 /\ (Undisturbed' => Undisturbed /\ ~Spend("overlap"))
  BY <1>1, OverlapStep
<1>4. ASSUME Undisturbed' PROVE HoldersLead' /\ CommentsShown'
  BY <1>1, <1>3, <1>4, HoldersStep, CommentsShownStep DEF LatestInv
<1>5. ASSUME ~overtaken' PROVE ~overtaken
  BY <1>5, NextCases DEF NextAttempt, Arm, SweepArm, Enqueue, Claim, Dispatch, List, Post, Mark, Fail,
     DispatchFails, ListFails, PostFails, MarkFails, Crash, Arrive, LeaseExpires,
     BackoffEnds, vars, asked
<1>6. ASSUME Undisturbed', ~overtaken' PROVE StatusesInOrder'
  BY <1>1, <1>2, <1>3, <1>5, <1>6, OrderStep DEF LatestInv
<1>. QED
  BY <1>2, <1>3, <1>4, <1>6 DEF LatestInv

\* When nothing waits, the comment of a row shows what was asked for last.
LEMMA CommentIsLatest ==
    ASSUME LatestInv, Quiet, Undisturbed, NEW r \in Comments, wanted[r] # 0
    PROVE  comments[Min(CommentsOf(r))] = Says(r, wanted[r])
<1>1. r \in Syncs /\ TypeOK
  BY DEF Syncs, LatestInv, CommentsInv, TypeInv
<1>2. rows[r].status = "DONE" /\ rows[r].want = wanted[r]
  BY <1>1 DEF Quiet, LatestInv, RowsFollowWishes
<1>3. Shown(r, wanted[r])
  BY <1>2 DEF LatestInv, CommentsShown
<1>4. CommentsOf(r) \in SUBSET Nat /\ CommentsOf(r) # {}
  BY <1>1, <1>3, CommentsFinite DEF Shown
<1>5. Min(CommentsOf(r)) \in CommentsOf(r)
  BY <1>4, LeastExists DEF Min
<1>. QED
  BY <1>3, <1>5 DEF Shown

\* ... and the last status is that of the newest attempt that was reported.
LEMMA StatusIsLatest ==
    ASSUME LatestInv, Quiet, Undisturbed, ~overtaken,
           NEW r \in Statuses, wanted[r] # 0, Newest(r)
    PROVE  Last(statuses) = Says(r, wanted[r])
<1>. USE PublishersAssumption
<1>1. /\ r \in Syncs /\ Statuses \subseteq Syncs /\ Statuses \subseteq Rows
      /\ statuses \in Seq(Messages)
      /\ \A x \in Statuses : AttemptOf[x] \in Nat /\ rows[x].want \in Nat /\ wanted[x] \in Nat
  <2>1. /\ rows \in [Rows -> RowRecord] /\ wanted \in [Syncs -> Versions]
        /\ statuses \in Seq(Messages) /\ Statuses \subseteq Syncs /\ Statuses \subseteq Rows
    BY DEF LatestInv, CommentsInv, TypeInv, TypeOK, Syncs, Rows
  <2>2. Versions \subseteq Nat /\ \A row \in RowRecord : row.want \in Versions
    BY DEF RowRecord, Versions
  <2>. QED
    BY <2>1, <2>2
<1>2. rows[r].status = "DONE" /\ rows[r].want = wanted[r]
  BY <1>1 DEF Quiet, LatestInv, RowsFollowWishes
<1>3. PICK i \in 1..Len(statuses) : statuses[i] = Says(r, wanted[r])
  BY <1>2 DEF LatestInv, DeliveryInv, MarkedMeansDelivered, SyncedWasPosted, Contains
<1>4. /\ Len(statuses) \in DOMAIN statuses /\ i \in DOMAIN statuses
      /\ i < Len(statuses) \/ i = Len(statuses)
      /\ Last(statuses) \in Messages /\ Last(statuses) = statuses[Len(statuses)]
  BY <1>1, <1>3 DEF Last
<1>5. CASE i = Len(statuses)
  BY <1>3, <1>4, <1>5
<1>6. CASE i < Len(statuses)
  <2>. DEFINE m == Last(statuses)
  <2>1. InTime(m) /\ Precedes(Says(r, wanted[r]), m)
    BY <1>3, <1>4, <1>6 DEF LatestInv, StatusesInOrder
  <2>2. Says(r, wanted[r]).row = r /\ Says(r, wanted[r]).version = wanted[r]
    BY DEF Says
  <2>3. m.version \in Nat /\ m = Says(m.row, m.version)
    BY <1>4 DEF Messages, Versions, Says
  <2>. HIDE DEF m
  <2>4. m.row \in Statuses /\ wanted[m.row] # 0 /\ rows[m.row].want = wanted[m.row]
    BY <1>1, <2>1, <2>3 DEF InTime, Quiet
  <2>5. AttemptOf[m.row] <= AttemptOf[r]
    BY <2>4 DEF Newest
  <2>6. m.row = r
    BY <1>1, <2>1, <2>2, <2>4, <2>5 DEF Precedes
  <2>7. m.version = wanted[r]
    BY <1>1, <1>2, <2>1, <2>2, <2>3, <2>6 DEF Precedes, InTime
  <2>. QED
    BY <2>3, <2>6, <2>7 DEF m
<1>. QED
  BY <1>4, <1>5, <1>6

\* When all is published, undisturbed, Gitea shows each comment as asked for, and last
\* of all statuses that of the newest attempt reported, unless an attempt was reported
\* while an older one was still pending or after a newer one.
THEOREM GiteaIsLatest == Spec => []GiteaShowsTheLatest
<1>1. LatestInv => GiteaShowsTheLatest
  BY CommentIsLatest, StatusIsLatest DEF GiteaShowsTheLatest
<1>. QED
  BY <1>1, LatestInit, LatestStep, PTL DEF Spec
=============================================================================
