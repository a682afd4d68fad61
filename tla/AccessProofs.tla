----------------------------- MODULE AccessProofs -----------------------------
(***************************************************************************)
(* Theorems about logins, sessions and requests, for any number of         *)
(* browsers, users, callbacks, requests, logins, sessions and attempts.    *)
(***************************************************************************)
EXTENDS Access, TLAPS

\* What the steps do to the logins: one is begun or consumed, or their time passes.
LEMMA LoginsTyped ==
    ASSUME TypeOK, [Next]_vars
    PROVE  /\ oauth' \in [Logins -> LoginRow]
           /\ \A l \in Logins : oauth'[l].row = "deleted" => oauth'[l].late
<1>. DEFINE Goal == /\ oauth' \in [Logins -> LoginRow]
                    /\ \A l \in Logins : oauth'[l].row = "deleted" => oauth'[l].late
<1>. USE DEF LoginRow, Row
<1>1. /\ oauth \in [Logins -> LoginRow]
      /\ \A l \in Logins : oauth[l].row = "deleted" => oauth[l].late
  BY DEF TypeOK
<1>2. ASSUME NEW b \in Browsers, Begin(b) PROVE Goal
  <2>1. PICK l \in Logins : oauth' = [k \in Logins |->
             IF k = l THEN [oauth[l] EXCEPT !.row = "there", !.begunIn = b] ELSE Swept(oauth[k])]
    BY <1>2 DEF Begin
  <2>2. [oauth[l] EXCEPT !.row = "there", !.begunIn = b] \in LoginRow
    BY <1>1
  <2>3. \A k \in Logins : /\ Swept(oauth[k]) \in LoginRow
                          /\ Swept(oauth[k]).row = "deleted" => Swept(oauth[k]).late
    BY <1>1 DEF Swept
  <2>4. [oauth[l] EXCEPT !.row = "there", !.begunIn = b].row = "there"
    BY <1>1
  <2>. QED
    BY <2>1, <2>2, <2>3, <2>4
<1>3. ASSUME NEW c \in Callbacks, Consume(c) PROVE Goal
  <2>. DEFINE l == callback[c].login
  <2>1. oauth' = oauth \/ oauth' = [oauth EXCEPT ![l].consumed = TRUE]
    BY <1>3 DEF Consume
  <2>2. CASE l \in Logins
    <3>. DEFINE used == [oauth[l] EXCEPT !.consumed = TRUE]
    <3>1. used \in LoginRow /\ used.row = oauth[l].row /\ used.late = oauth[l].late
      BY <1>1, <2>2
    <3>2. oauth' = oauth \/ oauth' = [oauth EXCEPT ![l] = used]
      BY <2>1
    <3>. HIDE DEF used
    <3>. QED
      BY <1>1, <2>2, <3>1, <3>2
  <2>3. CASE l \notin Logins
    BY <1>1, <2>1, <2>3
  <2>. QED
    BY <2>2, <2>3
<1>4. ASSUME NEW l \in Logins, LoginIsLate(l) PROVE Goal
  BY <1>1, <1>4 DEF LoginIsLate
<1>5. CASE oauth' = oauth
  BY <1>1, <1>5
<1>. HIDE DEF Goal
<1>6. \/ \E b \in Browsers : Begin(b)
      \/ \E c \in Callbacks : Consume(c)
      \/ \E l \in Logins : LoginIsLate(l)
      \/ oauth' = oauth
  BY DEF Next, vars, Load, Arrive, Select, Exchange, Insert, Reply, Ask, Authenticate, Revoke,
     LoggedOut, Find, Permit, Retry, Cancel, SessionIsLate, RightIsWithdrawn, DeleteExpired, Work
<1>. QED
  BY <1>2, <1>3, <1>4, <1>5, <1>6 DEF Goal

\* What the steps do to the sessions: one is made, revoked or late, or those that
\* are over are deleted.
LEMMA SessionsTyped ==
    ASSUME TypeOK, [Next]_vars
    PROVE  /\ sessions' \in [Sessions -> SessionRow]
           /\ \A s \in Sessions : sessions'[s].row = "deleted" => sessions'[s].late
<1>. DEFINE Goal == /\ sessions' \in [Sessions -> SessionRow]
                    /\ \A s \in Sessions : sessions'[s].row = "deleted" => sessions'[s].late
<1>. USE DEF SessionRow, Row
<1>1. /\ sessions \in [Sessions -> SessionRow]
      /\ \A s \in Sessions : sessions[s].row = "deleted" => sessions[s].late
  BY DEF TypeOK
<1>2. ASSUME NEW c \in Callbacks, Insert(c) PROVE Goal
  <2>. DEFINE made(s) == [sessions[s] EXCEPT !.row = "there", !.user = callback[c].user,
                                             !.login = callback[c].login]
  <2>1. callback[c].user \in Users \union {NoUser} /\ callback[c].login \in Logins \union {None}
    BY DEF TypeOK, CallbackState
  <2>2. PICK s \in Sessions : sessions' = [sessions EXCEPT ![s] = made(s)]
    BY <1>1, <1>2 DEF Insert
  <2>3. made(s) \in SessionRow /\ made(s).row = "there"
    BY <1>1, <2>1
  <2>. HIDE DEF made
  <2>. QED
    BY <1>1, <2>2, <2>3
<1>3. ASSUME NEW s \in Sessions,
             \/ sessions' = [sessions EXCEPT ![s].revoked = TRUE]
             \/ sessions' = [sessions EXCEPT ![s].late = TRUE]
      PROVE  Goal
  <2>. DEFINE revoked == [sessions[s] EXCEPT !.revoked = TRUE]
              late    == [sessions[s] EXCEPT !.late = TRUE]
  <2>1. /\ revoked \in SessionRow /\ late \in SessionRow
        /\ revoked.row = "deleted" => revoked.late
        /\ late.row = "deleted" => late.late
    BY <1>1
  <2>2. sessions' = [sessions EXCEPT ![s] = revoked] \/ sessions' = [sessions EXCEPT ![s] = late]
    BY <1>3
  <2>. HIDE DEF revoked, late
  <2>. QED
    BY <1>1, <2>1, <2>2
<1>4. ASSUME NEW r \in Requests, Revoke(r) PROVE Goal
  <2>1. CASE request[r].session \in Sessions
    BY <1>3, <1>4, <2>1 DEF Revoke
  <2>2. CASE request[r].session \notin Sessions
    BY <1>1, <1>4, <2>2 DEF Revoke
  <2>. QED
    BY <2>1, <2>2
<1>5. ASSUME NEW s \in Sessions, SessionIsLate(s) PROVE Goal
  BY <1>3, <1>5 DEF SessionIsLate
<1>6. CASE DeleteExpired
  <2>. DEFINE swept(s) == IF sessions[s].row = "there" /\ Expired(s)
                          THEN [sessions[s] EXCEPT !.row = "deleted"] ELSE sessions[s]
  <2>1. \A s \in Sessions : swept(s) \in SessionRow /\ (swept(s).row = "deleted" => swept(s).late)
    BY <1>1 DEF Expired
  <2>2. sessions' = [s \in Sessions |-> swept(s)]
    BY <1>6 DEF DeleteExpired
  <2>. HIDE DEF swept
  <2>. QED
    BY <2>1, <2>2
<1>7. CASE sessions' = sessions
  BY <1>1, <1>7
<1>. HIDE DEF Goal
<1>8. \/ \E c \in Callbacks : Insert(c)
      \/ \E r \in Requests : Revoke(r)
      \/ \E s \in Sessions : SessionIsLate(s)
      \/ DeleteExpired
      \/ sessions' = sessions
  BY DEF Next, vars, Begin, Load, Arrive, Select, Consume, Exchange, Reply, Ask, Authenticate,
     LoggedOut, Find, Permit, Retry, Cancel, LoginIsLate, RightIsWithdrawn, Work
<1>. QED
  BY <1>2, <1>4, <1>5, <1>6, <1>7, <1>8 DEF Goal

\* A callback goes on, is refused, has its session, or has come.
LEMMA CallbacksTyped ==
    ASSUME TypeOK, [Next]_vars
    PROVE  callback' \in [Callbacks -> CallbackState]
<1>. DEFINE Goal == callback' \in [Callbacks -> CallbackState]
            Places == {"idle", "select", "consume", "exchange", "insert", "reply", "done", "refused"}
<1>1. callback \in [Callbacks -> CallbackState]
  BY DEF TypeOK
<1>2. ASSUME NEW c \in Callbacks, NEW place \in Places, callback' = [callback EXCEPT ![c].at = place]
      PROVE  Goal
  <2>. DEFINE moved == [callback[c] EXCEPT !.at = place]
  <2>1. moved \in CallbackState
    BY <1>1 DEF CallbackState
  <2>2. callback' = [callback EXCEPT ![c] = moved]
    BY <1>2
  <2>. HIDE DEF moved
  <2>. QED
    BY <1>1, <2>1, <2>2
<1>3. ASSUME NEW c \in Callbacks, Insert(c) PROVE Goal
  <2>1. PICK s \in Sessions : callback' = [callback EXCEPT ![c].at = "reply", ![c].session = s]
    BY <1>3 DEF Insert
  <2>. DEFINE moved == [callback[c] EXCEPT !.at = "reply", !.session = s]
  <2>2. moved \in CallbackState
    BY <1>1 DEF CallbackState
  <2>3. callback' = [callback EXCEPT ![c] = moved]
    BY <1>1, <2>1 DEF CallbackState
  <2>. HIDE DEF moved
  <2>. QED
    BY <1>1, <2>2, <2>3
<1>4. ASSUME NEW c \in Callbacks, NEW b \in Browsers, NEW l \in Logins, NEW u \in Users,
             Arrive(c, b, l, u)
      PROVE  Goal
  <2>. DEFINE came == [callback[c] EXCEPT !.at = "select", !.browser = b, !.cookie = jar[b].login,
                                          !.login = l, !.user = u]
  <2>1. jar[b].login \in Logins \union {None}
    BY DEF TypeOK, Jar
  <2>2. came \in CallbackState
    BY <1>1, <2>1 DEF CallbackState
  <2>3. callback' = [callback EXCEPT ![c] = came]
    BY <1>4 DEF Arrive
  <2>. HIDE DEF came
  <2>. QED
    BY <1>1, <2>2, <2>3
<1>5. ASSUME NEW c \in Callbacks, Select(c) \/ Consume(c) \/ Exchange(c) \/ Reply(c)
      PROVE  Goal
  <2>1. \E place \in Places : callback' = [callback EXCEPT ![c].at = place]
    BY <1>5 DEF Select, Consume, Exchange, Reply, Proceed, Refuse
  <2>. QED
    BY <1>2, <2>1
<1>. HIDE DEF Goal
<1>6. CASE callback' = callback
  BY <1>1, <1>6 DEF Goal
<1>7. \/ \E c \in Callbacks :
            \/ Insert(c) \/ Select(c) \/ Consume(c) \/ Exchange(c) \/ Reply(c)
            \/ \E b \in Browsers, l \in Logins, u \in Users : Arrive(c, b, l, u)
      \/ callback' = callback
  BY DEF Next, vars, Begin, Load, Ask, Authenticate, Revoke, LoggedOut, Find, Permit, Retry, Cancel,
     LoginIsLate, SessionIsLate, RightIsWithdrawn, DeleteExpired, Work
<1>. QED
  BY <1>3, <1>4, <1>5, <1>6, <1>7 DEF Goal

\* A request goes on, ends, has read the Run, or has come.
LEMMA RequestsTyped ==
    ASSUME TypeOK, [Next]_vars
    PROVE  request' \in [Requests -> RequestState]
<1>. DEFINE Goal == request' \in [Requests -> RequestState]
            Places == {"idle", "asked", "find", "permit", "commit", "revoke", "reply", "done", "denied"}
            Deeds == {"nothing", "retried", "cancelled"}
<1>1. request \in [Requests -> RequestState]
  BY DEF TypeOK
<1>2. ASSUME NEW r \in Requests, NEW place \in Places, Goto(r, place) PROVE Goal
  <2>. DEFINE moved == [request[r] EXCEPT !.at = place]
  <2>1. moved \in RequestState
    BY <1>1 DEF RequestState
  <2>2. request' = [request EXCEPT ![r] = moved]
    BY <1>2 DEF Goto
  <2>. HIDE DEF moved
  <2>. QED
    BY <1>1, <2>1, <2>2
<1>3. ASSUME NEW r \in Requests, NEW did \in Deeds, Ends(r, did) PROVE Goal
  <2>. DEFINE ended == [request[r] EXCEPT !.at = "done", !.did = did]
  <2>1. ended \in RequestState
    BY <1>1 DEF RequestState
  <2>2. request' = [request EXCEPT ![r] = ended]
    BY <1>1, <1>3 DEF Ends, RequestState
  <2>. HIDE DEF ended
  <2>. QED
    BY <1>1, <2>1, <2>2
<1>4. ASSUME NEW r \in Requests, Find(r) PROVE Goal
  <2>. DEFINE read == [request[r] EXCEPT !.at = "permit", !.seen = run]
  <2>1. read \in RequestState
    BY <1>1 DEF RequestState, TypeOK
  <2>2. request' = [request EXCEPT ![r] = read]
    BY <1>1, <1>4 DEF Find, RequestState
  <2>. HIDE DEF read
  <2>. QED
    BY <1>1, <2>1, <2>2
<1>5. ASSUME NEW r \in Requests, NEW b \in Browsers, NEW kind \in {"retry", "cancel", "logout"},
             Ask(r, b, kind)
      PROVE  Goal
  <2>. DEFINE s     == jar[b].session
              ended == s # None /\ (sessions[s].revoked \/ sessions[s].late)
              came  == [request[r] EXCEPT !.at = "asked", !.kind = kind, !.browser = b,
                                          !.session = s, !.page = jar[b].page, !.ended = ended]
  <2>1. s \in Sessions \union {None} /\ jar[b].page \in Sessions \union {None}
    BY DEF TypeOK, Jar
  <2>2. ended \in BOOLEAN
    OBVIOUS
  <2>. HIDE DEF s, ended
  <2>3. came \in RequestState
    BY <1>1, <2>1, <2>2 DEF RequestState
  <2>4. request' = [request EXCEPT ![r] = came]
    BY <1>5 DEF Ask, s, ended
  <2>. HIDE DEF came
  <2>. QED
    BY <1>1, <2>3, <2>4
<1>6. ASSUME NEW r \in Requests,
             Authenticate(r) \/ Revoke(r) \/ LoggedOut(r) \/ Permit(r) \/ Retry(r) \/ Cancel(r)
      PROVE  Goal
  <2>1. \/ \E place \in Places : Goto(r, place)
        \/ \E did \in Deeds : Ends(r, did)
    BY <1>6 DEF Authenticate, Revoke, LoggedOut, Permit, Retry, Cancel
  <2>. QED
    BY <1>2, <1>3, <2>1
<1>. HIDE DEF Goal
<1>7. CASE request' = request
  BY <1>1, <1>7 DEF Goal
<1>8. \/ \E r \in Requests :
            \/ Find(r) \/ Authenticate(r) \/ Revoke(r) \/ LoggedOut(r) \/ Permit(r) \/ Retry(r) \/ Cancel(r)
            \/ \E b \in Browsers, kind \in {"retry", "cancel", "logout"} : Ask(r, b, kind)
      \/ request' = request
  BY DEF Next, vars, Begin, Load, Arrive, Select, Consume, Exchange, Insert, Reply,
     LoginIsLate, SessionIsLate, RightIsWithdrawn, DeleteExpired, Work
<1>. QED
  BY <1>4, <1>5, <1>6, <1>7, <1>8 DEF Goal

\* A browser's cookies are those of a login or a session, or none.
LEMMA JarsTyped ==
    ASSUME TypeOK, [Next]_vars
    PROVE  jar' \in [Browsers -> Jar]
<1>. DEFINE Goal == jar' \in [Browsers -> Jar]
<1>1. jar \in [Browsers -> Jar]
  BY DEF TypeOK
<1>2. ASSUME NEW b \in Browsers, NEW l \in Logins \union {None}, jar' = [jar EXCEPT ![b].login = l]
      PROVE  Goal
  BY <1>1, <1>2 DEF Jar
<1>3. ASSUME NEW b \in Browsers, NEW s \in Sessions \union {None},
             jar' = [jar EXCEPT ![b].session = s] \/ jar' = [jar EXCEPT ![b].page = s]
      PROVE  Goal
  BY <1>1, <1>3 DEF Jar
<1>4. ASSUME NEW c \in Callbacks, Reply(c) PROVE Goal
  <2>. DEFINE b == callback[c].browser
              kept == [jar[b] EXCEPT !.login = None, !.session = callback[c].session]
  <2>1. b \in Browsers /\ callback[c].session \in Sessions \union {None}
    BY DEF TypeOK, CallbackState
  <2>2. kept \in Jar
    BY <1>1, <2>1 DEF Jar
  <2>3. jar' = [jar EXCEPT ![b] = kept]
    BY <1>1, <1>4, <2>1 DEF Reply, Jar
  <2>. HIDE DEF kept, b
  <2>. QED
    BY <1>1, <2>1, <2>2, <2>3
<1>5. ASSUME NEW b \in Browsers, Begin(b) PROVE Goal
  BY <1>2, <1>5 DEF Begin
<1>6. ASSUME NEW b \in Browsers, Load(b) PROVE Goal
  <2>1. jar[b].session \in Sessions \union {None}
    BY <1>1 DEF Jar
  <2>. QED
    BY <1>3, <1>6, <2>1 DEF Load
<1>7. ASSUME NEW r \in Requests, LoggedOut(r) PROVE Goal
  <2>1. request[r].browser \in Browsers
    BY DEF TypeOK, RequestState
  <2>. QED
    BY <1>3, <1>7, <2>1 DEF LoggedOut
<1>8. ASSUME NEW c \in Callbacks, Select(c) \/ Consume(c) \/ Exchange(c) PROVE Goal
  <2>1. jar' = jar \/ jar' = [jar EXCEPT ![callback[c].browser].login = None]
    BY <1>8 DEF Select, Consume, Exchange, Proceed, Refuse
  <2>2. callback[c].browser \in Browsers
    BY DEF TypeOK, CallbackState
  <2>. QED
    BY <1>1, <1>2, <2>1, <2>2
<1>. HIDE DEF Goal
<1>9. CASE jar' = jar
  BY <1>1, <1>9 DEF Goal
<1>10. \/ \E b \in Browsers : Begin(b) \/ Load(b)
       \/ \E c \in Callbacks : Select(c) \/ Consume(c) \/ Exchange(c) \/ Reply(c)
       \/ \E r \in Requests : LoggedOut(r)
       \/ jar' = jar
  BY DEF Next, vars, Arrive, Insert, Ask, Authenticate, Revoke, Find, Permit, Retry, Cancel,
     LoginIsLate, SessionIsLate, RightIsWithdrawn, DeleteExpired, Work
<1>. QED
  BY <1>4, <1>5, <1>6, <1>7, <1>8, <1>9, <1>10 DEF Goal

LEMMA RunTyped ==
    ASSUME TypeOK, [Next]_vars
    PROVE  run' \in RunRow /\ run'.attempt >= run.attempt
<1>. DEFINE Goal == run' \in RunRow /\ run'.attempt >= run.attempt
            Statuses == {"QUEUED", "EXECUTING", "PASSED", "FAILED", "CANCEL_REQUESTED", "CANCELLED",
                         "REJECTED_BY_CAPACITY"}
<1>. USE AccessAssumption
<1>0. run \in RunRow
  BY DEF TypeOK
<1>1. run.attempt \in 1..MaxAttempts
  BY <1>0 DEF RunRow
<1>2. ASSUME NEW r \in Requests, Retry(r) PROVE Goal
  <2>1. CASE run' = run
    BY <1>0, <1>1, <2>1
  <2>2. CASE run' # run
    <3>. DEFINE next == [status |-> "QUEUED", cleanup |-> "NOT_SCHEDULED", attempt |-> run.attempt + 1]
    <3>1. run' = next /\ run.attempt < MaxAttempts
      BY <1>2, <2>2 DEF Retry
    <3>2. next \in RunRow /\ next.attempt >= run.attempt
      BY <1>1, <3>1 DEF RunRow, CleanupStatuses
    <3>. QED
      BY <3>1, <3>2
  <2>. QED
    BY <2>1, <2>2
<1>3. ASSUME NEW to \in Statuses, NEW cleanup \in CleanupStatuses,
             run' = [run EXCEPT !.status = to, !.cleanup = cleanup]
      PROVE  Goal
  <2>. DEFINE next == [run EXCEPT !.status = to, !.cleanup = cleanup]
  <2>1. next \in RunRow /\ next.attempt = run.attempt
    BY <1>0 DEF RunRow
  <2>. HIDE DEF next
  <2>2. run' = next
    BY <1>3 DEF next
  <2>. QED
    BY <1>1, <2>1, <2>2
<1>4. CASE Work
  <2>1. ASSUME NEW to \in Statuses, run' = [run EXCEPT !.status = to] PROVE Goal
    <3>. DEFINE next == [run EXCEPT !.status = to]
    <3>1. next \in RunRow /\ next.attempt = run.attempt
      BY <1>0 DEF RunRow
    <3>2. run' = next
      BY <2>1
    <3>. HIDE DEF next
    <3>. QED
      BY <1>1, <3>1, <3>2
  <2>2. ASSUME run' = [run EXCEPT !.cleanup = "CLEANED"] PROVE Goal
    <3>. DEFINE next == [run EXCEPT !.cleanup = "CLEANED"]
    <3>1. next \in RunRow /\ next.attempt = run.attempt
      BY <1>0 DEF RunRow, CleanupStatuses
    <3>2. run' = next
      BY <2>2
    <3>. HIDE DEF next
    <3>. QED
      BY <1>1, <3>1, <3>2
  <2>3. \/ \E to \in Statuses : run' = [run EXCEPT !.status = to]
        \/ run' = [run EXCEPT !.cleanup = "CLEANED"]
        \/ run' = [run EXCEPT !.status = "CANCELLED", !.cleanup = "CLEANED"]
    BY <1>4 DEF Work, StoredAs
  <2>4. "CLEANED" \in CleanupStatuses
    BY DEF CleanupStatuses
  <2>5. CASE \E to \in Statuses : run' = [run EXCEPT !.status = to]
    BY <2>1, <2>5
  <2>6. CASE run' = [run EXCEPT !.status = "CANCELLED", !.cleanup = "CLEANED"]
    BY <1>3, <2>4, <2>6
  <2>. QED
    BY <2>2, <2>3, <2>5, <2>6
<1>7. ASSUME NEW r \in Requests, Cancel(r) PROVE Goal
  <2>1. CASE run' = run
    BY <1>0, <1>1, <2>1
  <2>2. CASE run' # run
    BY <1>3, <1>7, <2>2 DEF Cancel, StoredAs, CleanupStatuses
  <2>. QED
    BY <2>1, <2>2
<1>5. CASE run' = run
  BY <1>0, <1>1, <1>5
<1>. HIDE DEF Goal
<1>6. (\E r \in Requests : Retry(r) \/ Cancel(r)) \/ Work \/ run' = run
  BY DEF Next, vars, Begin, Load, Arrive, Select, Consume, Exchange, Insert, Reply, Ask, Authenticate,
     Revoke, LoggedOut, Find, Permit, LoginIsLate, SessionIsLate, RightIsWithdrawn, DeleteExpired
<1>. QED
  BY <1>2, <1>4, <1>5, <1>6, <1>7 DEF Goal

LEMMA OthersTyped ==
    ASSUME TypeOK, [Next]_vars
    PROVE  /\ codes' \in [Logins -> SUBSET Users]
           /\ maintainers' \subseteq Users
           /\ events' \in 0..MaxEvents
<1>1. codes' \in [Logins -> SUBSET Users]
  <2>1. ASSUME NEW l, NEW us \in SUBSET Users, codes' = [codes EXCEPT ![l] = us]
        PROVE  codes' \in [Logins -> SUBSET Users]
    BY <2>1 DEF TypeOK
  <2>2. ASSUME NEW c \in Callbacks, Exchange(c) PROVE codes' \in [Logins -> SUBSET Users]
    <3>. DEFINE l == callback[c].login
                u == callback[c].user
    <3>1. codes' = [codes EXCEPT ![l] = @ \ {u}]
      BY <2>2 DEF Exchange
    <3>. QED
      BY <3>1 DEF TypeOK
  <2>3. ASSUME NEW c \in Callbacks, NEW b \in Browsers, NEW l \in Logins, NEW u \in Users,
               Arrive(c, b, l, u)
        PROVE  codes' \in [Logins -> SUBSET Users]
    BY <2>3 DEF Arrive, TypeOK
  <2>4. \/ \E c \in Callbacks :
             \/ Exchange(c)
             \/ \E b \in Browsers, l \in Logins, u \in Users : Arrive(c, b, l, u)
        \/ codes' = codes
    BY DEF Next, vars, Begin, Load, Select, Consume, Insert, Reply, Ask, Authenticate, Revoke,
       LoggedOut, Find, Permit, Retry, Cancel, LoginIsLate, SessionIsLate, RightIsWithdrawn,
       DeleteExpired, Work
  <2>. QED
    BY <2>2, <2>3, <2>4 DEF TypeOK
<1>2. maintainers' \subseteq Users
  <2>1. maintainers' \subseteq maintainers
    BY DEF Next, vars, Begin, Load, Arrive, Select, Consume, Exchange, Insert, Reply, Ask,
       Authenticate, Revoke, LoggedOut, Find, Permit, Retry, Cancel, LoginIsLate, SessionIsLate,
       RightIsWithdrawn, DeleteExpired, Work
  <2>. QED
    BY <2>1 DEF TypeOK
<1>3. events' \in 0..MaxEvents
  <2>1. events' = events \/ Spend
    BY DEF Next, vars, Begin, Load, Arrive, Select, Consume, Exchange, Insert, Reply, Ask,
       Authenticate, Revoke, LoggedOut, Find, Permit, Retry, Cancel, LoginIsLate, SessionIsLate,
       RightIsWithdrawn, DeleteExpired, Work
  <2>. QED
    BY <2>1, AccessAssumption DEF Spend, TypeOK
<1>. QED
  BY <1>1, <1>2, <1>3

LEMMA TypeInit ==
    ASSUME Init
    PROVE  TypeOK
<1>. USE AccessAssumption DEF Init
<1>1. SomeBrowser \in Browsers
  BY DEF SomeBrowser
<1>2. NewRun \in RunRow
  BY DEF NewRun, RunRow, CleanupStatuses
<1>3. oauth \in [Logins -> LoginRow] /\ \A l \in Logins : oauth[l].row = "unborn"
  BY <1>1 DEF LoginRow, Row
<1>4. sessions \in [Sessions -> SessionRow] /\ \A s \in Sessions : sessions[s].row = "unborn"
  BY DEF SessionRow, Row
<1>5. jar \in [Browsers -> Jar]
  BY DEF Jar
<1>6. callback \in [Callbacks -> CallbackState]
  BY <1>1 DEF CallbackState
<1>7. request \in [Requests -> RequestState]
  BY <1>1, <1>2 DEF RequestState
<1>8. codes \in [Logins -> SUBSET Users] /\ maintainers \subseteq Users /\ events \in 0..MaxEvents
  OBVIOUS
<1>9. run \in RunRow
  BY <1>2
<1>. QED
  <2>. HIDE DEF Init
  <2>. QED
    BY <1>3, <1>4, <1>5, <1>6, <1>7, <1>8, <1>9 DEF TypeOK

LEMMA TypeNext ==
    ASSUME TypeOK, [Next]_vars
    PROVE  TypeOK'
  BY LoginsTyped, SessionsTyped, JarsTyped, CallbacksTyped, RequestsTyped, RunTyped, OthersTyped
     DEF TypeOK

\* Type correctness: every row, jar, callback and request keeps its type, and no
\* login or session is deleted before its time is over.
THEOREM TypeCorrect == Spec => []TypeOK
  BY TypeInit, TypeNext, PTL DEF Spec

-----------------------------------------------------------------------------
\* What has been done was asked for in time: a request whose session had ended when
\* it was sent gets no further than its authentication, and a retry was done for
\* an attempt that is over.
Over(s) == s \in Sessions /\ (sessions[s].revoked \/ sessions[s].late)

EndedGetNowhere ==
    \A r \in Requests : request[r].ended =>
        /\ Over(request[r].session)
        /\ request[r].at \in {"asked", "reply", "done", "denied"}
        /\ request[r].did = "nothing"

RetriedAreOver ==
    \A r \in Requests :
        /\ request[r].did # "nothing" => request[r].at = "done"
        /\ request[r].did = "retried" => request[r].seen.attempt < run.attempt

ChangesInv == TypeOK /\ EndedGetNowhere /\ RetriedAreOver /\ ChangesAreDue

\* A session that is over stays so.
LEMMA OverStays ==
    ASSUME TypeOK, [Next]_vars, NEW s, Over(s)
    PROVE  Over(s)'
<1>1. s \in Sessions /\ sessions \in [Sessions -> SessionRow]
  BY DEF Over, TypeOK
<1>2. CASE DeleteExpired
  BY <1>1, <1>2 DEF DeleteExpired, Over, SessionRow
<1>4. ASSUME NEW c \in Callbacks, Insert(c) PROVE Over(s)'
  <2>. DEFINE made(t) == [sessions[t] EXCEPT !.row = "there", !.user = callback[c].user,
                                             !.login = callback[c].login]
  <2>1. PICK t \in Sessions : sessions' = [sessions EXCEPT ![t] = made(t)]
    BY <1>1, <1>4 DEF Insert, SessionRow
  <2>2. made(t).revoked = sessions[t].revoked /\ made(t).late = sessions[t].late
    BY <1>1 DEF SessionRow
  <2>. HIDE DEF made
  <2>. QED
    BY <1>1, <2>1, <2>2 DEF Over
<1>5. ASSUME NEW t, sessions' = [sessions EXCEPT ![t].revoked = TRUE]
                    \/ sessions' = [sessions EXCEPT ![t].late = TRUE]
      PROVE  Over(s)'
  BY <1>1, <1>5 DEF Over, SessionRow
<1>6. CASE sessions' = sessions
  BY <1>6 DEF Over
<1>7. \/ \E c \in Callbacks : Insert(c)
      \/ \E t : \/ sessions' = [sessions EXCEPT ![t].revoked = TRUE]
              \/ sessions' = [sessions EXCEPT ![t].late = TRUE]
      \/ DeleteExpired
      \/ sessions' = sessions
  BY DEF Next, vars, Begin, Load, Arrive, Select, Consume, Exchange, Reply, Ask, Authenticate,
     Revoke, LoggedOut, Find, Permit, Retry, Cancel, LoginIsLate, SessionIsLate,
     RightIsWithdrawn, Work
<1>. QED
  BY <1>2, <1>4, <1>5, <1>6, <1>7

\* What a step does to one request.
LEMMA RequestStep ==
    ASSUME TypeOK, [Next]_vars, NEW q \in Requests
    PROVE  \/ request'[q] = request[q]
           \/ \E b \in Browsers, kind \in {"retry", "cancel", "logout"} : Ask(q, b, kind)
           \/ Authenticate(q) \/ Revoke(q) \/ LoggedOut(q) \/ Find(q) \/ Permit(q)
           \/ Retry(q) \/ Cancel(q)
<1>1. ASSUME NEW r \in Requests, r # q,
             \/ Authenticate(r) \/ Revoke(r) \/ LoggedOut(r) \/ Find(r) \/ Permit(r)
             \/ Retry(r) \/ Cancel(r)
      PROVE  request'[q] = request[q]
  <2>1. \/ \E place : Goto(r, place)
        \/ \E did : Ends(r, did)
        \/ request' = [request EXCEPT ![r].at = "permit", ![r].seen = run]
    BY <1>1 DEF Authenticate, Revoke, LoggedOut, Find, Permit, Retry, Cancel
  <2>. QED
    BY <1>1, <2>1 DEF Goto, Ends, TypeOK
<1>2. ASSUME NEW r \in Requests, r # q,
             \E b \in Browsers, kind \in {"retry", "cancel", "logout"} : Ask(r, b, kind)
      PROVE  request'[q] = request[q]
  BY <1>2 DEF Ask, TypeOK
<1>3. \/ request' = request
      \/ \E r \in Requests :
           \/ \E b \in Browsers, kind \in {"retry", "cancel", "logout"} : Ask(r, b, kind)
           \/ Authenticate(r) \/ Revoke(r) \/ LoggedOut(r) \/ Find(r) \/ Permit(r)
           \/ Retry(r) \/ Cancel(r)
  BY DEF Next, vars, Begin, Load, Arrive, Select, Consume, Exchange, Insert, Reply, LoginIsLate,
     SessionIsLate, RightIsWithdrawn, DeleteExpired, Work
<1>. QED
  BY <1>1, <1>2, <1>3

\* What it does to the fields that the invariants speak of.
LEMMA RequestFields ==
    ASSUME TypeOK, NEW q \in Requests
    PROVE  /\ \A place : Goto(q, place) =>
                /\ request'[q].at = place /\ request'[q].did = request[q].did
                /\ request'[q].seen = request[q].seen /\ request'[q].ended = request[q].ended
                /\ request'[q].session = request[q].session
           /\ \A did : Ends(q, did) =>
                /\ request'[q].at = "done" /\ request'[q].did = did
                /\ request'[q].seen = request[q].seen /\ request'[q].ended = request[q].ended
                /\ request'[q].session = request[q].session
           /\ Find(q) =>
                /\ request'[q].at = "permit" /\ request'[q].did = request[q].did
                /\ request'[q].seen = run /\ request'[q].ended = request[q].ended
                /\ request'[q].session = request[q].session
           /\ \A b \in Browsers, kind \in {"retry", "cancel", "logout"} : Ask(q, b, kind) =>
                /\ request'[q].at = "asked" /\ request'[q].did = request[q].did
                /\ request'[q].seen = request[q].seen
                /\ request'[q].session = jar[b].session
                /\ request'[q].ended =
                     (jar[b].session # None
                      /\ (sessions[jar[b].session].revoked \/ sessions[jar[b].session].late))
<1>. USE DEF RequestState
<1>1. request \in [Requests -> RequestState] /\ request[q] \in RequestState
  BY DEF TypeOK
<1>2. ASSUME NEW place, Goto(q, place)
      PROVE  /\ request'[q].at = place /\ request'[q].did = request[q].did
             /\ request'[q].seen = request[q].seen /\ request'[q].ended = request[q].ended
             /\ request'[q].session = request[q].session
  BY <1>1, <1>2 DEF Goto
<1>3. ASSUME NEW did, Ends(q, did)
      PROVE  /\ request'[q].at = "done" /\ request'[q].did = did
             /\ request'[q].seen = request[q].seen /\ request'[q].ended = request[q].ended
             /\ request'[q].session = request[q].session
  BY <1>1, <1>3 DEF Ends
<1>4. ASSUME Find(q)
      PROVE  /\ request'[q].at = "permit" /\ request'[q].did = request[q].did
             /\ request'[q].seen = run /\ request'[q].ended = request[q].ended
             /\ request'[q].session = request[q].session
  BY <1>1, <1>4 DEF Find
<1>5. ASSUME NEW b \in Browsers, NEW kind \in {"retry", "cancel", "logout"}, Ask(q, b, kind)
      PROVE  /\ request'[q].at = "asked" /\ request'[q].did = request[q].did
             /\ request'[q].seen = request[q].seen
             /\ request'[q].session = jar[b].session
             /\ request'[q].ended =
                  (jar[b].session # None
                   /\ (sessions[jar[b].session].revoked \/ sessions[jar[b].session].late))
  <2>. DEFINE s     == jar[b].session
              ended == s # None /\ (sessions[s].revoked \/ sessions[s].late)
              came  == [request[q] EXCEPT !.at = "asked", !.kind = kind, !.browser = b,
                                          !.session = s, !.page = jar[b].page, !.ended = ended]
  <2>. HIDE DEF s, ended
  <2>1. request' = [request EXCEPT ![q] = came]
    BY <1>5 DEF Ask, s, ended
  <2>2. /\ came.at = "asked" /\ came.did = request[q].did /\ came.seen = request[q].seen
        /\ came.session = s /\ came.ended = ended
    BY <1>1
  <2>. HIDE DEF came
  <2>3. request'[q] = came
    BY <1>1, <2>1
  <2>. QED
    BY <2>2, <2>3 DEF s, ended
<1>. QED
  BY <1>2, <1>3, <1>4, <1>5

LEMMA EndedKeepGettingNowhere ==
    ASSUME ChangesInv, [Next]_vars
    PROVE  EndedGetNowhere'
<1>. USE DEF ChangesInv
<1>. SUFFICES ASSUME NEW q \in Requests, request'[q].ended
              PROVE  /\ Over(request[q].session)'
                     /\ request'[q].at \in {"asked", "reply", "done", "denied"}
                     /\ request'[q].did = "nothing"
  BY DEF EndedGetNowhere
<1>1. ASSUME NEW b \in Browsers, NEW kind \in {"retry", "cancel", "logout"}, Ask(q, b, kind)
      PROVE  /\ Over(request[q].session)'
             /\ request'[q].at \in {"asked", "reply", "done", "denied"}
             /\ request'[q].did = "nothing"
  <2>1. request[q].did = "nothing"
    BY <1>1 DEF Ask, RetriedAreOver
  <2>2. jar[b].session \in Sessions \union {None} /\ sessions' = sessions
    BY <1>1 DEF Ask, TypeOK, Jar
  <2>3. request'[q].session = jar[b].session /\ Over(jar[b].session)
    BY <1>1, <2>2, RequestFields DEF Over
  <2>. QED
    BY <1>1, <2>1, <2>2, <2>3, RequestFields DEF Over
<1>2. ASSUME ~\E b \in Browsers, kind \in {"retry", "cancel", "logout"} : Ask(q, b, kind)
      PROVE  /\ Over(request[q].session)'
             /\ request'[q].at \in {"asked", "reply", "done", "denied"}
             /\ request'[q].did = "nothing"
  <2>1. \/ request'[q] = request[q]
        \/ \E place : Goto(q, place)
        \/ \E did : Ends(q, did)
        \/ Find(q)
    BY <1>2, RequestStep DEF Authenticate, Revoke, LoggedOut, Permit, Retry, Cancel
  <2>2. request[q].ended /\ request'[q].session = request[q].session
    BY <2>1, RequestFields
  <2>3. /\ Over(request[q].session)
        /\ request[q].at \in {"asked", "reply", "done", "denied"}
        /\ request[q].did = "nothing"
    BY <2>2 DEF EndedGetNowhere
  <2>4. ~Live(request[q].session)
    BY <2>3 DEF Over, Live
  <2>5. \/ request'[q] = request[q]
        \/ Goto(q, "reply") \/ Goto(q, "denied") \/ Goto(q, "done")
    BY <1>2, <2>3, <2>4, RequestStep
       DEF Authenticate, Revoke, LoggedOut, Find, Permit, Retry, Cancel
  <2>6. /\ request'[q].at \in {"asked", "reply", "done", "denied"}
        /\ request'[q].did = "nothing"
    BY <2>3, <2>5, RequestFields
  <2>7. Over(request[q].session)'
    BY <2>2, <2>3, OverStays DEF Over
  <2>. QED
    BY <2>6, <2>7
<1>. QED
  BY <1>1, <1>2

\* A retry that has been done now, or before.
LEMMA RetryStep ==
    ASSUME ChangesInv, [Next]_vars, NEW q \in Requests
    PROVE  /\ request'[q].did # "nothing" => request'[q].at = "done"
           /\ request'[q].did = "retried" =>
                /\ request'[q].seen = request[q].seen
                /\ \/ request[q].did = "retried"
                   \/ Retry(q) /\ request[q].seen = run /\ run'.attempt = run.attempt + 1
<1>. USE DEF ChangesInv
<1>1. request[q].did # "nothing" => request[q].at = "done"
  BY DEF RetriedAreOver
<1>2. CASE request'[q] = request[q]
  BY <1>1, <1>2
<1>3. ASSUME NEW b \in Browsers, NEW kind \in {"retry", "cancel", "logout"}, Ask(q, b, kind)
      PROVE  request'[q].did = "nothing"
  BY <1>1, <1>3, RequestFields DEF Ask
<1>4. CASE Authenticate(q) \/ Revoke(q) \/ LoggedOut(q) \/ Find(q)
  <2>1. request[q].did = "nothing"
    BY <1>1, <1>4 DEF Authenticate, Revoke, LoggedOut, Find
  <2>2. (\E place : Goto(q, place)) \/ Find(q)
    BY <1>4 DEF Authenticate, Revoke, LoggedOut
  <2>. QED
    BY <2>1, <2>2, RequestFields
<1>5. CASE Permit(q)
  <2>1. request[q].did = "nothing"
    BY <1>1, <1>5 DEF Permit
  <2>2. (\E place : Goto(q, place)) \/ Ends(q, "nothing")
    BY <1>5 DEF Permit
  <2>. QED
    BY <2>1, <2>2, RequestFields
<1>6. CASE Cancel(q)
  <2>1. Ends(q, "cancelled") \/ Ends(q, "nothing")
    BY <1>6 DEF Cancel
  <2>. QED
    BY <2>1, RequestFields
<1>7. CASE Retry(q)
  <2>1. CASE Ends(q, "nothing")
    BY <2>1, RequestFields
  <2>2. CASE ~Ends(q, "nothing")
    <3>1. /\ Ends(q, "retried") /\ AsSeen(q)
          /\ run' = [status |-> "QUEUED", cleanup |-> "NOT_SCHEDULED", attempt |-> run.attempt + 1]
      BY <1>7, <2>2 DEF Retry
    <3>. QED
      BY <1>7, <3>1, RequestFields DEF AsSeen
  <2>. QED
    BY <2>1, <2>2
<1>. QED
  BY <1>2, <1>3, <1>4, <1>5, <1>6, <1>7, RequestStep

LEMMA RetriedStayOver ==
    ASSUME ChangesInv, [Next]_vars
    PROVE  RetriedAreOver'
<1>. USE DEF ChangesInv
<1>. SUFFICES ASSUME NEW q \in Requests, request'[q].did = "retried"
              PROVE  request'[q].seen.attempt < run'.attempt
  BY RetryStep DEF RetriedAreOver
<1>1. /\ run \in RunRow /\ run.attempt \in Nat /\ run'.attempt \in Nat /\ run'.attempt >= run.attempt
      /\ request[q].seen.attempt \in Nat
  BY RunTyped, AccessAssumption DEF TypeOK, RunRow, RequestState
<1>2. CASE request[q].did = "retried"
  BY <1>1, <1>2, RetryStep DEF RetriedAreOver
<1>3. CASE request[q].did # "retried"
  BY <1>1, <1>3, RetryStep
<1>. QED
  BY <1>2, <1>3

LEMMA ChangesStayDue ==
    ASSUME ChangesInv, [Next]_vars
    PROVE  ChangesAreDue'
<1>. USE DEF ChangesInv
<1>1. \A r \in Requests : request'[r].ended => request'[r].did = "nothing"
  BY EndedKeepGettingNowhere DEF EndedGetNowhere
<1>2. ASSUME NEW r \in Requests, NEW q \in Requests,
             request'[r].did = "retried", request'[q].did = "retried",
             request'[r].seen.attempt = request'[q].seen.attempt, r # q
      PROVE  FALSE
  <2>1. request[r].seen.attempt = request[q].seen.attempt
    BY <1>2, RetryStep
  <2>2. run.attempt \in Nat /\ request[r].seen.attempt \in Nat /\ request[q].seen.attempt \in Nat
    BY AccessAssumption DEF TypeOK, RunRow, RequestState
  <2>3. ASSUME NEW x \in Requests, NEW y \in Requests, x # y, Retry(x)
        PROVE  request'[y] = request[y]
    BY <2>3 DEF Retry, Ends, TypeOK
  <2>4. \A x \in Requests : request[x].did = "retried" => request[x].seen.attempt < run.attempt
    BY DEF RetriedAreOver
  <2>5. CASE request[r].did = "retried" /\ request[q].did = "retried"
    BY <1>2, <2>1, <2>5 DEF ChangesAreDue
  <2>6. CASE request[r].did # "retried"
    <3>1. Retry(r) /\ request[r].seen = run
      BY <1>2, <2>6, RetryStep
    <3>2. request[q].did = "retried"
      BY <1>2, <2>3, <3>1
    <3>. QED
      BY <2>1, <2>2, <2>4, <3>1, <3>2
  <2>7. CASE request[q].did # "retried"
    <3>1. Retry(q) /\ request[q].seen = run
      BY <1>2, <2>7, RetryStep
    <3>2. request[r].did = "retried"
      BY <1>2, <2>3, <3>1
    <3>. QED
      BY <2>1, <2>2, <2>4, <3>1, <3>2
  <2>. QED
    BY <2>5, <2>6, <2>7
<1>. QED
  BY <1>1, <1>2 DEF ChangesAreDue

\* A request that was sent after its session had ended changes nothing, and of all
\* retries that saw the same attempt one starts the next.
THEOREM ChangesDue == Spec => []ChangesAreDue
<1>1. Init => ChangesInv
  <2>. SUFFICES ASSUME Init PROVE ChangesInv
    OBVIOUS
  <2>1. \A r \in Requests : ~request[r].ended /\ request[r].did = "nothing"
    BY DEF Init
  <2>. QED
    BY TypeInit, <2>1 DEF ChangesInv, EndedGetNowhere, RetriedAreOver, ChangesAreDue
<1>2. ChangesInv /\ [Next]_vars => ChangesInv'
  BY TypeNext, EndedKeepGettingNowhere, RetriedStayOver, ChangesStayDue DEF ChangesInv
<1>3. ChangesInv => ChangesAreDue
  BY DEF ChangesInv
<1>. QED
  BY <1>1, <1>2, <1>3, PTL DEF Spec

-----------------------------------------------------------------------------
\* Why a login makes one session: only one callback consumes it, and until that one
\* inserts its session the login has none. Why the session stays where the login was
\* begun: cookies of a browser are of logins begun in it, and a callback that goes
\* on carries the cookies of its own login.
Taking(c) == callback[c].at \in {"exchange", "insert"}

LoginsSound ==
    /\ \A l \in Logins : oauth[l].consumed => oauth[l].row # "unborn"
    /\ \A s \in Sessions : Born(s) => /\ sessions[s].login \in Logins
                                     /\ oauth[sessions[s].login].consumed

BegunIn(l, b) == oauth[l].row # "unborn" /\ oauth[l].begunIn = b

JarsSound ==
    \A b \in Browsers :
        /\ jar[b].login # None => BegunIn(jar[b].login, b)
        /\ jar[b].session # None => /\ Born(jar[b].session)
                                    /\ BegunIn(sessions[jar[b].session].login, b)

CallbackSound(c) ==
    /\ callback[c].at # "idle" =>
         /\ callback[c].login \in Logins
         /\ callback[c].cookie # None => BegunIn(callback[c].cookie, callback[c].browser)
    /\ callback[c].at \in {"consume", "exchange", "insert", "reply"} =>
         callback[c].cookie = callback[c].login
    /\ Taking(c) => oauth[callback[c].login].consumed
    /\ callback[c].at = "reply" =>
         /\ callback[c].session \in Sessions /\ Born(callback[c].session)
         /\ sessions[callback[c].session].login = callback[c].login

CallbacksSound == \A c \in Callbacks : CallbackSound(c)

TakersAreAlone ==
    \A c \in Callbacks : Taking(c) =>
        /\ \A s \in Sessions : Born(s) => sessions[s].login # callback[c].login
        /\ \A d \in Callbacks : Taking(d) /\ callback[d].login = callback[c].login => d = c

LoginsInv ==
    TypeOK /\ LoginsSound /\ JarsSound /\ CallbacksSound /\ TakersAreAlone /\ LoginsMakeOneSession

\* A login that has been begun stays so, where it was begun; it is consumed once.
LEMMA LoginStep ==
    ASSUME TypeOK, [Next]_vars, NEW l \in Logins
    PROVE  /\ \A b : BegunIn(l, b) => BegunIn(l, b)'
           /\ oauth[l].row # "unborn" => oauth'[l].row # "unborn"
           /\ oauth[l].consumed => oauth'[l].consumed
           /\ oauth'[l].consumed =>
                \/ oauth[l].consumed
                \/ \E c \in Callbacks : Consume(c) /\ callback[c].login = l /\ Unconsumed(l)
<1>. DEFINE Goal == /\ \A b : BegunIn(l, b) => BegunIn(l, b)'
                    /\ oauth[l].row # "unborn" => oauth'[l].row # "unborn"
                    /\ oauth[l].consumed => oauth'[l].consumed
                    /\ oauth'[l].consumed =>
                         \/ oauth[l].consumed
                         \/ \E c \in Callbacks : Consume(c) /\ callback[c].login = l /\ Unconsumed(l)
<1>1. oauth \in [Logins -> LoginRow] /\ oauth[l] \in LoginRow
  BY DEF TypeOK
<1>2. ASSUME NEW b \in Browsers, Begin(b) PROVE Goal
  <2>1. PICK k \in Logins :
          /\ oauth[k].row = "unborn"
          /\ oauth' = [m \in Logins |->
               IF m = k THEN [oauth[k] EXCEPT !.row = "there", !.begunIn = b] ELSE Swept(oauth[m])]
    BY <1>2 DEF Begin
  <2>2. CASE l = k
    <3>1. oauth'[l] = [oauth[l] EXCEPT !.row = "there", !.begunIn = b]
      BY <2>1, <2>2
    <3>2. oauth'[l].row = "there" /\ oauth'[l].consumed = oauth[l].consumed
      BY <1>1, <3>1 DEF LoginRow
    <3>. QED
      BY <2>1, <2>2, <3>2 DEF BegunIn
  <2>3. CASE l # k
    <3>1. oauth'[l] = Swept(oauth[l])
      BY <2>1, <2>3
    <3>2. /\ oauth'[l].consumed = oauth[l].consumed /\ oauth'[l].begunIn = oauth[l].begunIn
          /\ oauth[l].row # "unborn" => oauth'[l].row # "unborn"
      BY <1>1, <3>1 DEF Swept, LoginRow
    <3>. QED
      BY <3>2 DEF BegunIn
  <2>. QED
    BY <2>2, <2>3
<1>3. ASSUME NEW c \in Callbacks, Consume(c) PROVE Goal
  <2>1. CASE oauth' = oauth
    BY <2>1 DEF BegunIn
  <2>2. CASE oauth' # oauth
    <3>. DEFINE k == callback[c].login
    <3>1. Unconsumed(k) /\ oauth' = [oauth EXCEPT ![k].consumed = TRUE]
      BY <1>3, <2>2 DEF Consume
    <3>2. CASE k = l
      <4>1. /\ oauth'[l].row = oauth[l].row /\ oauth'[l].begunIn = oauth[l].begunIn
            /\ oauth'[l].consumed
        BY <1>1, <3>1, <3>2 DEF LoginRow
      <4>. QED
        BY <1>3, <3>1, <3>2, <4>1 DEF BegunIn
    <3>3. CASE k # l
      BY <1>1, <3>1, <3>3 DEF BegunIn
    <3>. QED
      BY <3>2, <3>3
  <2>. QED
    BY <2>1, <2>2
<1>4. ASSUME NEW k \in Logins, LoginIsLate(k) PROVE Goal
  <2>1. /\ oauth'[l].row = oauth[l].row /\ oauth'[l].begunIn = oauth[l].begunIn
        /\ oauth'[l].consumed = oauth[l].consumed
    BY <1>1, <1>4 DEF LoginIsLate, LoginRow
  <2>. QED
    BY <2>1 DEF BegunIn
<1>5. CASE oauth' = oauth
  BY <1>5 DEF BegunIn
<1>. HIDE DEF Goal
<1>6. \/ \E b \in Browsers : Begin(b)
      \/ \E c \in Callbacks : Consume(c)
      \/ \E k \in Logins : LoginIsLate(k)
      \/ oauth' = oauth
  BY DEF Next, vars, Load, Arrive, Select, Exchange, Insert, Reply, Ask, Authenticate, Revoke,
     LoggedOut, Find, Permit, Retry, Cancel, SessionIsLate, RightIsWithdrawn, DeleteExpired, Work
<1>. QED
  BY <1>2, <1>3, <1>4, <1>5, <1>6 DEF Goal

\* Inserting makes one session, of the callback's login.
LEMMA InsertMakes ==
    ASSUME TypeOK, NEW c \in Callbacks, Insert(c)
    PROVE  \E s \in Sessions :
              /\ ~Born(s) /\ Born(s)' /\ sessions'[s].login = callback[c].login
              /\ callback'[c].at = "reply" /\ callback'[c].session = s
              /\ \A t \in Sessions \ {s} : sessions'[t] = sessions[t]
<1>. DEFINE made(s) == [sessions[s] EXCEPT !.row = "there", !.user = callback[c].user,
                                           !.login = callback[c].login]
<1>1. sessions \in [Sessions -> SessionRow] /\ callback \in [Callbacks -> CallbackState]
  BY DEF TypeOK
<1>2. PICK s \in Sessions :
        /\ sessions[s].row = "unborn"
        /\ sessions' = [sessions EXCEPT ![s] = made(s)]
        /\ callback' = [callback EXCEPT ![c].at = "reply", ![c].session = s]
  BY <1>1 DEF Insert, SessionRow
<1>3. made(s).row = "there" /\ made(s).login = callback[c].login
  BY <1>1 DEF SessionRow
<1>4. callback'[c].at = "reply" /\ callback'[c].session = s
  BY <1>1, <1>2 DEF CallbackState
<1>. HIDE DEF made
<1>. QED
  BY <1>1, <1>2, <1>3, <1>4 DEF Born

\* A session that was made stays of its login; a step makes at most one.
LEMMA SessionStep ==
    ASSUME TypeOK, [Next]_vars
    PROVE  \/ \A s \in Sessions : /\ Born(s)' = Born(s)
                                  /\ sessions'[s].login = sessions[s].login
           \/ \E c \in Callbacks, s \in Sessions :
                /\ Insert(c) /\ ~Born(s) /\ Born(s)' /\ sessions'[s].login = callback[c].login
                /\ callback'[c].at = "reply" /\ callback'[c].session = s
                /\ \A t \in Sessions \ {s} : sessions'[t] = sessions[t]
<1>. DEFINE Same == \A s \in Sessions : /\ Born(s)' = Born(s)
                                       /\ sessions'[s].login = sessions[s].login
<1>1. sessions \in [Sessions -> SessionRow] /\ callback \in [Callbacks -> CallbackState]
  BY DEF TypeOK
<1>2. ASSUME NEW c \in Callbacks, Insert(c)
      PROVE  \E s \in Sessions :
                /\ Insert(c) /\ ~Born(s) /\ Born(s)' /\ sessions'[s].login = callback[c].login
                /\ callback'[c].at = "reply" /\ callback'[c].session = s
                /\ \A t \in Sessions \ {s} : sessions'[t] = sessions[t]
  BY <1>2, InsertMakes
<1>3. CASE DeleteExpired
  BY <1>1, <1>3 DEF DeleteExpired, Born, SessionRow
<1>4. ASSUME NEW t, sessions' = [sessions EXCEPT ![t].revoked = TRUE]
                    \/ sessions' = [sessions EXCEPT ![t].late = TRUE]
      PROVE  Same
  BY <1>1, <1>4 DEF Born, SessionRow
<1>5. CASE sessions' = sessions
  BY <1>5 DEF Born
<1>6. \/ \E c \in Callbacks : Insert(c)
      \/ \E t : \/ sessions' = [sessions EXCEPT ![t].revoked = TRUE]
              \/ sessions' = [sessions EXCEPT ![t].late = TRUE]
      \/ DeleteExpired
      \/ sessions' = sessions
  BY DEF Next, vars, Begin, Load, Arrive, Select, Consume, Exchange, Reply, Ask, Authenticate,
     Revoke, LoggedOut, Find, Permit, Retry, Cancel, LoginIsLate, SessionIsLate,
     RightIsWithdrawn, Work
<1>. QED
  BY <1>2, <1>3, <1>4, <1>5, <1>6

\* What a step does to one callback.
LEMMA CallbackStep ==
    ASSUME TypeOK, [Next]_vars, NEW c \in Callbacks
    PROVE  \/ callback'[c] = callback[c]
           \/ \E b \in Browsers, l \in Logins, u \in Users : Arrive(c, b, l, u)
           \/ Select(c) \/ Consume(c) \/ Exchange(c) \/ Insert(c) \/ Reply(c)
<1>1. ASSUME NEW d \in Callbacks, d # c,
             Select(d) \/ Consume(d) \/ Exchange(d) \/ Insert(d) \/ Reply(d)
      PROVE  callback'[c] = callback[c]
  <2>1. \/ \E place : callback' = [callback EXCEPT ![d].at = place]
        \/ \E s : callback' = [callback EXCEPT ![d].at = "reply", ![d].session = s]
    BY <1>1 DEF Select, Consume, Exchange, Insert, Reply, Proceed, Refuse
  <2>. QED
    BY <1>1, <2>1 DEF TypeOK
<1>2. ASSUME NEW d \in Callbacks, d # c,
             \E b \in Browsers, l \in Logins, u \in Users : Arrive(d, b, l, u)
      PROVE  callback'[c] = callback[c]
  BY <1>2 DEF Arrive, TypeOK
<1>3. \/ callback' = callback
      \/ \E d \in Callbacks :
           \/ \E b \in Browsers, l \in Logins, u \in Users : Arrive(d, b, l, u)
           \/ Select(d) \/ Consume(d) \/ Exchange(d) \/ Insert(d) \/ Reply(d)
  BY DEF Next, vars, Begin, Load, Ask, Authenticate, Revoke, LoggedOut, Find, Permit, Retry, Cancel,
     LoginIsLate, SessionIsLate, RightIsWithdrawn, DeleteExpired, Work
<1>. QED
  BY <1>1, <1>2, <1>3

\* A callback that has come keeps its browser, its cookie and its login.
Kept(c) == /\ callback'[c].browser = callback[c].browser
           /\ callback'[c].cookie = callback[c].cookie
           /\ callback'[c].login = callback[c].login

LEMMA CallbackFields ==
    ASSUME TypeOK, NEW c \in Callbacks
    PROVE  /\ \A place : callback' = [callback EXCEPT ![c].at = place] =>
                callback'[c].at = place /\ callback'[c].session = callback[c].session /\ Kept(c)
           /\ Insert(c) => callback'[c].at = "reply" /\ Kept(c)
           /\ \A b \in Browsers, l \in Logins, u \in Users : Arrive(c, b, l, u) =>
                /\ callback'[c].at = "select" /\ callback'[c].browser = b
                /\ callback'[c].cookie = jar[b].login /\ callback'[c].login = l
<1>1. callback \in [Callbacks -> CallbackState] /\ callback[c] \in CallbackState
  BY DEF TypeOK
<1>2. ASSUME NEW place, callback' = [callback EXCEPT ![c].at = place]
      PROVE  callback'[c].at = place /\ callback'[c].session = callback[c].session /\ Kept(c)
  BY <1>1, <1>2 DEF Kept, CallbackState
<1>3. ASSUME Insert(c) PROVE callback'[c].at = "reply" /\ Kept(c)
  <2>1. PICK s \in Sessions : callback' = [callback EXCEPT ![c].at = "reply", ![c].session = s]
    BY <1>3 DEF Insert
  <2>. QED
    BY <1>1, <2>1 DEF Kept, CallbackState
<1>4. ASSUME NEW b \in Browsers, NEW l \in Logins, NEW u \in Users, Arrive(c, b, l, u)
      PROVE  /\ callback'[c].at = "select" /\ callback'[c].browser = b
             /\ callback'[c].cookie = jar[b].login /\ callback'[c].login = l
  <2>. DEFINE came == [callback[c] EXCEPT !.at = "select", !.browser = b, !.cookie = jar[b].login,
                                          !.login = l, !.user = u]
  <2>1. /\ came.at = "select" /\ came.browser = b /\ came.cookie = jar[b].login /\ came.login = l
    BY <1>1 DEF CallbackState
  <2>2. callback' = [callback EXCEPT ![c] = came]
    BY <1>4 DEF Arrive
  <2>. HIDE DEF came
  <2>. QED
    BY <1>1, <2>1, <2>2
<1>. QED
  BY <1>2, <1>3, <1>4

\* Taking a login is begun by consuming it.
LEMMA TakingStep ==
    ASSUME TypeOK, [Next]_vars, NEW c \in Callbacks, Taking(c)'
    PROVE  /\ Kept(c)
           /\ \/ Taking(c)
              \/ /\ Consume(c) /\ Unconsumed(callback[c].login)
                 /\ oauth' = [oauth EXCEPT ![callback[c].login].consumed = TRUE]
<1>1. CASE callback'[c] = callback[c]
  BY <1>1 DEF Taking, Kept
<1>2. CASE Select(c) \/ Reply(c)
  <2>1. \E place \in {"consume", "refused", "done"} : callback' = [callback EXCEPT ![c].at = place]
    BY <1>2 DEF Select, Reply, Proceed, Refuse
  <2>. QED
    BY <2>1, CallbackFields DEF Taking
<1>3. CASE Consume(c)
  <2>1. CASE Unconsumed(callback[c].login)
    BY <1>3, <2>1, CallbackFields DEF Consume, Proceed
  <2>2. CASE ~Unconsumed(callback[c].login)
    BY <1>3, <2>2, CallbackFields DEF Consume, Refuse, Taking
  <2>. QED
    BY <2>1, <2>2
<1>4. CASE Exchange(c)
  <2>1. \E place : callback' = [callback EXCEPT ![c].at = place]
    BY <1>4 DEF Exchange, Proceed, Refuse
  <2>. QED
    BY <1>4, <2>1, CallbackFields DEF Taking, Exchange
<1>5. CASE Insert(c) \/ \E b \in Browsers, l \in Logins, u \in Users : Arrive(c, b, l, u)
  BY <1>5, CallbackFields DEF Taking
<1>. QED
  BY <1>1, <1>2, <1>3, <1>4, <1>5, CallbackStep

LEMMA LoginsStaySound ==
    ASSUME LoginsInv, [Next]_vars
    PROVE  LoginsSound'
<1>. USE DEF LoginsInv
<1>1. ASSUME NEW l \in Logins, oauth'[l].consumed PROVE oauth'[l].row # "unborn"
  BY <1>1, LoginStep DEF LoginsSound, Unconsumed
<1>2. ASSUME NEW s \in Sessions, Born(s)'
      PROVE  sessions'[s].login \in Logins /\ oauth'[sessions'[s].login].consumed
  <2>1. CASE Born(s) /\ sessions'[s].login = sessions[s].login
    BY <2>1, LoginStep DEF LoginsSound
  <2>2. ASSUME NEW c \in Callbacks, Insert(c), sessions'[s].login = callback[c].login
        PROVE  sessions'[s].login \in Logins /\ oauth'[sessions'[s].login].consumed
    <3>1. callback[c].login \in Logins /\ oauth[callback[c].login].consumed
      BY <2>2 DEF Insert, CallbacksSound, CallbackSound, Taking
    <3>. QED
      BY <2>2, <3>1, LoginStep
  <2>3. \/ Born(s) /\ sessions'[s].login = sessions[s].login
        \/ \E c \in Callbacks : Insert(c) /\ sessions'[s].login = callback[c].login
    BY <1>2, SessionStep DEF Born
  <2>. QED
    BY <2>1, <2>2, <2>3
<1>. QED
  BY <1>1, <1>2 DEF LoginsSound

LEMMA JarsStaySound ==
    ASSUME LoginsInv, [Next]_vars
    PROVE  JarsSound'
<1>. USE DEF LoginsInv
<1>. SUFFICES ASSUME NEW b \in Browsers
              PROVE  /\ jar'[b].login # None => BegunIn(jar[b].login, b)'
                     /\ jar'[b].session # None => /\ Born(jar[b].session)'
                                                  /\ BegunIn(sessions[jar[b].session].login, b)'
  BY DEF JarsSound
<1>1. /\ jar \in [Browsers -> Jar] /\ jar[b] \in Jar
      /\ jar[b].login \in Logins \union {None} /\ jar[b].session \in Sessions \union {None}
  BY DEF TypeOK, Jar
<1>2. ASSUME NEW l \in Logins, l = jar[b].login
      PROVE  BegunIn(l, b)'
  <2>1. l # None
    BY DEF Logins, None
  <2>. QED
    BY <1>2, <2>1, LoginStep DEF JarsSound
<1>3. ASSUME NEW s \in Sessions, Born(s)
      PROVE  /\ Born(s)' /\ sessions'[s].login = sessions[s].login
             /\ BegunIn(sessions[s].login, b) => BegunIn(sessions[s].login, b)'
  <2>1. Born(s)' /\ sessions'[s].login = sessions[s].login
    BY <1>3, SessionStep DEF Born
  <2>2. sessions[s].login \in Logins
    BY <1>3 DEF LoginsSound
  <2>. QED
    BY <2>1, <2>2, LoginStep DEF BegunIn
<1>4. ASSUME NEW s \in Sessions, s = jar[b].session
      PROVE  Born(s)' /\ BegunIn(sessions[s].login, b)'
  <2>1. s # None
    BY DEF Sessions, None
  <2>2. Born(s) /\ BegunIn(sessions[s].login, b)
    BY <1>4, <2>1 DEF JarsSound
  <2>. QED
    BY <1>3, <2>2 DEF BegunIn
<1>5. CASE jar'[b].login = jar[b].login /\ jar'[b].session = jar[b].session
  BY <1>1, <1>2, <1>4, <1>5 DEF BegunIn, Born
<1>6. CASE jar'[b].login = None /\ jar'[b].session = jar[b].session
  BY <1>1, <1>4, <1>6 DEF BegunIn, Born
<1>7. CASE jar'[b].login = jar[b].login /\ jar'[b].session = None
  BY <1>1, <1>2, <1>7 DEF BegunIn
<1>8. ASSUME Begin(b) PROVE jar'[b].session = jar[b].session /\ BegunIn(jar[b].login, b)'
  <2>1. PICK l \in Logins :
          /\ oauth' = [k \in Logins |->
               IF k = l THEN [oauth[l] EXCEPT !.row = "there", !.begunIn = b] ELSE Swept(oauth[k])]
          /\ jar' = [jar EXCEPT ![b].login = l]
    BY <1>8 DEF Begin
  <2>2. oauth'[l].row = "there" /\ oauth'[l].begunIn = b
    BY <2>1 DEF TypeOK, LoginRow
  <2>3. jar'[b].login = l /\ jar'[b].session = jar[b].session
    BY <1>1, <2>1 DEF Jar
  <2>. QED
    BY <2>2, <2>3 DEF BegunIn
<1>9. CASE Begin(b)
  BY <1>1, <1>4, <1>8, <1>9 DEF BegunIn, Born
<1>10. ASSUME NEW c \in Callbacks, Reply(c), callback[c].browser = b
       PROVE  /\ jar'[b].login = None
              /\ jar'[b].session \in Sessions
              /\ Born(jar[b].session)' /\ BegunIn(sessions[jar[b].session].login, b)'
  <2>. DEFINE s == callback[c].session
              kept == [jar[b] EXCEPT !.login = None, !.session = s]
  <2>1. /\ s \in Sessions /\ Born(s) /\ sessions[s].login = callback[c].login
        /\ callback[c].cookie = callback[c].login /\ callback[c].login \in Logins
        /\ callback[c].cookie # None => BegunIn(callback[c].cookie, b)
    BY <1>10 DEF Reply, CallbacksSound, CallbackSound
  <2>2. callback[c].login # None
    BY <2>1 DEF Logins, None
  <2>3. Born(s) /\ BegunIn(sessions[s].login, b)
    BY <2>1, <2>2
  <2>4. jar' = [jar EXCEPT ![b] = kept]
    BY <1>1, <1>10 DEF Reply, Jar
  <2>5. jar'[b] = kept /\ kept.login = None /\ kept.session = s
    BY <1>1, <2>4 DEF Jar
  <2>. HIDE DEF kept, s
  <2>6. jar'[b].login = None /\ jar'[b].session = s
    BY <2>5
  <2>. QED
    BY <1>3, <2>1, <2>3, <2>6 DEF BegunIn, Born
<1>11. CASE \E c \in Callbacks : Reply(c) /\ callback[c].browser = b
  BY <1>10, <1>11
<1>12. \/ Begin(b)
       \/ \E c \in Callbacks : Reply(c) /\ callback[c].browser = b
       \/ jar'[b].login = jar[b].login /\ jar'[b].session = jar[b].session
       \/ jar'[b].login = None /\ jar'[b].session = jar[b].session
       \/ jar'[b].login = jar[b].login /\ jar'[b].session = None
  <2>1. ASSUME NEW c \in Callbacks, Select(c) \/ Consume(c) \/ Exchange(c)
        PROVE  /\ jar'[b].login \in {jar[b].login, None}
               /\ jar'[b].session = jar[b].session
    <3>1. jar' = jar \/ jar' = [jar EXCEPT ![callback[c].browser].login = None]
      BY <2>1 DEF Select, Consume, Exchange, Proceed, Refuse
    <3>. QED
      BY <1>1, <3>1 DEF Jar
  <2>2. ASSUME NEW c \in Callbacks, Reply(c), callback[c].browser # b PROVE jar'[b] = jar[b]
    BY <1>1, <2>2 DEF Reply
  <2>3. ASSUME NEW d \in Browsers, Begin(d), d # b PROVE jar'[b] = jar[b]
    BY <1>1, <2>3 DEF Begin
  <2>4. ASSUME NEW d \in Browsers, Load(d)
        PROVE  jar'[b].login = jar[b].login /\ jar'[b].session = jar[b].session
    BY <1>1, <2>4 DEF Load, Jar
  <2>5. ASSUME NEW r \in Requests, LoggedOut(r)
        PROVE  jar'[b].login = jar[b].login /\ jar'[b].session \in {jar[b].session, None}
    BY <1>1, <2>5 DEF LoggedOut, Jar
  <2>6. \/ \E d \in Browsers : Begin(d) \/ Load(d)
        \/ \E c \in Callbacks : Select(c) \/ Consume(c) \/ Exchange(c) \/ Reply(c)
        \/ \E r \in Requests : LoggedOut(r)
        \/ jar' = jar
    BY DEF Next, vars, Arrive, Insert, Ask, Authenticate, Revoke, Find, Permit, Retry, Cancel,
       LoginIsLate, SessionIsLate, RightIsWithdrawn, DeleteExpired, Work
  <2>. QED
    BY <2>1, <2>2, <2>3, <2>4, <2>5, <2>6
<1>. QED
  BY <1>5, <1>6, <1>7, <1>9, <1>11, <1>12

LEMMA TakersStayAlone ==
    ASSUME LoginsInv, [Next]_vars
    PROVE  TakersAreAlone'
<1>. USE DEF LoginsInv
<1>. SUFFICES ASSUME NEW c \in Callbacks, Taking(c)'
              PROVE  /\ \A s \in Sessions : Born(s)' => sessions'[s].login # callback'[c].login
                     /\ \A d \in Callbacks : Taking(d)' /\ callback'[d].login = callback'[c].login
                                            => d = c
  BY DEF TakersAreAlone
<1>. DEFINE l == callback[c].login
<1>1. callback'[c].login = l /\ (Taking(c) \/ (Consume(c) /\ Unconsumed(l)))
  BY TakingStep DEF Kept
<1>2. l \in Logins
  BY <1>1 DEF CallbacksSound, CallbackSound, Taking, Consume
<1>3. \A s \in Sessions : Born(s) => sessions[s].login # l
  BY <1>1 DEF TakersAreAlone, LoginsSound, Unconsumed
<1>4. \A s \in Sessions : Born(s)' => sessions'[s].login # l
  <2>1. ASSUME NEW d \in Callbacks, Insert(d), callback[d].login = l PROVE FALSE
    <3>1. Taking(d) /\ oauth[l].consumed
      BY <2>1 DEF Insert, Taking, CallbacksSound, CallbackSound
    <3>2. Taking(c)
      BY <1>1, <3>1 DEF Unconsumed
    <3>3. d = c
      BY <2>1, <3>1, <3>2 DEF TakersAreAlone
    <3>. QED
      BY <2>1, <3>3, CallbackFields DEF Taking
  <2>. QED
    BY <1>3, <2>1, SessionStep DEF Born
<1>5. ASSUME NEW d \in Callbacks, Taking(d)', callback'[d].login = l, d # c PROVE FALSE
  <2>1. callback[d].login = l /\ (Taking(d) \/ (Consume(d) /\ Unconsumed(l)))
    BY <1>5, TakingStep DEF Kept
  <2>2. CASE Taking(c) /\ Taking(d)
    BY <1>5, <2>1, <2>2 DEF TakersAreAlone
  <2>3. CASE ~Taking(c) /\ Taking(d)
    BY <1>1, <2>1, <2>3 DEF CallbacksSound, CallbackSound, Unconsumed
  <2>4. CASE Taking(c) /\ ~Taking(d)
    BY <2>1, <2>4 DEF CallbacksSound, CallbackSound, Unconsumed
  <2>5. CASE ~Taking(c) /\ ~Taking(d)
    <3>1. Consume(c) /\ ~Taking(d) /\ Consume(d) /\ Unconsumed(l)
      BY <1>1, <2>1, <2>5
    <3>2. callback' = [callback EXCEPT ![c].at = "exchange"]
      BY <3>1 DEF Consume, Proceed
    <3>3. callback'[d] = callback[d]
      BY <1>5, <3>2 DEF TypeOK
    <3>. QED
      BY <1>5, <2>5, <3>3 DEF Taking
  <2>. QED
    BY <2>2, <2>3, <2>4, <2>5
<1>. QED
  BY <1>1, <1>4, <1>5

LEMMA CallbacksStaySound ==
    ASSUME LoginsInv, [Next]_vars
    PROVE  CallbacksSound'
<1>. USE DEF LoginsInv
<1>. SUFFICES ASSUME NEW c \in Callbacks PROVE CallbackSound(c)'
  BY DEF CallbacksSound
<1>. DEFINE b == callback[c].browser
            k == callback[c].cookie
            l == callback[c].login
            s == callback[c].session
<1>0. CallbackSound(c) /\ callback[c] \in CallbackState
  BY DEF CallbacksSound, TypeOK
<1>1. ASSUME callback[c].at # "idle"
      PROVE  /\ l \in Logins /\ (k # None => BegunIn(k, b))
             /\ k # None => /\ oauth'[k].row # "unborn" /\ oauth'[k].begunIn = b
  <2>1. k \in Logins \union {None}
    BY <1>0 DEF CallbackState
  <2>2. l \in Logins /\ (k # None => BegunIn(k, b))
    BY <1>0, <1>1 DEF CallbackSound
  <2>. QED
    BY <2>1, <2>2, LoginStep DEF BegunIn
<1>2. CASE callback'[c] = callback[c]
  <2>1. Taking(c) => oauth'[l].consumed
    BY <1>0, <1>1, LoginStep DEF CallbackSound, Taking
  <2>2. callback[c].at = "reply" =>
          s \in Sessions /\ sessions'[s].row # "unborn" /\ sessions'[s].login = l
    BY <1>0, SessionStep DEF CallbackSound, Born
  <2>. QED
    BY <1>0, <1>1, <1>2, <2>1, <2>2 DEF CallbackSound, BegunIn, Taking, Born
<1>3. ASSUME NEW d \in Browsers, NEW m \in Logins, NEW u \in Users, Arrive(c, d, m, u)
      PROVE  CallbackSound(c)'
  <2>1. /\ callback'[c].at = "select" /\ callback'[c].browser = d
        /\ callback'[c].cookie = jar[d].login /\ callback'[c].login = m
    BY <1>3, CallbackFields
  <2>2. jar[d].login # None => BegunIn(jar[d].login, d)
    BY DEF JarsSound
  <2>3. oauth' = oauth
    BY <1>3 DEF Arrive
  <2>. QED
    BY <2>1, <2>2, <2>3 DEF CallbackSound, BegunIn, Taking
<1>4. ASSUME callback[c].at # "idle", Kept(c), callback'[c].at \in {"refused", "done"}
      PROVE  CallbackSound(c)'
  BY <1>1, <1>4 DEF CallbackSound, BegunIn, Taking, Kept
<1>5. CASE Select(c)
  <2>1. CASE HasItsCookies(c) /\ callback' = [callback EXCEPT ![c].at = "consume"]
    <3>1. callback'[c].at = "consume" /\ Kept(c) /\ k = l /\ callback[c].at # "idle"
      BY <1>5, <2>1, CallbackFields DEF Select, HasItsCookies
    <3>. QED
      BY <1>1, <3>1 DEF CallbackSound, BegunIn, Taking, Kept
  <2>2. CASE callback' = [callback EXCEPT ![c].at = "refused"]
    BY <1>4, <1>5, <2>2, CallbackFields DEF Select
  <2>. QED
    BY <1>5, <2>1, <2>2 DEF Select, Proceed, Refuse
<1>6. ASSUME callback[c].at \in {"consume", "exchange"}, Kept(c),
             callback'[c].at \in {"exchange", "insert"}, oauth'[l].consumed
      PROVE  CallbackSound(c)'
  <2>1. k = l
    BY <1>0, <1>6 DEF CallbackSound
  <2>. QED
    BY <1>1, <1>6, <2>1 DEF CallbackSound, BegunIn, Taking, Kept
<1>7. CASE Consume(c)
  <2>1. CASE Unconsumed(l)
    <3>1. /\ oauth' = [oauth EXCEPT ![l].consumed = TRUE]
          /\ callback' = [callback EXCEPT ![c].at = "exchange"]
          /\ callback[c].at = "consume"
      BY <1>7, <2>1 DEF Consume, Proceed
    <3>2. oauth'[l].consumed
      BY <1>1, <3>1 DEF TypeOK, LoginRow
    <3>. QED
      BY <1>6, <3>1, <3>2, CallbackFields
  <2>2. CASE ~Unconsumed(l)
    BY <1>4, <1>7, <2>2, CallbackFields DEF Consume, Refuse
  <2>. QED
    BY <2>1, <2>2
<1>8. CASE Exchange(c)
  <2>1. oauth'[l].consumed /\ callback[c].at = "exchange"
    BY <1>0, <1>8 DEF Exchange, CallbackSound, Taking
  <2>2. \/ callback' = [callback EXCEPT ![c].at = "insert"]
        \/ callback' = [callback EXCEPT ![c].at = "refused"]
    BY <1>8 DEF Exchange, Proceed, Refuse
  <2>. QED
    BY <1>4, <1>6, <2>1, <2>2, CallbackFields
<1>9. CASE Insert(c)
  <2>1. /\ callback[c].at = "insert" /\ k = l /\ Kept(c) /\ callback'[c].at = "reply"
    BY <1>0, <1>9, CallbackFields DEF Insert, CallbackSound
  <2>2. /\ callback'[c].session \in Sessions
        /\ sessions'[callback'[c].session].row # "unborn"
        /\ sessions'[callback'[c].session].login = l
    BY <1>9, InsertMakes DEF Born
  <2>. QED
    BY <1>1, <2>1, <2>2 DEF CallbackSound, BegunIn, Taking, Kept, Born
<1>10. CASE Reply(c)
  BY <1>4, <1>10, CallbackFields DEF Reply
<1>. QED
  BY <1>2, <1>3, <1>5, <1>7, <1>8, <1>9, <1>10, CallbackStep

LEMMA LoginsKeepOneSession ==
    ASSUME LoginsInv, [Next]_vars, JarsSound'
    PROVE  LoginsMakeOneSession'
<1>. USE DEF LoginsInv
<1>1. ASSUME NEW s \in Sessions, NEW t \in Sessions, Born(s)', Born(t)',
             sessions'[s].login = sessions'[t].login
      PROVE  s = t
  <2>1. CASE \A x \in Sessions : Born(x)' = Born(x) /\ sessions'[x].login = sessions[x].login
    BY <1>1, <2>1 DEF LoginsMakeOneSession
  <2>2. ASSUME NEW c \in Callbacks, NEW x \in Sessions,
               Insert(c), sessions'[x].login = callback[c].login,
               \A y \in Sessions \ {x} : sessions'[y] = sessions[y]
        PROVE  s = t
    <3>1. \A y \in Sessions : Born(y) => sessions[y].login # callback[c].login
      BY <2>2 DEF Insert, Taking, TakersAreAlone
    <3>2. \A y \in Sessions \ {x} : Born(y)' => Born(y) /\ sessions'[y].login # callback[c].login
      BY <2>2, <3>1 DEF Born
    <3>3. CASE s = x \/ t = x
      BY <1>1, <2>2, <3>2, <3>3
    <3>4. CASE s # x /\ t # x
      BY <1>1, <2>2, <3>2, <3>4 DEF LoginsMakeOneSession
    <3>. QED
      BY <3>3, <3>4
  <2>. QED
    BY <2>1, <2>2, SessionStep
<1>. QED
  BY <1>1 DEF LoginsMakeOneSession, JarsSound, BegunIn

LEMMA LoginsInvariant == Spec => []LoginsInv
<1>1. Init => LoginsInv
  <2>. SUFFICES ASSUME Init PROVE LoginsInv
    OBVIOUS
  <2>1. /\ \A l \in Logins : ~oauth[l].consumed
        /\ \A s \in Sessions : ~Born(s)
        /\ \A b \in Browsers : jar[b].login = None /\ jar[b].session = None
        /\ \A c \in Callbacks : callback[c].at = "idle"
    BY DEF Init, Born
  <2>. QED
    BY TypeInit, <2>1
       DEF LoginsInv, LoginsSound, JarsSound, CallbacksSound, CallbackSound, Taking, TakersAreAlone,
           LoginsMakeOneSession
<1>2. LoginsInv /\ [Next]_vars => LoginsInv'
  BY TypeNext, LoginsStaySound, JarsStaySound, CallbacksStaySound, TakersStayAlone,
     LoginsKeepOneSession DEF LoginsInv
<1>. QED
  BY <1>1, <1>2, PTL DEF Spec

\* A login makes one session, however many callbacks come for it at once, and the
\* session stays in the browser that the login was begun in.
THEOREM OneSessionPerLogin == Spec => []LoginsMakeOneSession
<1>1. LoginsInv => LoginsMakeOneSession
  BY DEF LoginsInv
<1>. QED
  BY <1>1, LoginsInvariant, PTL

-----------------------------------------------------------------------------
\* Why a callback that was left alone has the cookies of its login: they are put into the
\* browser when the login is begun, and only another login or another callback takes them
\* away. And the session a request was sent with had been made.
AloneIn(l, b) == BegunIn(l, b) /\ \A k \in Logins \ {l} : ~BegunIn(k, b)

NoCallbackIn(b) == \A c \in Callbacks : callback[c].at # "idle" => callback[c].browser # b

JarsFresh ==
    \A b \in Browsers, l \in Logins : AloneIn(l, b) /\ NoCallbackIn(b) => jar[b].login = l

CookiesFresh ==
    \A c \in Callbacks : callback[c].at # "idle" =>
        /\ oauth[callback[c].login].row # "unborn"
        /\ callback[c].at = "select" /\ LeftAlone(c) => callback[c].cookie = callback[c].login

SessionsKnown ==
    \A r \in Requests :
        request[r].at # "idle" /\ request[r].session # None => Born(request[r].session)

RefusalsInv == LoginsInv /\ JarsFresh /\ CookiesFresh /\ SessionsKnown /\ RefusalsHaveACause

\* What came earlier stays: a login's lateness, whose session it is, who lost his right.
LEMMA LatenessStays ==
    ASSUME TypeOK, [Next]_vars, NEW l \in Logins, oauth[l].late
    PROVE  oauth'[l].late
<1>1. oauth \in [Logins -> LoginRow] /\ oauth[l] \in LoginRow
  BY DEF TypeOK
<1>2. ASSUME NEW b \in Browsers, Begin(b) PROVE oauth'[l].late
  <2>1. PICK k \in Logins : oauth' = [m \in Logins |->
             IF m = k THEN [oauth[k] EXCEPT !.row = "there", !.begunIn = b] ELSE Swept(oauth[m])]
    BY <1>2 DEF Begin
  <2>2. \/ oauth'[l] = [oauth[l] EXCEPT !.row = "there", !.begunIn = b]
        \/ oauth'[l] = Swept(oauth[l])
    BY <2>1
  <2>. QED
    BY <1>1, <2>2 DEF Swept, LoginRow
<1>3. ASSUME NEW c \in Callbacks, Consume(c) PROVE oauth'[l].late
  <2>1. oauth' = oauth \/ oauth' = [oauth EXCEPT ![callback[c].login].consumed = TRUE]
    BY <1>3 DEF Consume
  <2>. QED
    BY <1>1, <2>1 DEF LoginRow
<1>4. ASSUME NEW k \in Logins, LoginIsLate(k) PROVE oauth'[l].late
  BY <1>1, <1>4 DEF LoginIsLate, LoginRow
<1>5. \/ \E b \in Browsers : Begin(b)
      \/ \E c \in Callbacks : Consume(c)
      \/ \E k \in Logins : LoginIsLate(k)
      \/ oauth' = oauth
  BY DEF Next, vars, Load, Arrive, Select, Exchange, Insert, Reply, Ask, Authenticate, Revoke,
     LoggedOut, Find, Permit, Retry, Cancel, SessionIsLate, RightIsWithdrawn, DeleteExpired, Work
<1>. QED
  BY <1>2, <1>3, <1>4, <1>5

LEMMA UserStays ==
    ASSUME TypeOK, [Next]_vars, NEW s \in Sessions, Born(s)
    PROVE  sessions'[s].user = sessions[s].user
<1>1. sessions \in [Sessions -> SessionRow] /\ sessions[s] \in SessionRow
  BY DEF TypeOK
<1>2. ASSUME NEW c \in Callbacks, Insert(c) PROVE sessions'[s].user = sessions[s].user
  BY <1>2, InsertMakes
<1>3. CASE DeleteExpired
  BY <1>1, <1>3 DEF DeleteExpired, SessionRow
<1>4. ASSUME NEW t, sessions' = [sessions EXCEPT ![t].revoked = TRUE]
                    \/ sessions' = [sessions EXCEPT ![t].late = TRUE]
      PROVE  sessions'[s].user = sessions[s].user
  BY <1>1, <1>4 DEF SessionRow
<1>5. \/ \E c \in Callbacks : Insert(c)
      \/ \E t : \/ sessions' = [sessions EXCEPT ![t].revoked = TRUE]
              \/ sessions' = [sessions EXCEPT ![t].late = TRUE]
      \/ DeleteExpired
      \/ sessions' = sessions
  BY DEF Next, vars, Begin, Load, Arrive, Select, Consume, Exchange, Reply, Ask, Authenticate,
     Revoke, LoggedOut, Find, Permit, Retry, Cancel, LoginIsLate, SessionIsLate,
     RightIsWithdrawn, Work
<1>. QED
  BY <1>2, <1>3, <1>4, <1>5

LEMMA RightsAreOnlyWithdrawn ==
    ASSUME [Next]_vars
    PROVE  maintainers' \subseteq maintainers
  BY DEF Next, vars, Begin, Load, Arrive, Select, Consume, Exchange, Insert, Reply, Ask,
     Authenticate, Revoke, LoggedOut, Find, Permit, Retry, Cancel, LoginIsLate, SessionIsLate,
     RightIsWithdrawn, DeleteExpired, Work

\* A login is begun in a browser only with its cookies put there.
LEMMA BeginPutsCookies ==
    ASSUME TypeOK, NEW b \in Browsers, Begin(b)
    PROVE  \E l \in Logins :
              /\ oauth[l].row = "unborn" /\ BegunIn(l, b)' /\ jar'[b].login = l
              /\ \A k \in Logins \ {l} : \A d : BegunIn(k, d)' => BegunIn(k, d)
<1>1. oauth \in [Logins -> LoginRow] /\ jar \in [Browsers -> Jar]
  BY DEF TypeOK
<1>2. PICK l \in Logins :
        /\ oauth[l].row = "unborn"
        /\ oauth' = [k \in Logins |->
             IF k = l THEN [oauth[l] EXCEPT !.row = "there", !.begunIn = b] ELSE Swept(oauth[k])]
        /\ jar' = [jar EXCEPT ![b].login = l]
  BY DEF Begin
<1>3. oauth'[l].row = "there" /\ oauth'[l].begunIn = b
  BY <1>1, <1>2 DEF LoginRow
<1>4. jar'[b].login = l
  BY <1>1, <1>2 DEF Jar
<1>5. ASSUME NEW k \in Logins \ {l}, NEW d, BegunIn(k, d)' PROVE BegunIn(k, d)
  <2>1. oauth'[k] = Swept(oauth[k]) /\ oauth[k] \in LoginRow
    BY <1>1, <1>2
  <2>2. Swept(oauth[k]).begunIn = oauth[k].begunIn
        /\ (oauth[k].row = "unborn" => Swept(oauth[k]).row = "unborn")
    BY <2>1 DEF Swept, LoginRow
  <2>. QED
    BY <1>5, <2>1, <2>2 DEF BegunIn
<1>. QED
  BY <1>2, <1>3, <1>4, <1>5 DEF BegunIn

LEMMA BegunStep ==
    ASSUME TypeOK, [Next]_vars, NEW l \in Logins, NEW b, BegunIn(l, b)', ~BegunIn(l, b)
    PROVE  b \in Browsers /\ Begin(b) /\ jar'[b].login = l
<1>1. oauth \in [Logins -> LoginRow] /\ oauth[l] \in LoginRow
  BY DEF TypeOK
<1>2. ASSUME NEW d \in Browsers, Begin(d) PROVE d = b /\ jar'[b].login = l
  <2>1. PICK k \in Logins : /\ BegunIn(k, d)' /\ jar'[d].login = k
                            /\ \A m \in Logins \ {k} : \A e : BegunIn(m, e)' => BegunIn(m, e)
    BY <1>2, BeginPutsCookies
  <2>2. k = l
    BY <2>1
  <2>. QED
    BY <2>1, <2>2 DEF BegunIn
<1>3. ASSUME NEW c \in Callbacks, Consume(c) PROVE FALSE
  <2>1. oauth' = oauth \/ oauth' = [oauth EXCEPT ![callback[c].login].consumed = TRUE]
    BY <1>3 DEF Consume
  <2>2. oauth'[l].row = oauth[l].row /\ oauth'[l].begunIn = oauth[l].begunIn
    BY <1>1, <2>1 DEF LoginRow
  <2>. QED
    BY <2>2 DEF BegunIn
<1>4. ASSUME NEW k \in Logins, LoginIsLate(k) PROVE FALSE
  <2>1. oauth'[l].row = oauth[l].row /\ oauth'[l].begunIn = oauth[l].begunIn
    BY <1>1, <1>4 DEF LoginIsLate, LoginRow
  <2>. QED
    BY <2>1 DEF BegunIn
<1>5. oauth' # oauth
  BY DEF BegunIn
<1>6. \/ \E d \in Browsers : Begin(d)
      \/ \E c \in Callbacks : Consume(c)
      \/ \E k \in Logins : LoginIsLate(k)
      \/ oauth' = oauth
  BY DEF Next, vars, Load, Arrive, Select, Exchange, Insert, Reply, Ask, Authenticate, Revoke,
     LoggedOut, Find, Permit, Retry, Cancel, SessionIsLate, RightIsWithdrawn, DeleteExpired, Work
<1>. QED
  BY <1>2, <1>3, <1>4, <1>5, <1>6

\* A browser's login cookies change with a login begun in it or a callback that came from it.
LEMMA CookieStep ==
    ASSUME TypeOK, [Next]_vars, NEW b \in Browsers
    PROVE  \/ jar'[b].login = jar[b].login
           \/ Begin(b)
           \/ ~NoCallbackIn(b)
<1>1. jar \in [Browsers -> Jar] /\ jar[b] \in Jar
  BY DEF TypeOK
<1>2. ASSUME NEW c \in Callbacks, Select(c) \/ Consume(c) \/ Exchange(c) \/ Reply(c),
             callback[c].browser # b
      PROVE  jar'[b] = jar[b]
  BY <1>1, <1>2 DEF Select, Consume, Exchange, Reply, Proceed, Refuse
<1>3. ASSUME NEW c \in Callbacks, Select(c) \/ Consume(c) \/ Exchange(c) \/ Reply(c),
             callback[c].browser = b
      PROVE  ~NoCallbackIn(b)
  BY <1>3 DEF Select, Consume, Exchange, Reply, NoCallbackIn
<1>4. ASSUME NEW d \in Browsers, Begin(d), d # b PROVE jar'[b] = jar[b]
  BY <1>1, <1>4 DEF Begin
<1>5. ASSUME NEW d \in Browsers, Load(d) PROVE jar'[b].login = jar[b].login
  BY <1>1, <1>5 DEF Load, Jar
<1>6. ASSUME NEW r \in Requests, LoggedOut(r) PROVE jar'[b].login = jar[b].login
  BY <1>1, <1>6 DEF LoggedOut, Jar
<1>7. \/ \E d \in Browsers : Begin(d) \/ Load(d)
      \/ \E c \in Callbacks : Select(c) \/ Consume(c) \/ Exchange(c) \/ Reply(c)
      \/ \E r \in Requests : LoggedOut(r)
      \/ jar' = jar
  BY DEF Next, vars, Arrive, Insert, Ask, Authenticate, Revoke, Find, Permit, Retry, Cancel,
     LoginIsLate, SessionIsLate, RightIsWithdrawn, DeleteExpired, Work
<1>. QED
  BY <1>2, <1>3, <1>4, <1>5, <1>6, <1>7

\* A callback that has come stays where it came from.
LEMMA CallbacksAreKept ==
    ASSUME TypeOK, [Next]_vars, NEW c \in Callbacks, callback[c].at # "idle"
    PROVE  callback'[c].at # "idle" /\ Kept(c)
<1>1. CASE callback'[c] = callback[c]
  BY <1>1 DEF Kept
<1>2. CASE Insert(c)
  BY <1>2, CallbackFields
<1>3. CASE Select(c) \/ Consume(c) \/ Exchange(c) \/ Reply(c)
  <2>1. \E place \in {"consume", "exchange", "insert", "refused", "done"} :
           callback' = [callback EXCEPT ![c].at = place]
    BY <1>3 DEF Select, Consume, Exchange, Reply, Proceed, Refuse
  <2>. QED
    BY <2>1, CallbackFields
<1>. QED
  BY <1>1, <1>2, <1>3, CallbackStep DEF Arrive

LEMMA JarsStayFresh ==
    ASSUME RefusalsInv, [Next]_vars
    PROVE  JarsFresh'
<1>. TypeOK /\ JarsFresh
  BY DEF RefusalsInv, LoginsInv
<1>. SUFFICES ASSUME NEW b \in Browsers, NEW l \in Logins,
                     BegunIn(l, b)', \A k \in Logins \ {l} : ~BegunIn(k, b)', NoCallbackIn(b)'
              PROVE  jar'[b].login = l
  BY DEF JarsFresh, AloneIn
<1>1. NoCallbackIn(b)
  BY CallbacksAreKept DEF NoCallbackIn, Kept
<1>2. \A k \in Logins \ {l} : ~BegunIn(k, b)
  BY LoginStep
<1>3. CASE ~BegunIn(l, b)
  BY <1>3, BegunStep
<1>4. CASE BegunIn(l, b)
  <2>1. jar[b].login = l
    BY <1>1, <1>2, <1>4 DEF JarsFresh, AloneIn
  <2>2. ~Begin(b)
    <3>1. ASSUME NEW k \in Logins, oauth[k].row = "unborn", BegunIn(k, b)' PROVE FALSE
      <4>1. k = l
        BY <3>1
      <4>. QED
        BY <1>4, <3>1, <4>1 DEF BegunIn
    <3>. QED
      BY <3>1, BeginPutsCookies
  <2>. QED
    BY <1>1, <2>1, <2>2, CookieStep
<1>. QED
  BY <1>3, <1>4

\* Who has been left alone until now was left alone before.
LEMMA LeftAloneBefore ==
    ASSUME TypeOK, CookiesFresh, [Next]_vars,
           NEW c \in Callbacks, callback[c].at # "idle", callback[c].login \in Logins, LeftAlone(c)'
    PROVE  LeftAlone(c)
<1>. DEFINE b == callback[c].browser
            l == callback[c].login
<1>1. callback'[c].browser = b /\ callback'[c].login = l
  BY CallbacksAreKept DEF Kept
<1>2. /\ oauth'[l].begunIn = b
      /\ \A k \in Logins \ {l} : oauth'[k].row # "unborn" => oauth'[k].begunIn # b
      /\ \A d \in Callbacks \ {c} : callback'[d].at # "idle" => callback'[d].browser # b
  BY <1>1 DEF LeftAlone
<1>3. oauth[l].row # "unborn"
  BY DEF CookiesFresh
<1>4. \A k \in Logins : oauth[k].row # "unborn" =>
         oauth'[k].row # "unborn" /\ oauth'[k].begunIn = oauth[k].begunIn
  BY LoginStep DEF BegunIn
<1>5. \A d \in Callbacks : callback[d].at # "idle" =>
         callback'[d].at # "idle" /\ callback'[d].browser = callback[d].browser
  BY CallbacksAreKept DEF Kept
<1>. QED
  BY <1>2, <1>3, <1>4, <1>5 DEF LeftAlone

LEMMA CookiesStayFresh ==
    ASSUME RefusalsInv, [Next]_vars
    PROVE  CookiesFresh'
<1>. TypeOK /\ CookiesFresh /\ JarsFresh /\ CallbacksSound
  BY DEF RefusalsInv, LoginsInv
<1>. SUFFICES ASSUME NEW c \in Callbacks, callback'[c].at # "idle"
              PROVE  /\ oauth'[callback'[c].login].row # "unborn"
                     /\ callback'[c].at = "select" /\ LeftAlone(c)' =>
                          callback'[c].cookie = callback'[c].login
  BY DEF CookiesFresh
<1>1. CASE callback[c].at # "idle"
  <2>1. Kept(c) /\ callback[c].login \in Logins /\ oauth[callback[c].login].row # "unborn"
    BY <1>1, CallbacksAreKept DEF CookiesFresh, CallbacksSound, CallbackSound
  <2>2. oauth'[callback'[c].login].row # "unborn"
    BY <2>1, LoginStep DEF Kept
  <2>3. ASSUME callback'[c].at = "select", LeftAlone(c)'
        PROVE  callback'[c].cookie = callback'[c].login
    <3>1. LeftAlone(c)
      BY <1>1, <2>1, <2>3, LeftAloneBefore
    <3>2. CASE callback'[c] = callback[c]
      BY <1>1, <2>3, <3>1, <3>2 DEF CookiesFresh
    <3>3. CASE Select(c) \/ Consume(c) \/ Exchange(c) \/ Reply(c)
      <4>1. \E place \in {"consume", "exchange", "insert", "refused", "done"} :
               callback' = [callback EXCEPT ![c].at = place]
        BY <3>3 DEF Select, Consume, Exchange, Reply, Proceed, Refuse
      <4>. QED
        BY <2>3, <4>1, CallbackFields
    <3>4. CASE Insert(c)
      BY <2>3, <3>4, CallbackFields
    <3>. QED
      BY <1>1, <3>2, <3>3, <3>4, CallbackStep DEF Arrive
  <2>. QED
    BY <2>2, <2>3
<1>2. CASE callback[c].at = "idle"
  <2>1. PICK b \in Browsers, l \in Logins, u \in Users : Arrive(c, b, l, u)
    BY <1>2, CallbackStep DEF Select, Consume, Exchange, Insert, Reply
  <2>2. /\ callback'[c].browser = b /\ callback'[c].cookie = jar[b].login /\ callback'[c].login = l
        /\ oauth' = oauth /\ oauth[l].row # "unborn"
    <3>1. oauth' = oauth /\ oauth[l].row # "unborn"
      BY <2>1 DEF Arrive
    <3>. QED
      BY <2>1, <3>1, CallbackFields
  <2>3. ASSUME LeftAlone(c)' PROVE jar[b].login = l
    <3>1. AloneIn(l, b)
      BY <2>2, <2>3 DEF LeftAlone, AloneIn, BegunIn
    <3>2. NoCallbackIn(b)
      BY <1>2, <2>2, <2>3, CallbacksAreKept DEF LeftAlone, NoCallbackIn, Kept
    <3>. QED
      BY <3>1, <3>2 DEF JarsFresh
  <2>. QED
    BY <2>2, <2>3
<1>. QED
  BY <1>1, <1>2

LEMMA RefusedForACause ==
    ASSUME RefusalsInv, [Next]_vars, NEW c \in Callbacks,
           callback'[c].at = "refused", LeftAlone(c)'
    PROVE  oauth'[callback'[c].login].late \/ oauth'[callback'[c].login].consumed
<1>. DEFINE l == callback[c].login
<1>. TypeOK /\ CookiesFresh /\ CallbackSound(c)
  BY DEF RefusalsInv, LoginsInv, CallbacksSound
<1>1. callback[c].at # "idle"
  BY CallbackStep, CallbackFields DEF Select, Consume, Exchange, Insert, Reply
<1>2. Kept(c) /\ l \in Logins /\ oauth[l].row # "unborn" /\ oauth[l].row \in Row
  BY <1>1, CallbacksAreKept DEF CookiesFresh, CallbackSound, TypeOK, LoginRow
<1>3. LeftAlone(c)
  BY <1>1, <1>2, LeftAloneBefore
<1>4. oauth[l].row = "there" \/ oauth[l].late
  BY <1>2 DEF TypeOK, Row
<1>5. oauth[l].late \/ oauth[l].consumed
  <2>1. CASE callback'[c] = callback[c]
    BY <1>3, <2>1 DEF RefusalsInv, RefusalsHaveACause
  <2>2. CASE Select(c)
    <3>1. HasItsCookies(c)
      BY <1>3, <1>1, <2>2 DEF Select, CookiesFresh, HasItsCookies
    <3>2. ~(HasItsCookies(c) /\ oauth[l].row = "there" /\ ~oauth[l].consumed /\ ~oauth[l].late)
      BY <2>2, CallbackFields DEF Select, Proceed
    <3>. QED
      BY <1>4, <3>1, <3>2
  <2>3. CASE Consume(c)
    <3>1. ~Unconsumed(l)
      BY <2>3, CallbackFields DEF Consume, Proceed
    <3>. QED
      BY <1>4, <3>1 DEF Unconsumed
  <2>4. CASE Exchange(c)
    BY <2>4 DEF Exchange, CallbackSound, Taking
  <2>5. CASE Insert(c) \/ Reply(c)
    BY <2>5, CallbackFields DEF Reply
  <2>. QED
    BY <1>1, <2>1, <2>2, <2>3, <2>4, <2>5, CallbackStep DEF Arrive
<1>6. callback'[c].login = l
  BY <1>2 DEF Kept
<1>. HIDE DEF l
<1>. QED
  BY <1>2, <1>5, <1>6, LatenessStays, LoginStep

\* A request keeps what it came with.
LEMMA RequestIsKept ==
    ASSUME TypeOK, [Next]_vars, NEW q \in Requests, request[q].at # "idle"
    PROVE  /\ request'[q].at # "idle" /\ request'[q].session = request[q].session
           /\ request'[q].kind = request[q].kind /\ request'[q].page = request[q].page
<1>. USE DEF RequestState
<1>1. request \in [Requests -> RequestState] /\ request[q] \in RequestState
  BY DEF TypeOK
<1>2. ASSUME NEW place \in {"find", "permit", "commit", "revoke", "reply", "done", "denied"},
             Goto(q, place) \/ Find(q) \/ \E did : Ends(q, did)
      PROVE  /\ request'[q].at # "idle" /\ request'[q].session = request[q].session
             /\ request'[q].kind = request[q].kind /\ request'[q].page = request[q].page
  <2>1. CASE Goto(q, place)
    BY <1>1, <2>1 DEF Goto
  <2>2. CASE Find(q)
    BY <1>1, <2>2 DEF Find
  <2>3. CASE \E did : Ends(q, did)
    BY <1>1, <2>3 DEF Ends
  <2>. QED
    BY <1>2, <2>1, <2>2, <2>3
<1>3. \/ request'[q] = request[q]
      \/ \E place \in {"find", "permit", "commit", "revoke", "reply", "done", "denied"} : Goto(q, place)
      \/ Find(q)
      \/ \E did : Ends(q, did)
  BY RequestStep DEF Ask, Authenticate, Revoke, LoggedOut, Permit, Retry, Cancel
<1>. QED
  BY <1>2, <1>3

LEMMA SessionsStayKnown ==
    ASSUME RefusalsInv, [Next]_vars
    PROVE  SessionsKnown'
<1>. TypeOK /\ JarsSound /\ SessionsKnown
  BY DEF RefusalsInv, LoginsInv
<1>. SUFFICES ASSUME NEW q \in Requests, request'[q].at # "idle", request'[q].session # None
              PROVE  sessions'[request'[q].session].row # "unborn"
  BY DEF SessionsKnown, Born
<1>1. ASSUME NEW s \in Sessions \union {None}, s # None, Born(s)
      PROVE  sessions'[s].row # "unborn"
  BY <1>1, SessionStep DEF Born
<1>2. CASE request[q].at # "idle"
  <2>1. request'[q].session = request[q].session /\ request[q].session \in Sessions \union {None}
    BY <1>2, RequestIsKept DEF TypeOK, RequestState
  <2>. QED
    BY <1>1, <1>2, <2>1 DEF SessionsKnown
<1>3. CASE request[q].at = "idle"
  <2>1. PICK b \in Browsers, kind \in {"retry", "cancel", "logout"} : Ask(q, b, kind)
    BY <1>3, RequestStep DEF Authenticate, Revoke, LoggedOut, Find, Permit, Retry, Cancel
  <2>2. request'[q].session = jar[b].session /\ jar[b].session \in Sessions \union {None}
    BY <2>1, RequestFields DEF TypeOK, Jar
  <2>. QED
    BY <1>1, <2>2 DEF JarsSound
<1>. QED
  BY <1>2, <1>3

LEMMA DeniedForACause ==
    ASSUME RefusalsInv, [Next]_vars, NEW q \in Requests,
           request'[q].at = "denied", request'[q].session # None,
           request'[q].page = request'[q].session
    PROVE  \/ Over(request[q].session)'
           \/ sessions'[request'[q].session].user \notin maintainers'
           \/ request'[q].kind = "retry" /\ ~Eligible(request'[q].seen)
<1>. TypeOK /\ SessionsKnown
  BY DEF RefusalsInv, LoginsInv
<1>. DEFINE s == request[q].session
<1>1. request[q].at # "idle"
  BY RequestStep, RequestFields DEF Authenticate, Revoke, LoggedOut, Find, Permit, Retry, Cancel
<1>2. /\ request'[q].session = s /\ request'[q].kind = request[q].kind
      /\ request'[q].page = request[q].page
  BY <1>1, RequestIsKept
<1>3. s \in Sessions /\ Born(s)
  BY <1>1, <1>2 DEF SessionsKnown, TypeOK, RequestState
<1>4. CASE Over(s)
  BY <1>2, <1>4, OverStays DEF Over
<1>5. CASE sessions[s].user \notin maintainers
  BY <1>2, <1>3, <1>5, UserStays, RightsAreOnlyWithdrawn
<1>6. CASE request'[q].kind = "retry" /\ ~Eligible(request'[q].seen)
  BY <1>6
<1>7. \/ Over(s) \/ sessions[s].user \notin maintainers
      \/ request'[q].kind = "retry" /\ ~Eligible(request'[q].seen)
  <2>1. CASE request'[q] = request[q]
    BY <1>2, <1>3, <2>1 DEF RefusalsInv, RefusalsHaveACause, Over
  <2>2. CASE Authenticate(q)
    <3>1. ~Live(s)
      <4>1. ~Goto(q, "find") /\ ~Goto(q, "revoke") /\ ~Goto(q, "reply")
        BY RequestFields
      <4>. QED
        BY <1>2, <2>2, <4>1 DEF Authenticate
    <3>2. s # None /\ sessions[s].row \in Row
      BY <1>2, <1>3 DEF TypeOK, SessionRow
    <3>. QED
      BY <1>3, <3>1, <3>2 DEF Live, Over, Born, TypeOK, Row
  <2>3. CASE Permit(q)
    <3>1. Goto(q, "denied")
      <4>1. ~Goto(q, "commit") /\ ~Ends(q, "nothing")
        BY RequestFields
      <4>. QED
        BY <2>3, <4>1 DEF Permit
    <3>2. \/ ~IsRepositoryMaintainer(sessions[s].user)
          \/ request[q].kind = "retry" /\ ~Eligible(request[q].seen)
      <4>1. ~Goto(q, "commit") /\ ~Ends(q, "nothing")
        BY RequestFields
      <4>. QED
        BY <2>3, <4>1 DEF Permit
    <3>3. request'[q].seen = request[q].seen
      BY <3>1, RequestFields
    <3>. QED
      BY <1>2, <3>2, <3>3 DEF IsRepositoryMaintainer
  <2>4. CASE Revoke(q) \/ LoggedOut(q) \/ Find(q) \/ Retry(q) \/ Cancel(q)
    <3>1. Cancel(q) => Ends(q, "cancelled") \/ Ends(q, "nothing")
      BY DEF Cancel
    <3>2. Retry(q) => Ends(q, "retried") \/ Ends(q, "nothing")
      BY DEF Retry
    <3>3. CASE Revoke(q) \/ LoggedOut(q) \/ Find(q)
      BY <3>3, RequestFields DEF Revoke, LoggedOut
    <3>. QED
      BY <2>4, <3>1, <3>2, <3>3, RequestFields
  <2>. QED
    BY <1>1, <2>1, <2>2, <2>3, <2>4, RequestStep DEF Ask
<1>. QED
  BY <1>4, <1>5, <1>6, <1>7

\* Nobody is turned away for what others do: a callback is refused because its time is
\* over, its login was used, or its browser was not left to that one login; a request is
\* denied for its session's end, a page of another session, a missing right, or a Run that
\* cannot be retried.
THEOREM RefusalsCaused == Spec => []RefusalsHaveACause
<1>1. Init => JarsFresh /\ CookiesFresh /\ SessionsKnown /\ RefusalsHaveACause
  <2>. SUFFICES ASSUME Init PROVE JarsFresh /\ CookiesFresh /\ SessionsKnown /\ RefusalsHaveACause
    OBVIOUS
  <2>1. /\ \A l \in Logins : oauth[l].row = "unborn"
        /\ \A c \in Callbacks : callback[c].at = "idle"
        /\ \A r \in Requests : request[r].at = "idle"
    BY DEF Init
  <2>. QED
    BY <2>1 DEF JarsFresh, AloneIn, BegunIn, CookiesFresh, SessionsKnown, RefusalsHaveACause
<1>2. RefusalsInv /\ [Next]_vars => JarsFresh' /\ CookiesFresh' /\ SessionsKnown'
  BY JarsStayFresh, CookiesStayFresh, SessionsStayKnown
<1>3. RefusalsInv /\ [Next]_vars => RefusalsHaveACause'
  BY RefusedForACause, DeniedForACause DEF RefusalsHaveACause, Over
<1>. QED
  BY <1>1, <1>2, <1>3, LoginsInvariant, PTL DEF Spec, RefusalsInv
=============================================================================
