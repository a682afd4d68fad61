------------------------------- MODULE Access -------------------------------
(***************************************************************************)
(* Who may act on a Run: the login through Gitea (AuthService), sessions   *)
(* and their end, and the two requests that change a Run (RunController).  *)
(*                                                                         *)
(* Each call of the database or of Gitea is an action of its own, so that  *)
(* sessions, permissions and the Run may change between a check and its    *)
(* use. A browser keeps one set of login cookies and one session cookie;   *)
(* a login's state, nonce and binding are set and sent together, and one   *)
(* number stands for the three. Every answer to a callback clears them,    *)
(* whichever login they are of by then.                                    *)
(*                                                                         *)
(* What the Worker does to the Run is in Workflow.tla; here it ends it.    *)
(* EXECUTING stands for all statuses of a Run at work.                     *)
(***************************************************************************)
EXTENDS Naturals, FiniteSets, RunStatus

CONSTANTS
    Browsers, Users,
    NoUser,          \* not a user
    MaxLogins,       \* how often /auth/login is opened
    MaxSessions,     \* how many sessions there may be
    MaxAttempts,     \* attempts of the Run: bounds the retries
    Callbacks,       \* requests to /auth/callback
    Requests,        \* requests to retry or cancel the Run, or to log out
    MaxHandled,      \* how many callbacks and requests come in all
    MaxEvents        \* how often time runs out for a login or a session, a right is
                     \* withdrawn, or Gitea fails

ASSUME AccessAssumption ==
    /\ NoUser \notin Users /\ Browsers # {}
    /\ MaxLogins \in Nat /\ MaxSessions \in Nat /\ MaxAttempts \in Nat \ {0}
    /\ MaxHandled \in Nat /\ MaxEvents \in Nat

Logins == 1..MaxLogins
Sessions == 1..MaxSessions
None == 0

VARIABLES
    oauth,       \* oauth_states, by login
    sessions,    \* sessions, by id
    jar,         \* each browser's cookies, and the session its page was loaded for
    codes,       \* Gitea: the users whose code for a login is not redeemed yet
    maintainers, \* Gitea: the users who may push
    run,         \* the row of the Run
    callback,    \* where each callback is
    request,     \* where each request is
    events       \* how many events have happened

vars == <<oauth, sessions, jar, codes, maintainers, run, callback, request, events>>

\* Rows that have been deleted keep what they said; "unborn" ones never were.
Row == {"unborn", "there", "deleted"}
LoginRow == [row : Row, consumed : BOOLEAN, late : BOOLEAN, begunIn : Browsers]
SessionRow == [row : Row, revoked : BOOLEAN, late : BOOLEAN, user : Users \union {NoUser},
               login : Logins \union {None}]
Jar == [login : Logins \union {None}, session : Sessions \union {None},
        page : Sessions \union {None}]
RunRow == [status : {"QUEUED", "EXECUTING", "PASSED", "FAILED", "CANCEL_REQUESTED", "CANCELLED",
                     "REJECTED_BY_CAPACITY"},
           cleanup : CleanupStatuses, attempt : 1..MaxAttempts]

CallbackState ==
    [at : {"idle", "select", "consume", "exchange", "insert", "reply", "done", "refused"},
     browser : Browsers, cookie : Logins \union {None}, login : Logins \union {None},
     user : Users \union {NoUser}, session : Sessions \union {None}]

RequestState ==
    [at : {"idle", "asked", "find", "permit", "commit", "revoke", "reply", "done", "denied"},
     kind : {"retry", "cancel", "logout"}, browser : Browsers,
     session : Sessions \union {None},
     page : Sessions \union {None},   \* whose token comes with it
     ended : BOOLEAN,                 \* the session had ended when it was sent
     seen : RunRow, did : {"nothing", "retried", "cancelled"}]

NewRun == [status |-> "QUEUED", cleanup |-> "NOT_SCHEDULED", attempt |-> 1]
SomeBrowser == CHOOSE b \in Browsers : TRUE

Init ==
    /\ oauth = [l \in Logins |-> [row |-> "unborn", consumed |-> FALSE, late |-> FALSE,
                                  begunIn |-> SomeBrowser]]
    /\ sessions = [s \in Sessions |-> [row |-> "unborn", revoked |-> FALSE, late |-> FALSE,
                                       user |-> NoUser, login |-> None]]
    /\ jar = [b \in Browsers |-> [login |-> None, session |-> None, page |-> None]]
    /\ codes = [l \in Logins |-> {}]
    /\ maintainers = Users
    /\ run = NewRun
    /\ callback = [c \in Callbacks |->
                     [at |-> "idle", browser |-> SomeBrowser, cookie |-> None, login |-> None,
                      user |-> NoUser, session |-> None]]
    /\ request = [r \in Requests |->
                    [at |-> "idle", kind |-> "logout", browser |-> SomeBrowser, session |-> None,
                     page |-> None, ended |-> FALSE, seen |-> NewRun, did |-> "nothing"]]
    /\ events = 0

\* Another callback or request may come.
MayCome ==
    Cardinality({c \in Callbacks : callback[c].at # "idle"})
        + Cardinality({r \in Requests : request[r].at # "idle"}) < MaxHandled

Spend == events < MaxEvents /\ events' = events + 1
-----------------------------------------------------------------------------
\* Variant: every pending login is deleted with those that are over.
SweptAlways(row) == [row EXCEPT !.row = IF @ = "there" THEN "deleted" ELSE @]

Swept(row) == [row EXCEPT !.row = IF @ = "there" /\ row.late THEN "deleted" ELSE @]

\* beginLogin sweeps the logins whose time is over and makes a new one.
Begin(b) ==
    \E l \in Logins :
        /\ oauth[l].row = "unborn" /\ \A k \in 1..(l - 1) : oauth[k].row # "unborn"
        /\ oauth' = [k \in Logins |->
                       IF k = l THEN [oauth[l] EXCEPT !.row = "there", !.begunIn = b]
                       ELSE Swept(oauth[k])]
        /\ jar' = [jar EXCEPT ![b].login = l]
        /\ UNCHANGED <<sessions, codes, maintainers, run, callback, request, events>>

\* A user consents at Gitea, which calls back with a code that is good for once.
Arrive(c, b, l, u) ==
    /\ callback[c].at = "idle" /\ MayCome
    /\ oauth[l].row # "unborn"
    /\ codes' = [codes EXCEPT ![l] = @ \union {u}]
    /\ callback' = [callback EXCEPT ![c] =
                      [@ EXCEPT !.at = "select", !.browser = b, !.cookie = jar[b].login,
                                !.login = l, !.user = u]]
    /\ UNCHANGED <<oauth, sessions, jar, maintainers, run, request, events>>

Refuse(c) ==
    /\ callback' = [callback EXCEPT ![c].at = "refused"]
    /\ jar' = [jar EXCEPT ![callback[c].browser].login = None]

Proceed(c, place) == callback' = [callback EXCEPT ![c].at = place] /\ UNCHANGED jar

\* Variant: any cookies will do.
HasItsCookiesAlways(c) == TRUE

\* The state of the query and the nonce and binding of the row are the cookies'.
HasItsCookies(c) == callback[c].cookie = callback[c].login

Select(c) ==
    LET row == oauth[callback[c].login] IN
    /\ callback[c].at = "select"
    /\ IF HasItsCookies(c) /\ row.row = "there" /\ ~row.consumed /\ ~row.late
       THEN Proceed(c, "consume")
       ELSE Refuse(c)
    /\ UNCHANGED <<oauth, sessions, codes, maintainers, run, request, events>>

\* Variant: the update is unconditional.
UnconsumedAlways(l) == oauth[l].row = "there"

Unconsumed(l) == oauth[l].row = "there" /\ ~oauth[l].consumed

Consume(c) ==
    LET l == callback[c].login IN
    /\ callback[c].at = "consume"
    /\ IF Unconsumed(l)
       THEN oauth' = [oauth EXCEPT ![l].consumed = TRUE] /\ Proceed(c, "exchange")
       ELSE UNCHANGED oauth /\ Refuse(c)
    /\ UNCHANGED <<sessions, codes, maintainers, run, request, events>>

\* Gitea redeems the code and says whose it is, or fails.
Exchange(c) ==
    LET l == callback[c].login
        u == callback[c].user
    IN  /\ callback[c].at = "exchange"
        /\ codes' = [codes EXCEPT ![l] = @ \ {u}]
        /\ \/ u \in codes[l] /\ Proceed(c, "insert") /\ UNCHANGED events
           \/ u \notin codes[l] /\ Refuse(c) /\ UNCHANGED events
           \/ Spend /\ Refuse(c)
        /\ UNCHANGED <<oauth, sessions, maintainers, run, request>>

Insert(c) ==
    /\ callback[c].at = "insert"
    /\ \E s \in Sessions :
         /\ sessions[s].row = "unborn" /\ \A t \in 1..(s - 1) : sessions[t].row # "unborn"
         /\ sessions' = [sessions EXCEPT ![s].row = "there", ![s].user = callback[c].user,
                                         ![s].login = callback[c].login]
         /\ callback' = [callback EXCEPT ![c].at = "reply", ![c].session = s]
    /\ UNCHANGED <<oauth, jar, codes, maintainers, run, request, events>>

Reply(c) ==
    /\ callback[c].at = "reply"
    /\ callback' = [callback EXCEPT ![c].at = "done"]
    /\ jar' = [jar EXCEPT ![callback[c].browser].login = None,
                          ![callback[c].browser].session = callback[c].session]
    /\ UNCHANGED <<oauth, sessions, codes, maintainers, run, request, events>>

-----------------------------------------------------------------------------
\* Variant: a revoked session still counts.
LiveThoughRevoked(s) == s # None /\ sessions[s].row = "there" /\ ~sessions[s].late

\* current: the session of the cookie.
Live(s) == s # None /\ sessions[s].row = "there" /\ ~sessions[s].revoked /\ ~sessions[s].late

\* /api/me: the page is loaded and holds the token that belongs to the session.
Load(b) ==
    /\ jar' = [jar EXCEPT ![b].page = IF Live(jar[b].session) THEN jar[b].session ELSE None]
    /\ UNCHANGED <<oauth, sessions, codes, maintainers, run, callback, request, events>>

Ask(r, b, kind) ==
    LET s == jar[b].session IN
    /\ request[r].at = "idle" /\ MayCome
    /\ kind # "logout" => jar[b].page # None
    /\ request' = [request EXCEPT ![r] =
                     [@ EXCEPT !.at = "asked", !.kind = kind, !.browser = b, !.session = s,
                               !.page = jar[b].page,
                               !.ended = s # None /\ (sessions[s].revoked \/ sessions[s].late)]]
    /\ UNCHANGED <<oauth, sessions, jar, codes, maintainers, run, callback, events>>

Goto(r, place) == request' = [request EXCEPT ![r].at = place]
Ends(r, did) == request' = [request EXCEPT ![r].at = "done", ![r].did = did]

\* requireCsrf, or current for a logout, which ends here without a session.
Authenticate(r) ==
    LET s == request[r].session IN
    /\ request[r].at = "asked"
    /\ IF request[r].kind = "logout"
       THEN Goto(r, IF Live(s) THEN "revoke" ELSE "reply")
       ELSE Goto(r, IF Live(s) /\ request[r].page = s THEN "find" ELSE "denied")
    /\ UNCHANGED <<oauth, sessions, jar, codes, maintainers, run, callback, events>>

Revoke(r) ==
    /\ request[r].at = "revoke"
    /\ sessions' = [sessions EXCEPT ![request[r].session].revoked = TRUE]
    /\ Goto(r, "reply")
    /\ UNCHANGED <<oauth, jar, codes, maintainers, run, callback, events>>

\* The reply takes the session cookie away, whichever it is by then.
LoggedOut(r) ==
    /\ request[r].at = "reply"
    /\ jar' = [jar EXCEPT ![request[r].browser].session = None]
    /\ Goto(r, "done")
    /\ UNCHANGED <<oauth, sessions, codes, maintainers, run, callback, events>>

\* requireMaintainer reads the row, then asks Gitea for the user's rights.
Find(r) ==
    /\ request[r].at = "find"
    /\ request' = [request EXCEPT ![r].at = "permit", ![r].seen = run]
    /\ UNCHANGED <<oauth, sessions, jar, codes, maintainers, run, callback, events>>

Eligible(row) == \E confirmed \in BOOLEAN : CanRetry(row.status, row.cleanup, confirmed)

\* Gitea says whether the user may push to the repository, or fails.
IsRepositoryMaintainer(u) == u \in maintainers

Permit(r) ==
    /\ request[r].at = "permit"
    /\ \/ /\ Goto(r, IF /\ IsRepositoryMaintainer(sessions[request[r].session].user)
                        /\ request[r].kind = "retry" => Eligible(request[r].seen)
                     THEN "commit" ELSE "denied")
          /\ UNCHANGED events
       \/ Spend /\ Ends(r, "nothing")
    /\ UNCHANGED <<oauth, sessions, jar, codes, maintainers, run, callback>>

\* What the database stores for a status: a queued Run that is to leave the queue while
\* another Run is at work is rejected instead, and nobody is told (Admission.tla).
StoredAs(status) ==
    {status} \union IF run.status = "QUEUED" THEN {"REJECTED_BY_CAPACITY"} ELSE {}

\* Variant: the row is read anew, but not compared.
AsSeenAlways(r) == TRUE

\* The transactions run under the Run's lock. A retry wants the Run as it was seen,
\* and may be refused for want of capacity (Admission.tla); a cancellation takes
\* the Run as it is, also another attempt than was seen.
AsSeen(r) == run = request[r].seen

Retry(r) ==
    /\ request[r].at = "commit" /\ request[r].kind = "retry"
    /\ \/ /\ AsSeen(r) /\ Eligible(run)
          /\ run.attempt < MaxAttempts
          /\ run' = [status |-> "QUEUED", cleanup |-> "NOT_SCHEDULED", attempt |-> run.attempt + 1]
          /\ Ends(r, "retried")
       \/ Ends(r, "nothing") /\ UNCHANGED run
    /\ UNCHANGED <<oauth, sessions, jar, codes, maintainers, callback, events>>

Cancel(r) ==
    /\ request[r].at = "commit" /\ request[r].kind = "cancel"
    /\ IF run.status \in CancellableStatuses
       THEN /\ \E status \in StoredAs("CANCEL_REQUESTED") :
                 run' = [run EXCEPT !.status = status, !.cleanup = "PENDING"]
            /\ Ends(r, "cancelled")
       ELSE UNCHANGED run /\ Ends(r, "nothing")
    /\ UNCHANGED <<oauth, sessions, jar, codes, maintainers, callback, events>>

-----------------------------------------------------------------------------
\* Time passes for a login or a session; a right is withdrawn.
LoginIsLate(l) ==
    /\ oauth[l].row = "there" /\ ~oauth[l].late
    /\ Spend
    /\ oauth' = [oauth EXCEPT ![l].late = TRUE]
    /\ UNCHANGED <<sessions, jar, codes, maintainers, run, callback, request>>

SessionIsLate(s) ==
    /\ sessions[s].row = "there" /\ ~sessions[s].late
    /\ Spend
    /\ sessions' = [sessions EXCEPT ![s].late = TRUE]
    /\ UNCHANGED <<oauth, jar, codes, maintainers, run, callback, request>>

RightIsWithdrawn(u) ==
    /\ u \in maintainers
    /\ Spend
    /\ maintainers' = maintainers \ {u}
    /\ UNCHANGED <<oauth, sessions, jar, codes, run, callback, request>>

\* Variant: what is not revoked is deleted.
ExpiredUnlessRevoked(s) == sessions[s].late \/ ~sessions[s].revoked

\* The retention sweep, whose second condition adds nothing to its first.
Expired(s) == sessions[s].late \/ (~sessions[s].revoked /\ sessions[s].late)

DeleteExpired ==
    /\ \E s \in Sessions : sessions[s].row = "there" /\ Expired(s)
    /\ sessions' = [s \in Sessions |->
                      IF sessions[s].row = "there" /\ Expired(s)
                      THEN [sessions[s] EXCEPT !.row = "deleted"] ELSE sessions[s]]
    /\ UNCHANGED <<oauth, jar, codes, maintainers, run, callback, request, events>>

\* The Worker executes the Run, ends it, and cleans up.
Work ==
    /\ \/ /\ run.status = "QUEUED"
          /\ \E status \in StoredAs("EXECUTING") : run' = [run EXCEPT !.status = status]
       \/ run.status = "EXECUTING" /\ \E to \in {"PASSED", "FAILED"} : run' = [run EXCEPT !.status = to]
       \/ /\ run.status \in {"PASSED", "FAILED"} /\ run.cleanup # "CLEANED"
          /\ run' = [run EXCEPT !.cleanup = "CLEANED"]
       \/ /\ run.status = "CANCEL_REQUESTED"
          /\ run' = [run EXCEPT !.status = "CANCELLED", !.cleanup = "CLEANED"]
    /\ UNCHANGED <<oauth, sessions, jar, codes, maintainers, callback, request, events>>

-----------------------------------------------------------------------------
Next ==
    \/ \E b \in Browsers : Begin(b) \/ Load(b)
    \/ \E c \in Callbacks :
         \/ Select(c) \/ Consume(c) \/ Exchange(c) \/ Insert(c) \/ Reply(c)
         \/ \E b \in Browsers, l \in Logins, u \in Users : Arrive(c, b, l, u)
    \/ \E r \in Requests :
         \/ Authenticate(r) \/ Revoke(r) \/ LoggedOut(r) \/ Find(r) \/ Permit(r) \/ Retry(r) \/ Cancel(r)
         \/ \E b \in Browsers, kind \in {"retry", "cancel", "logout"} : Ask(r, b, kind)
    \/ \E l \in Logins : LoginIsLate(l)
    \/ \E s \in Sessions : SessionIsLate(s)
    \/ \E u \in Users : RightIsWithdrawn(u)
    \/ DeleteExpired \/ Work

Spec == Init /\ [][Next]_vars

-----------------------------------------------------------------------------
TypeOK ==
    /\ oauth \in [Logins -> LoginRow]
    /\ sessions \in [Sessions -> SessionRow]
    /\ jar \in [Browsers -> Jar]
    /\ codes \in [Logins -> SUBSET Users]
    /\ maintainers \subseteq Users
    /\ run \in RunRow
    /\ callback \in [Callbacks -> CallbackState]
    /\ request \in [Requests -> RequestState]
    /\ events \in 0..MaxEvents
    /\ \A l \in Logins : oauth[l].row = "deleted" => oauth[l].late
    /\ \A s \in Sessions : sessions[s].row = "deleted" => sessions[s].late

\* A login makes one session, however many callbacks come for it at once, and
\* the session stays in the browser that the login was begun in.
Born(s) == sessions[s].row # "unborn"

LoginsMakeOneSession ==
    /\ \A s, t \in Sessions : Born(s) /\ Born(t) /\ sessions[s].login = sessions[t].login => s = t
    /\ \A b \in Browsers : jar[b].session # None =>
         oauth[sessions[jar[b].session].login].begunIn = b

\* A request that was sent after its session had ended changes nothing, and of all
\* retries that saw the same attempt one starts the next.
ChangesAreDue ==
    /\ \A r \in Requests : request[r].ended => request[r].did = "nothing"
    /\ \A r, q \in Requests :
         /\ request[r].did = "retried" /\ request[q].did = "retried"
         /\ request[r].seen.attempt = request[q].seen.attempt
         => r = q

\* Nobody is turned away for what others do. A callback is refused because its time
\* is over, its login was used, or its browser was not left to that one login; a
\* request is denied for its session's end, a page of another session, a missing
\* right, or a Run that cannot be retried.
LeftAlone(c) ==
    LET b == callback[c].browser IN
    /\ oauth[callback[c].login].begunIn = b
    /\ \A l \in Logins \ {callback[c].login} : oauth[l].row # "unborn" => oauth[l].begunIn # b
    /\ \A d \in Callbacks \ {c} : callback[d].at # "idle" => callback[d].browser # b

RefusalsHaveACause ==
    /\ \A c \in Callbacks :
         /\ callback[c].at = "refused" /\ LeftAlone(c)
         => oauth[callback[c].login].late \/ oauth[callback[c].login].consumed
    /\ \A r \in Requests :
         /\ request[r].at = "denied" /\ request[r].session # None
         /\ request[r].page = request[r].session
         => \/ sessions[request[r].session].revoked \/ sessions[request[r].session].late
            \/ sessions[request[r].session].user \notin maintainers
            \/ request[r].kind = "retry" /\ ~Eligible(request[r].seen)
=============================================================================
