-------------------------------- MODULE Auth --------------------------------
(***************************************************************************)
(* Authentication: login, refresh-token rotation, logout, password change  *)
(* and account locking, as implemented by AuthService over the users and   *)
(* sessions tables.                                                        *)
(*                                                                         *)
(* Every request runs in a goroutine of its own (Procs).  A handler is a   *)
(* sequence of SQL statements, each of which commits by itself: no handler *)
(* opens a transaction.  One action is one statement together with the     *)
(* code up to the next one, so that statements of different requests       *)
(* interleave as they do in the server.  Requests refused before their     *)
(* first write are one stuttering action, RefusedRequest.                  *)
(***************************************************************************)
EXTENDS Integers, FiniteSets

CONSTANTS
    Users,         \* rows of the users table
    NoUser,        \* "no user": an idle request, or a row not inserted yet
    Procs,         \* request goroutines
    Calls,         \* endpoints the clients of this instance use
    FaultsHappen,  \* whether statements fail and the process crashes
    MaxAttempts,   \* maxLoginAttempts, 5 in the code
    LockTicks,     \* lockDuration, 30 minutes in the code
    SessionTicks,  \* refreshExp days
    MaxSessions,   \* bound: rows the sessions table may reach
    MaxTime,       \* bound: last instant of the clock
    MaxFailures    \* bound: failed_login_count saturates here

Endpoints == {"login", "badLogin", "refresh", "logout", "logoutAll",
              "changePassword", "adminUpdate"}

ASSUME UsersAssumption == NoUser \notin Users
ASSUME ProcsAssumption == IsFiniteSet(Procs)
ASSUME CallsAssumption == Calls \subseteq Endpoints /\ FaultsHappen \in BOOLEAN
ASSUME LimitsAssumption ==
    /\ MaxAttempts \in Nat \ {0}
    /\ LockTicks \in Nat \ {0}
    /\ SessionTicks \in Nat \ {0}
BoundsAreNatural ==
    /\ MaxSessions \in Nat
    /\ MaxTime \in Nat
    /\ MaxFailures \in Nat
    /\ MaxFailures >= MaxAttempts
ASSUME BoundsAssumption == BoundsAreNatural

VARIABLES
    users,      \* users table: status, failed_login_count, locked_until
    sessions,   \* sessions table, one row per id; token "none" = no row
    lastId,     \* the last id the table's BIGSERIAL handed to a row
    now,        \* time.Now()
    pc,         \* the statement each request executes next
    req,        \* what each request remembers between statements
    history,    \* ghost: where each session comes from
    abandoned,  \* ghost: rows whose request failed before the backfill
    halted      \* ghost: users whose password changed, and whose sessions the
                \*        failed request did not get to revoke

tables == <<users, sessions, lastId>>
ghosts == <<history, abandoned, halted>>
vars == <<tables, now, pc, req, ghosts>>

-----------------------------------------------------------------------------
(* Rows, requests and their values. *)

Disabled == 0
Enabled == 1
Locked == 2
Statuses == {Disabled, Enabled, Locked}

Null == 0                              \* locked_until IS NULL
NoSession == 0
SessionIds == 1 .. MaxSessions
Instants == 0 .. (MaxTime + LockTicks + SessionTicks)

UserRow == [status: Statuses, failed: 0 .. MaxFailures, lockedUntil: Instants]

\* A row's refresh_token is the literal 'pending' until it is backfilled.
SessionRow == [user: Users \cup {NoUser}, token: {"none", "pending", "issued"},
               revoked: BOOLEAN, expires: Instants, tokenExpires: Instants]

NoRow == [user |-> NoUser, token |-> "none", revoked |-> FALSE,
          expires |-> 0, tokenExpires |-> 0]

\* outdated: rests on credentials checked before the user's last password
\* change or logout-all; overlapped: was on its way, or at the last instant
\* of its life, when that operation revoked the user's sessions.
Origin == [parent: SessionIds \cup {NoSession},
           outdated: BOOLEAN, overlapped: BOOLEAN]
NoOrigin == [parent |-> NoSession, outdated |-> FALSE, overlapped |-> FALSE]

Steps == {"idle", "recordFailure", "recordSuccess", "readUser", "revokeOld",
          "create", "backfill", "setPassword", "revokeAll"}

Request == [user: Users \cup {NoUser},
            old: SessionIds \cup {NoSession},
            new: SessionIds \cup {NoSession},
            outdated: BOOLEAN, overlapped: BOOLEAN]
Idle == [user |-> NoUser, old |-> NoSession, new |-> NoSession,
         outdated |-> FALSE, overlapped |-> FALSE]

TypeOK ==
    /\ users \in [Users -> UserRow]
    /\ sessions \in [SessionIds -> SessionRow]
    /\ lastId \in 0 .. MaxSessions
    /\ now \in 0 .. MaxTime
    /\ pc \in [Procs -> Steps]
    /\ req \in [Procs -> Request]
    /\ history \in [SessionIds -> Origin]
    /\ abandoned \subseteq SessionIds
    /\ halted \subseteq Users

-----------------------------------------------------------------------------
(* What the code decides from a row. *)

\* A lock is in force while its deadline is ahead; a status of Locked alone
\* locks nobody out.
IsLocked(u) ==
    /\ users[u].status = Locked
    /\ users[u].lockedUntil # Null
    /\ now < users[u].lockedUntil

\* Mutant: forgets the revocation.
IsValid_IgnoresRevoked(s) == now <= sessions[s].expires

\* The row is neither revoked nor past its expiry.
IsValid(s) == ~sessions[s].revoked /\ now <= sessions[s].expires

\* The refresh token of s is accepted: the JWT has not expired, the row is
\* found by the token, and it is valid.
Redeemable(s) ==
    /\ sessions[s].token = "issued"
    /\ now < sessions[s].tokenExpires
    /\ IsValid(s)

\* Mutant: passes over rows whose token is not there yet.
RevokedByAll_IssuedOnly(s, u) ==
    /\ sessions[s].user = u
    /\ sessions[s].token = "issued"
    /\ ~sessions[s].revoked
    /\ sessions[s].expires > now

\* Rows RevokeAllByUser updates.
RevokedByAll(s, u) ==
    /\ sessions[s].user = u
    /\ sessions[s].token # "none"
    /\ ~sessions[s].revoked
    /\ sessions[s].expires > now

PendingExists == \E s \in SessionIds : sessions[s].token = "pending"

\* Requests that have passed their checks and will insert a session.
Creating(p) == pc[p] \in {"recordSuccess", "readUser", "revokeOld", "create"}

\* A user who holds a token pair can call the authenticated endpoints.
Authenticated(u) ==
    \E s \in SessionIds : sessions[s].user = u /\ sessions[s].token = "issued"

\* Bound: a request that will insert a row is admitted only if a row is left.
Room == lastId + Cardinality({q \in Procs : Creating(q)}) < MaxSessions

-----------------------------------------------------------------------------
Init ==
    /\ users = [u \in Users |->
                   [status |-> Enabled, failed |-> 0, lockedUntil |-> Null]]
    /\ sessions = [s \in SessionIds |-> NoRow]
    /\ lastId = 0
    /\ now = 0
    /\ pc = [p \in Procs |-> "idle"]
    /\ req = [p \in Procs |-> Idle]
    /\ history = [s \in SessionIds |-> NoOrigin]
    /\ abandoned = {}
    /\ halted = {}

Goto(p, step) == pc' = [pc EXCEPT ![p] = step]

\* An idle goroutine takes a request of user u and goes to its next statement.
Start(p, step, r) ==
    /\ pc[p] = "idle"
    /\ Goto(p, step)
    /\ req' = [req EXCEPT ![p] = r]

\* The handler returns.
Finish(p) ==
    /\ Goto(p, "idle")
    /\ req' = [req EXCEPT ![p] = Idle]

\* A request refused on what it read: unknown user, disabled or locked
\* account, bad token, wrong old password.  It has written nothing.
RefusedRequest(p) == pc[p] = "idle" /\ UNCHANGED vars

-----------------------------------------------------------------------------
(* Login *)

\* The user row read by FindByUsername lets the attempt through, and the
\* password is compared with the hash of that row.
LoginRead(p, u, matches) ==
    /\ IF matches THEN "login" \in Calls /\ Room ELSE "badLogin" \in Calls
    /\ users[u].status # Disabled
    /\ ~IsLocked(u)
    /\ Start(p, IF matches THEN "recordSuccess" ELSE "recordFailure",
             [Idle EXCEPT !.user = u])
    /\ UNCHANGED <<tables, now, ghosts>>

\* Mutant: compares the count the row had before this failure.
ThresholdReached_OffByOne(u) == users[u].failed >= MaxAttempts

ThresholdReached(u) == users[u].failed + 1 >= MaxAttempts

\* One UPDATE increments the count and, from the threshold on, locks.
RecordLoginFailure(p) ==
    LET u == req[p].user
        reached == ThresholdReached(u)
    IN  /\ pc[p] = "recordFailure"
        /\ users' = [users EXCEPT ![u] =
             [status |-> IF reached THEN Locked ELSE @.status,
              failed |-> IF @.failed < MaxFailures THEN @.failed + 1
                                                   ELSE MaxFailures,
              lockedUntil |-> IF reached THEN now + LockTicks
                                         ELSE @.lockedUntil]]
        /\ Finish(p)
        /\ UNCHANGED <<sessions, lastId, now, ghosts>>

\* Mutant: enables the account whatever its status.
RecordLoginSuccess_Enables(p) ==
    /\ pc[p] = "recordSuccess"
    /\ users' = [users EXCEPT ![req[p].user] =
         [status |-> Enabled, failed |-> 0, lockedUntil |-> Null]]
    /\ Goto(p, "create")
    /\ UNCHANGED <<sessions, lastId, now, req, ghosts>>

RecordLoginSuccess(p) ==
    /\ pc[p] = "recordSuccess"
    /\ users' = [users EXCEPT ![req[p].user] =
         [status |-> IF @.status = Locked THEN Enabled ELSE @.status,
          failed |-> 0, lockedUntil |-> Null]]
    /\ Goto(p, "create")
    /\ UNCHANGED <<sessions, lastId, now, req, ghosts>>

-----------------------------------------------------------------------------
(* Session creation, the tail Login and Refresh share *)

\* Mutant: the expiry counts hours where the setting counts days.
NewRow_WrongUnit(u) ==
    [user |-> u, token |-> "pending", revoked |-> FALSE,
     expires |-> now + 24 * SessionTicks, tokenExpires |-> 0]

NewRow(u) ==
    [user |-> u, token |-> "pending", revoked |-> FALSE,
     expires |-> now + SessionTicks, tokenExpires |-> 0]

InsertSession(p) ==
    LET s == lastId + 1
    IN  /\ s \in SessionIds
        /\ sessions' = [sessions EXCEPT ![s] = NewRow(req[p].user)]
        /\ lastId' = s
        /\ history' = [history EXCEPT ![s] =
             [parent |-> req[p].old, outdated |-> req[p].outdated,
              overlapped |-> req[p].overlapped]]
        /\ req' = [req EXCEPT ![p].new = s]
        /\ Goto(p, "backfill")
        /\ UNCHANGED <<users, now, abandoned, halted>>

\* Mutant: the column is not UNIQUE.
CreateSession_NotUnique(p) == pc[p] = "create" /\ InsertSession(p)

\* Mutant: tries again until the placeholder is free.
CreateSession_Retries(p) ==
    pc[p] = "create" /\ ~PendingExists /\ InsertSession(p)

\* Mutant: starts over when the placeholder is taken.
CreateSession_StartsOver(p) ==
    /\ pc[p] = "create"
    /\ IF PendingExists
       THEN /\ Goto(p, IF req[p].old = NoSession THEN "recordSuccess" ELSE "readUser")
            /\ UNCHANGED <<tables, now, req, ghosts>>
       ELSE InsertSession(p)

\* INSERT with refresh_token 'pending'.  The UNIQUE constraint on the column
\* refuses the row while another one still holds the placeholder; the handler
\* then returns the error, leaving what it did before in place.
CreateSession(p) ==
    /\ pc[p] = "create"
    /\ IF PendingExists
       THEN Finish(p) /\ UNCHANGED <<tables, now, ghosts>>
       ELSE InsertSession(p)

\* Mutant: ignores that the UPDATE did not happen.
UpdateRefreshToken_Dropped(p) ==
    /\ pc[p] = "backfill"
    /\ Finish(p)
    /\ UNCHANGED <<tables, now, ghosts>>

\* The refresh token generated from the row's id replaces the placeholder
\* and goes to the client with an access token.
UpdateRefreshToken(p) ==
    /\ pc[p] = "backfill"
    /\ sessions' = [sessions EXCEPT
                      ![req[p].new].token = "issued",
                      ![req[p].new].tokenExpires = now + SessionTicks]
    /\ Finish(p)
    /\ UNCHANGED <<users, lastId, now, ghosts>>

-----------------------------------------------------------------------------
(* Refresh *)

\* The session is looked up by the token and checked once, here.
RefreshRead(p, s) ==
    /\ "refresh" \in Calls
    /\ Room
    /\ Redeemable(s)
    /\ Start(p, "readUser",
             [user |-> sessions[s].user, old |-> s, new |-> NoSession,
              outdated |-> history[s].outdated,
              overlapped |-> history[s].overlapped])
    /\ UNCHANGED <<tables, now, ghosts>>

\* Mutant: goes straight to the new session.
RefreshUser_KeepsOld(p) ==
    /\ pc[p] = "readUser"
    /\ IF users[req[p].user].status = Enabled
       THEN Goto(p, "create") /\ UNCHANGED req
       ELSE Finish(p)
    /\ UNCHANGED <<tables, now, ghosts>>

\* FindByID: only an Enabled account may go on.
RefreshUser(p) ==
    /\ pc[p] = "readUser"
    /\ IF users[req[p].user].status = Enabled
       THEN Goto(p, "revokeOld") /\ UNCHANGED req
       ELSE Finish(p)
    /\ UNCHANGED <<tables, now, ghosts>>

\* Revoke is unconditional: it does not ask whether the row was still valid.
RevokeOld(p) ==
    /\ pc[p] = "revokeOld"
    /\ sessions' = [sessions EXCEPT ![req[p].old].revoked = TRUE]
    /\ Goto(p, "create")
    /\ UNCHANGED <<users, lastId, now, req, ghosts>>

-----------------------------------------------------------------------------
(* Logout, LogoutAll, ChangePassword *)

\* The session id JWTAuth leaves in the request context.  The access token
\* names the user only, so there is none.
ContextSession(s) == NoSession

\* The holder of session s logs out.
Logout(s) ==
    /\ "logout" \in Calls
    /\ sessions[s].token = "issued"
    /\ sessions' = IF ContextSession(s) = NoSession
                   THEN sessions
                   ELSE [sessions EXCEPT ![s].revoked = TRUE]
    /\ UNCHANGED <<users, lastId, now, pc, req, ghosts>>

\* UPDATE ... SET is_revoked=true on the valid sessions of u.
RevokeAllByUser(u) ==
    sessions' = [s \in SessionIds |->
                   [sessions[s] EXCEPT !.revoked = @ \/ RevokedByAll(s, u)]]

\* Ghost: what is known of u was checked against credentials now replaced.
OutdateSessions(u) ==
    [s \in SessionIds |->
       [history[s] EXCEPT !.outdated = @ \/ sessions[s].user = u]]
OutdateRequests(u) ==
    [q \in Procs |->
       [req[q] EXCEPT !.outdated = @ \/ (Creating(q) /\ req[q].user = u)]]

\* Ghost: what RevokeAllByUser finds under way, and rows it meets at the very
\* instant they expire, which its strict comparison skips.
OverlapSessions(u, h) ==
    [s \in SessionIds |->
       [h[s] EXCEPT !.overlapped = IF sessions[s].user = u
                                   THEN sessions[s].expires = now ELSE @]]
OverlapRequests(u, r) ==
    [q \in Procs |->
       [r[q] EXCEPT !.overlapped = @ \/ (Creating(q) /\ req[q].user = u)]]

\* POST /auth/logout-all: a single statement.
LogoutAll(u) ==
    /\ "logoutAll" \in Calls
    /\ Authenticated(u)
    /\ RevokeAllByUser(u)
    /\ history' = OverlapSessions(u, OutdateSessions(u))
    /\ req' = OverlapRequests(u, OutdateRequests(u))
    /\ halted' = halted \ {u}
    /\ UNCHANGED <<users, lastId, now, pc, abandoned>>

\* ChangePassword reads the user; the old password matches.
ChangePasswordRead(p, u) ==
    /\ "changePassword" \in Calls
    /\ Authenticated(u)
    /\ Start(p, "setPassword", [Idle EXCEPT !.user = u])
    /\ UNCHANGED <<tables, now, ghosts>>

UpdatePassword(p) ==
    /\ pc[p] = "setPassword"
    /\ history' = OutdateSessions(req[p].user)
    /\ req' = OutdateRequests(req[p].user)
    /\ Goto(p, "revokeAll")
    /\ UNCHANGED <<tables, now, abandoned, halted>>

ChangePasswordRevoke(p) ==
    LET u == req[p].user
    IN  /\ pc[p] = "revokeAll"
        /\ RevokeAllByUser(u)
        /\ history' = OverlapSessions(u, history)
        /\ req' = [OverlapRequests(u, req) EXCEPT ![p] = Idle]
        /\ halted' = halted \ {u}
        /\ Goto(p, "idle")
        /\ UNCHANGED <<users, lastId, now, abandoned>>

-----------------------------------------------------------------------------
(* PUT /users/:id *)

NotGiven == -1                         \* the JSON body has no status field

\* A missing field decodes to 0, which the guard Status >= 0 lets through.
WrittenStatus(field) == IF field = NotGiven THEN Disabled ELSE field

AdminUpdate(u, field) ==
    /\ "adminUpdate" \in Calls
    /\ users' = [users EXCEPT ![u].status = WrittenStatus(field)]
    /\ UNCHANGED <<sessions, lastId, now, pc, req, ghosts>>

Tick ==
    /\ now < MaxTime
    /\ now' = now + 1
    /\ UNCHANGED <<tables, pc, req, ghosts>>

-----------------------------------------------------------------------------
(* Failures of the environment *)

\* Ghost: what the requests of the set P leave behind when they end here.
LeaveBehind(P) ==
    /\ abandoned' = abandoned \cup
                       {req[p].new : p \in {q \in P : pc[q] = "backfill"}}
    /\ halted' = halted \cup
                    {req[p].user : p \in {q \in P : pc[q] = "revokeAll"}}
    /\ UNCHANGED history

\* A statement of p returns an error, before or after it took effect (the
\* latter is the step followed by this one).  Login ignores the errors of its
\* two bookkeeping updates; every other error ends the handler.
StatementFails(p) ==
    /\ FaultsHappen
    /\ pc[p] # "idle"
    /\ IF pc[p] = "recordSuccess" THEN Goto(p, "create") /\ UNCHANGED req
                                  ELSE Finish(p)
    /\ LeaveBehind({p})
    /\ UNCHANGED <<tables, now>>

\* The process dies and restarts: requests under way are gone, the tables stay.
Crash ==
    /\ FaultsHappen
    /\ \E p \in Procs : pc[p] # "idle"
    /\ pc' = [p \in Procs |-> "idle"]
    /\ req' = [p \in Procs |-> Idle]
    /\ LeaveBehind(Procs)
    /\ UNCHANGED <<tables, now>>

-----------------------------------------------------------------------------
\* The statements of request p after its first: what the server itself runs.
Proceed(p) ==
    \/ RecordLoginFailure(p)
    \/ RecordLoginSuccess(p)
    \/ CreateSession(p)
    \/ UpdateRefreshToken(p)
    \/ RefreshUser(p)
    \/ RevokeOld(p)
    \/ UpdatePassword(p)
    \/ ChangePasswordRevoke(p)

Arrive(p) ==
    \/ \E u \in Users, matches \in BOOLEAN : LoginRead(p, u, matches)
    \/ \E s \in SessionIds : RefreshRead(p, s)
    \/ \E u \in Users : ChangePasswordRead(p, u)
    \/ RefusedRequest(p)

Next ==
    \/ \E p \in Procs : Arrive(p) \/ Proceed(p)
    \/ \E s \in SessionIds : Logout(s)
    \/ \E u \in Users : LogoutAll(u)
    \/ \E u \in Users, field \in {NotGiven} \cup Statuses : AdminUpdate(u, field)
    \/ \E p \in Procs : StatementFails(p)
    \/ Crash
    \/ Tick

Spec == Init /\ [][Next]_vars

\* The Go scheduler runs every ready goroutine: a request that has started
\* executes its next statement, or fails at it.  No fairness is assumed of
\* clients, of the clock or of failures.
Fairness == \A p \in Procs : WF_vars(Proceed(p))
FairSpec == Spec /\ Fairness

-----------------------------------------------------------------------------
(* Properties *)

\* Refresh revokes the session it redeems before it creates the next one
\* (auth_service.go, Refresh): whatever fails or interleaves, a session that
\* has a successor cannot be redeemed.
PredecessorRevoked ==
    \A s \in SessionIds :
        history[s].parent # NoSession => sessions[history[s].parent].revoked

\* The check of the redeemed session and its revocation are two statements, so
\* requests racing on one token can each create a successor, but no more than
\* one for each request that can be under way.
FanOutBounded ==
    \A s \in SessionIds :
        Cardinality({t \in SessionIds : history[t].parent = s})
            <= Cardinality(Procs)

ChangeInProgress(u) == \E p \in Procs : pc[p] = "revokeAll" /\ req[p].user = u

\* ChangePassword and LogoutAll revoke every session of the user.  A session
\* that rests on the old credentials and can still be redeemed afterwards was
\* being created, or was at the instant of its expiry, while they ran, or
\* descends from such a session; or the password change failed half way.
SurvivorsOverlapped ==
    \A s \in SessionIds :
        LET u == sessions[s].user
        IN  /\ Redeemable(s)
            /\ history[s].outdated
            /\ ~ChangeInProgress(u)
            /\ u \notin halted
            => history[s].overlapped

\* The placeholder 'pending' stands in the table only while the request that
\* inserted it is about to replace it, unless that request failed in between.
PlaceholderOwned ==
    \A s \in SessionIds :
        sessions[s].token = "pending" =>
            \/ s \in abandoned
            \/ \E p \in Procs : pc[p] = "backfill" /\ req[p].new = s

\* The UNIQUE placeholder is a lock: of all requests only one is between the INSERT and
\* the backfill (auth_service.go:71-82), and its row is the only one that holds it.
BackfillExclusive ==
    \A p \in Procs : pc[p] = "backfill" =>
        /\ sessions[req[p].new].token = "pending"
        /\ \A q \in Procs \ {p} : pc[q] # "backfill"
        /\ \A s \in SessionIds : sessions[s].token = "pending" => s = req[p].new

\* A lock that outlives its owner: once a request has failed between the two, it stays
\* taken, and nobody, whatever account, gets a token from a login or refresh any more.
OrphanShutsCreation ==
    [][(\E s \in abandoned : sessions[s].token = "pending")
         => /\ \E s \in abandoned' : sessions'[s].token = "pending"
            /\ \A s \in SessionIds : sessions'[s].token = "issued"
                                        => sessions[s].token = "issued"]_vars

\* An account whose count has reached the threshold carries a lock deadline,
\* whatever administrators write to its status meanwhile.
LockEngaged ==
    \A u \in Users :
        users[u].failed >= MaxAttempts => users[u].lockedUntil # Null

\* A disabled account is enabled by an administrator only; failing logins under
\* way may turn it into a locked one (RecordLoginFailure does not look at the
\* status), succeeding ones leave it as it is.
DisabledLeavesByLockOrAdmin ==
    [][\A u \in Users :
         /\ users[u].status = Disabled
         /\ users'[u].status \notin {Disabled, Locked}
         => \E field \in Statuses : AdminUpdate(u, field)]_vars

\* Every request the server starts it also ends: no handler waits for another
\* one, not even for one that left its placeholder behind.
RequestsEnd == \A p \in Procs : pc[p] # "idle" ~> pc[p] = "idle"

\* Statements a request has left at most, by the one it executes next.
StatementsLeft ==
    [idle |-> 0, recordFailure |-> 1, recordSuccess |-> 3, readUser |-> 4,
     revokeOld |-> 3, create |-> 2, backfill |-> 1, setPassword |-> 2, revokeAll |-> 1]

\* The reason why they end: a request is never set back, neither by itself nor by what
\* others do and what fails, and each of its statements brings it closer to its answer.
RequestsAdvance ==
    [][\A p \in Procs :
         /\ pc[p] # "idle" => StatementsLeft[pc'[p]] <= StatementsLeft[pc[p]]
         /\ Proceed(p) => StatementsLeft[pc'[p]] < StatementsLeft[pc[p]]]_vars

\* The status SessionLifecycle speaks of.
Status(s) ==
    CASE sessions[s].token = "none" -> "free"
      [] sessions[s].token # "none" /\ sessions[s].revoked -> "dead"
      [] sessions[s].token = "pending" /\ ~sessions[s].revoked -> "opening"
      [] sessions[s].token = "issued" /\ ~sessions[s].revoked -> "live"

Lifecycle == INSTANCE SessionLifecycle
               WITH Ids <- SessionIds, Owners <- Users, NoOwner <- NoUser, None <- NoSession,
                    status <- [s \in SessionIds |-> Status(s)],
                    owner <- [s \in SessionIds |-> sessions[s].user],
                    parent <- [s \in SessionIds |-> history[s].parent]

\* The statements of Login, Refresh, LogoutAll and ChangePassword, interleaved and
\* failing, let no session come back, change its user, or descend from one that is
\* still alive or another user's.
LifecycleImplemented == Lifecycle!Spec

\* What the source promises (the runs that check these find them violated).

\* auth_service.go:122, "revoke the old session first, then create the new one,
\* to keep token rotation monotonic": a token is redeemed for one successor.
OneSuccessor ==
    \A s, t \in SessionIds :
        /\ history[s].parent # NoSession
        /\ history[s].parent = history[t].parent
        => s = t

\* auth_service.go:67, "create the session with a placeholder token first [...]
\* and backfill the generated one": the placeholder is always replaced.
PlaceholderReplaced ==
    \A s \in SessionIds :
        sessions[s].token = "pending" ~> sessions[s].token = "issued"
=============================================================================
