# TLA+ verification of the security platform

The repository is a Go server (Gin, PostgreSQL) for security alerts: users sign
in and work on alerts, a background checker escalates alerts that miss their
deadline, and every operation leaves a record in a hash-chained audit log. This
directory holds TLA+ models of it, the TLC configurations that check them, and
TLAPS proofs about them.

Two facts of the code decide the shape of every model:

* each HTTP request runs in a goroutine of its own, next to the SLA checker and
  the audit consumer (`src/cmd/server/main.go:36-71`);
* every SQL statement commits by itself. The only transaction in the program is
  in `SavePermissions`, and at READ COMMITTED its statements are interleaved with
  those of others like any. What a request reads, checks and writes is therefore
  interleaved with everything else, statement by statement, and a failure leaves
  the statements before it in place.

One action of a model is one SQL statement, or one operation on shared memory,
with the code up to the next one.

## Inventory

| Component | State | Operations | Hard behaviour | What makes it correct |
| --- | --- | --- | --- | --- |
| Authentication (`auth_service.go`, `session_repo.go`, `user_repo.go`) | `users` (status, failure count, lock deadline), `sessions` (token, revoked, expiry) | login, refresh, logout, logout-all, change password, set status | races on one token, a password change against sessions being created, a crash between INSERT and backfill, lock boundaries | a redeemed token is dead; old credentials do not outlive a password change, but for what ran at that time; an account at the threshold carries a lock deadline |
| Alerts and SLA checker (`alert_service.go`, `alert_repo.go`) | `security_alerts` | create, update, assign, mark breaches, escalate | whole-row write back of old copies, a checker of several statements, faults between them | status and timestamps agree; breach marks are justified; breaches get escalated |
| Audit (`audit_service.go`, `audit_repo.go`, `main.go`) | a channel of 512, the consumer, `audit_logs` | log, consume, verify, shut down | full channel, failing statements, closing a channel others send on, restarts | order, accounting, a chain broken only where an error broke it, a shutdown that drains |
| Permissions and roles (`rbac_service.go`, `role_repo.go`) | `roles`, `role_permissions`, a cache by user | check, update role, create role, invalidate | resolution racing invalidation, errors cached as "no permission", role ids in old tokens | what is cached is what the tables say, or soon will be, but for named causes; nothing is used that was never granted |
| User administration (`user_service.go`, `user_handler.go`) | `users` | create, list, update | rank checks on values that change, or on queries that fail | the highest rank is given to nobody |
| API keys (`apikey_service.go`) | `api_keys` | create, authenticate, list, revoke | `last_used_at` written after the answer; the middleware that authenticates is on no route | a key belongs to one who was once permitted to have it |
| Rate limiter (`pkg/ratelimit`) | windows by key, behind a mutex | allow, remaining, reset, cleanup | boundaries, cleanup against allow | at most `limit` calls in a window |
| Tokens, hashing, configuration, database, routes | none of their own | | | |

How they interact: the handlers call the services; `UserService` and
`UpdateRolePermissions` invalidate the permission cache; the handlers and the SLA
checker hand entries to `AuditService.Log`, which never blocks; `main` starts the
consumer and the checker, and stops only the server and the consumer. Because `Log`
never blocks and returns nothing, the Auth and Alerts models leave its calls out
and Audit models all callers together.

`PROJECT.json` lists each component with its status, every hazard at its line, and
the source lines each definition models.

## Modules

| Module | Contents |
| --- | --- |
| `Auth` | the authentication component |
| `Alerts` | the alert life cycle and the SLA checker |
| `Audit` | the audit pipeline and the process's life |
| `Roles` | the tables of roles and permissions, inheritance and rank |
| `ApiKeys` | the table of API keys |
| `Access` | the permission checks, the cache, and the operations that change roles, users and keys; composes `Roles` (EXTENDS) and `ApiKeys` (INSTANCE) |
| `SessionLifecycle`, `AlertDrafts`, `AuditTrail` | abstract specifications, implemented by `Auth`, `Alerts` and `Audit` |
| `MCAuth`, `MCAlerts`, `MCAudit`, `MCAccess` | instances for TLC: sets for the constants, symmetry |
| `AuthProofs`, `AlertsProofs`, `AuditProofs`, `RolesProofs`, `AccessProofs`, `AccessCacheProofs` | theorems and proofs |
| `SessionLifecycleProofs`, `AuditTrailProofs` | the proofs of two of the refinements; that of `AlertDrafts` is in `AlertsProofs` |

The definitions named `X_Y`, each just before the definition `X`, are variants of `X` with a
plausible bug. No action uses them. Each property of a passing run is violated when
one such variant takes the place of its original, which shows that the property
depends on that piece of the code.

### Auth

`users` and `sessions` are the tables; `pc[p]` is the statement request `p` executes
next and `req[p]` its local variables. `history`, `abandoned` and `halted` are ghosts: no guard of a step of the program reads them, and they only
record what the properties talk about.

| Actions | Code |
| --- | --- |
| `LoginRead`, `RecordLoginFailure`, `RecordLoginSuccess`, `CreateSession`, `UpdateRefreshToken` | `AuthService.Login` |
| `RefreshRead`, `RefreshUser`, `RevokeOld`, `CreateSession`, `UpdateRefreshToken` | `AuthService.Refresh` |
| `ChangePasswordRead`, `UpdatePassword`, `ChangePasswordRevoke` | `AuthService.ChangePassword` |
| `Logout`, `LogoutAll`, `AdminUpdate` | handlers of a single statement |
| `StatementFails`, `Crash`, `Tick` | database errors, process death, the clock |

Passwords are an oracle: an attempt matches or does not. A refresh token is identified
with its session, because it is signed over the session's id; the parsing of the
token, the lookup and `IsValid` all happen at one read and are one action. The
handler of `Logout` asks the request context for a session id that no middleware
puts there, hence `ContextSession`: the model's `Logout` revokes nothing, although
`auth_service.go:154` says that it revokes the current session. The access token's lifetime is left out: a user
who ever had a token pair may call the authenticated endpoints, which admits more
behaviours than the code.

### Alerts

`rows` is the table, `deadline` its one column that `AlertRepository.Update` does not
write. `job[p]` is a request between its read and its write, with the whole row it
will write. `step` and `targets` are the checker. `outdated`, `lost` and `job[p].stale`
are ghosts, `asked` counts requests for the bound.

`UpdateRead` applies the fields in the code's order (severity, assignee, status), so
the effects on `breached`, `status` and the timestamps compose as they do there.
`Selected` gives the checker's copy the zero values of the columns its query leaves
out. Permission, row filter and probation checks of the handlers are decided on the
caller, and some caller always passes them; so every request they may let through
is admitted. What `Arrive` stands for is the two routes of `src/api/router.go:35-36`, not
the checks behind them.

The deadline `ApplySeverity` recomputes does not get into the table, since the UPDATE at
`alert_repo.go:108-111` leaves the column out, although `alert_service.go:109` says that a
raised severity has a new deadline. The model keeps this.

### Audit

`queue` is the channel, `consumer` the goroutine of `consumeLoop`, `table` the rows of
`audit_logs` in id order, `phase` where `main` is: serving, inside `srv.Shutdown`, inside
the deferred `auditSvc.Shutdown`, returned, or dead. An entry is the number of the call
of `Log` that submitted it. A hash is the sequence of what was hashed, which makes
it injective. A send on the closed channel panics: a handler loses its request to
Gin's recovery, the SLA checker takes the process down. `Restart` begins again with
the table as it is.

### Access

`roleOf` is `users.role_id`, `keys` the keys, `tree` and `direct` (of `Roles`) the
tables of roles. `cached` and `cache` are `permCache.store`; a user who is cached with the empty
set is not the same as one who is not cached. `claims[u]` are the role ids in the
access tokens of `u`. `granted`, `origin`, `missed`, `misjudged` and the fields
`disturbed` and `doubtful` of a request are ghosts.

| Actions | Code |
| --- | --- |
| `CheckCached`, `CheckUncached`, `CheckRefused`, `Resolve`, `ResolveFails`, `Store` | `RBACService.HasPermission`, from the routes or from `UserHandler` |
| `DeletePermissions`, `UpdateRole`, `ListRoles`, `FindUsersWithRole`, `Invalidate`, and their failures | `RBACService.UpdateRolePermissions` |
| `InsertRole` | `RBACService.CreateRole` |
| `CheckRank`, `CheckRankFails`, then `UpdateUser` or `CreateUser` | `UserHandler.Update`, `UserHandler.Create` |
| `CreateKey`, `RevokeKey` | the handlers of API keys |
| `IssueToken` | a login or a refresh, as far as roles go |

Where the model admits more than the code does: a token never expires, so every role id a user
ever had in a token can come back; a token is issued at once for the role in the users
row, where the code reads the row some statements earlier, which looks like a token issued
then; reads that only answer end with their permission check. Rows of `roles` are
numbered in the order of insertion, without the gaps a sequence leaves; since a parent
has to exist before its child and no row is ever changed, ids grow from parent to child, the
`visited` maps of the code never meet a cycle (each level reads a role with a lower id,
`ChecksAndSweepsAdvance`), and sets of ancestors can be defined without recursion. A level of `resolveInheritedPerms` is one action although it makes two
queries, because the first reads a row that never changes. The ranks of `MayGive` are
computed in one action for the same reason: all that can happen meanwhile is that the role
asked for comes into being. A key is named by its owner, one for each.

The transaction of `SavePermissions` is two steps: its DELETE (`DeletePermissions`), and its
INSERTs with the COMMIT (`UpdateRole`). It runs at READ COMMITTED, PostgreSQL's default. The
field `late` of a request, which is no ghost, holds the rows others have committed for the
role since its DELETE; the DELETE did not see them, so they stay. Two updates of
one role that overlap can therefore leave the union of both sets, where the comment at
`role_repo.go:85` promises to overwrite. Each of them still sweeps the cache after its own
COMMIT. If a permission of the request is among the late rows, the INSERT meets the
primary key; as with a permission named twice in one request, PostgreSQL then aborts the
whole transaction, whatever `role_repo.go:103-105` intends by going on: `NoEffect`.

### The abstract specifications

`SessionLifecycle` knows sessions that are free, opening, live or dead, their users and the
sessions they were opened from. `Auth!Lifecycle` maps a row with the placeholder to opening, one
with a token to live, a revoked one to dead, and takes users and predecessors from the
ghost `history`. That a session is opened only from a dead one of the same user, one at a time, and
that nothing returns from the dead, is then a property of every interleaving of the SQL statements.

`AlertDrafts` is what is left of the alert life cycle when whole rows are written back late. A writer
drafts a status by a legal move from the one it read, and writes it whatever the alert has become
since. `Alerts!Drafts` maps the copies of requests, and those of the checker as it will write
them, to drafts. Races then mix up statuses, but none of them produces a move `validTransitions`,
`Assign` and `escalate` do not have.

`AuditTrail` is a line of entries, each of which becomes a row or is discarded in its
turn. `Audit!Trail` maps what the consumer holds, followed by the channel, to the line. The
abstract step between receiving an entry and inserting it does not exist: a crash, a
failing query and a panic on the closed channel all have to look like one of its few
steps. Its fairness (the line moves) is implemented too.

## Runs

TLC checks deadlock in every run; no configuration turns it off. Each module has a
stuttering action for requests refused before they write, or a `Restart`, because
the server does not stop.

| Run | Properties | What it shows |
| --- | --- | --- |
| `AuthSessions` (315k states) | `TypeOK`, `PredecessorRevoked`, `FanOutBounded`, `SurvivorsOverlapped`, `PlaceholderOwned`, `BackfillExclusive`, `OrphanShutsCreation`, `LifecycleImplemented` | what rotation and revocation do guarantee under all interleavings, failing statements and crashes; that sessions are created one at a time, and none after a placeholder was left behind |
| `AuthAccounts` (56k) | `LockEngaged`, `DisabledLeavesByLockOrAdmin`, `RequestsEnd`, `RequestsAdvance` | locking, administrators, and that every request ends, each of its statements bringing it closer |
| `Alerts` (513k) | `TypeOK`, `ClosedAtCoherent`, `ResolvedHasTimestamp`, `BreachedIsOverdue`, `FreshWritesFollowLifecycle`, `DraftsImplemented`, `LossHasCause`, `CheckAdvances`, `BreachEscalatedOrLost` | what survives lost updates; that even an overtaken write carries a legal move; that a check works its list off; which breaches are escalated, and what makes the checker lose one |
| `Audit` (53k) | `TypeOK`, `StoredInOrder`, `AcceptedAccounted`, `BreaksAreBlindRows`, `VerifyReportsFirstBlind`, `DrainedAtExit`, `ShutdownEnds`, `DrainAdvances`, `TrailImplemented` | the pipeline across failures, shutdowns and restarts |
| `Access` (508k) | `StaleHasCause`, `GrantedBeforeUse`, `AdministratorsOnlyDwindle`, `ChecksAndSweepsAdvance` | the causes of stale permissions, that mixtures of old and new ones were all granted once, who gets the highest rank, and that resolutions and sweeps only go forward, with two changes of roles overlapping, failing queries, lost answers and crashes |
| `AccessLiveness` (231k) | `TypeOK`, `GrantedBeforeUse`, `InvalidationArrives` | all endpoints that change state, three users, no failures: what is to be cleared is cleared |

Six runs state what a comment of the source promises and find a behaviour of
the code against it:

| Run | Promise | What happens |
| --- | --- | --- |
| `AuthOneSuccessor` | rotation is monotonic (`auth_service.go:122`) | two refreshes with one token both succeed |
| `AuthPlaceholder` | the placeholder is backfilled (`auth_service.go:67`) | a failure in between leaves it, and it blocks every later session |
| `AlertsClosed` | closed alerts are not modified (`alert_service.go:14`) | a write prepared earlier reopens them |
| `AlertsBreach` | all overdue alerts are escalated (`alert_service.go:181`) | an alert resolved between mark and query, then reopened, is passed over |
| `AccessRoleChange` | after a role change the next request uses the new role (`user_service.go:62`) | a request with an older token caches the old role's permissions again, and requests with a new token get them too |
| `AuditShutdown` | shutdown processes the whole queue (`audit_service.go:93`) | the SLA checker panics on the closed channel and the process dies |

The section on proofs says under which conditions these promises do hold.

`BackfillExclusive` and `OrphanShutsCreation` are two sides of the UNIQUE column that holds the
placeholder. It serialises the creation of sessions of all accounts as a lock would, although
no comment says so; and nothing releases it when its owner fails between the INSERT
(`auth_service.go:71`) and the backfill (`auth_service.go:82`): from then on no login and no
refresh yields a token, until somebody repairs the table by hand. `AuthPlaceholder` shows
that this happens, `OrphanShutsCreation` how far it goes.

`CheckAdvances` is about the loop of `RunSLACheck`: while requests write the alerts it has read, its
list stays what the query returned, less what it has dealt with. What it may still miss
are alerts that were never on the list, or that it wrote without effect (`LossHasCause`).

`StaleHasCause` also decides between two texts about the same code: `rbac_service.go:136` says
that updating a role clears the cache of everybody affected, `admin_handler.go:82-83` that it
does not. It does: a set that is stale for no other reason has been overlooked by no
update, or is about to be cleared. The other reasons are spelled out in `Excused`: the set was
resolved for the role of an older token; from a query that failed, or while a role it had
already read was changed (the classical race of a cache that is filled after it was cleared); or
a query of the sweep failed, or the answer to the COMMIT was lost.

`AdministratorsOnlyDwindle` is what the rank check is worth. It compares the role given with
the caller's token, never with the role the other user has, so that equals can demote each other
and a demoted administrator can go on as long as his token lasts; all the same, nobody is raised to
the highest rank. It has two exceptions, recorded in `misjudged`: `RoleRank` takes a role
for the root when its query fails, and a role that does not exist yet has rank 0. The second needs
no failure: two requests of administrators suffice, one of which creates the role between the
rank check and the UPDATE of the other.

### Bounds

* Two request goroutines, beside the checker or the consumer. Each race found takes two
  requests, or one and a background goroutine. The proved invariants hold for any
  number.
* One user and one alert. Rows of different users meet only at the UNIQUE placeholder,
  which is shared by sessions of one user too; alerts meet only in the checker, whose
  loop treats its targets one by one. The proofs cover any number.
* Four sessions (a chain of three successors, or one with two branches and a fresh login);
  a lock threshold of two instead of five, an escalation limit of two instead of three:
  below, at and above the threshold are reached.
* `MaxTime` lets sessions expire, locks run out and deadlines pass, with an instant on
  each side of the boundary. In `AuthSessions` a session made at instant 0 expires at 1.
* In `Alerts`, alerts are created with High severity, updates may ask for Critical, and for
  the statuses Processing, Resolved and Closed; the others only add stages before these.
  Four requests are enough to assign, start, resolve and reopen.
* A channel of two with five entries: full, empty and dropping, with restarts between.
* In `Access` and `AccessRoleChange`, two users; in `AccessLiveness` three, one of whom does
  not exist at first. Three roles in a chain, as the migration has them (which has four), and
  room for one more: a role below a changed one, one that nobody has, and a new one above.
  One permission decides everything in `Access`; `AccessLiveness` has two.
* `MaxAsked` bounds the requests that change roles or users: two in `Access` and
  `AccessRoleChange`, so that two such changes overlap, and one in `AccessLiveness`, where it
  overlaps with checks, keys and tokens, which are not counted. With two, the graph
  is too large for TLC's liveness check to end within five minutes, even with two users. What
  two changes may do to each other is checked by `Access` (`StaleHasCause`,
  `GrantedBeforeUse`) and proved for any number of them (`StaleCorrect`, `GrantedCorrect`);
  that sweeps get on side by side is `AccessProofs!AdvanceCorrect`.
* `MaxFailures` and `EscalationLimit` saturate counters of which only the comparison with
  the threshold matters.

### Fairness

`AuthAccounts` and `AuthPlaceholder` assume weak fairness of each request's next statement:
a goroutine that can run does, and a statement returns, possibly with an error (there is
no lock held between statements that could keep it waiting). `Alerts` and
`AlertsBreach` assume it of the checker: the ticker fires for ever, and a check that began
goes on. `Audit` assumes it of the consumer, of `srv.Shutdown`, which has a timeout, and of
`Shutdown`'s wait. `AccessLiveness` assumes it of the next statement of each request; with failing
queries the sweep passes users over, which is why that run has none. No run assumes that
clients call, that the clock moves, that statements succeed, that a signal comes or that a
dead process is restarted.

That statements return is the limit of `ShutdownEnds` and `DrainAdvances`. The comment above
`Shutdown` (`audit_service.go:95-97`) is about the other case: "此方法没有超时保护。若数据库出现故障，
消费协程可能在关闭时长时间阻塞，导致进程无法在合理时间内退出。运维人员会直接 kill 进程，此时通道中未处理的条目
全部丢失": there is no timeout, a database that hangs blocks the consumer, and an operator
kills the process with what is still in the channel. A statement that fails is in the model,
and so is the killed process with its loss (`AcceptedAccounted`); how long a blocked
statement keeps `Shutdown` waiting is outside both properties.

## Proofs

The theorems have the form `Spec => []P`, or `Spec =>` an abstract specification or an action
property, some with a second hypothesis on the behaviour (see below), for every value of the constants that the
assumptions of the module allow: any sets of users, alerts and handlers, any finite number of authentication requests, any capacity, any
thresholds of at least one, any forest of roles whose parents come before their children.

| Theorem | Property | Inductive invariant |
| --- | --- | --- |
| `AuthProofs!TypeCorrect` | `TypeOK` | `TypeInv`: besides the types, a request under way has a user, one about to backfill has a session whose row exists, and rows have owners |
| `AuthProofs!RotationCorrect` | `PredecessorRevoked` | `RotationInv`: a refresh about to create has left its old session revoked, revocation is final, and no row, request or ghost names an id above `lastId` |
| `AuthProofs!PlaceholderCorrect` | `PlaceholderOwned` | the property itself, with `TypeInv` |
| `AuthProofs!BackfillCorrect`, `OrphanCorrect` | `BackfillExclusive`, `OrphanShutsCreation` | `SlotInv`: at most one row holds the placeholder, and it is either that of a request about to replace it or was left behind (lemma `SlotSteps` sorts the steps by what they do to placeholders) |
| `AuthProofs!RoomCorrect` | a request that is to create a session finds a row for it: the bound `MaxSessions` turns away new requests and cuts none short | `RoomInv`: the rows left are at least as many as the requests that will need one |
| `AuthProofs!SurvivorsCorrect` | `SurvivorsOverlapped` | `SurvivorInv`: the same of the requests under way: one that rests on old credentials after the change is finished was overlapped by it |
| `AuthProofs!LockCorrect` | `LockEngaged` | the property itself, with `TypeInv` |
| `AuthProofs!DisabledCorrect` | `DisabledLeavesByLockOrAdmin` | `TypeInv`; three kinds of statements write accounts (lemma `AccountSteps`) |
| `AuthProofs!FanOutCorrect` | `FanOutBounded` | `FanOutInv`: the successors of a session and the requests about to give it another one are together at most as many as there are requests; a session is redeemed only before its revocation, when `RotationInv` says that it has no successor |
| `AuthProofs!AdvanceCorrect` | `RequestsAdvance` | `TypeInv`; a case for each statement (lemma `ProceedAdvances`) |
| `AuthProofs!FaultlessCorrect` | `PlaceholderServed`, `SurvivorsServed`: the exemptions of `PlaceholderOwned` and `SurvivorsOverlapped` fall away where nothing fails | no request is recorded as abandoned or halted |
| `AlertsProofs!TypeCorrect` | `TypeOK` | the property itself |
| `AlertsProofs!ClosedAtCorrect`, `ResolvedAtCorrect` | `ClosedAtCoherent`, `ResolvedHasTimestamp` | `CoherenceInv`: every copy of a row in a request is coherent too; the checker's copies are neither resolved nor closed and carry no `closed_at` |
| `AlertsProofs!BreachCorrect` | `BreachedIsOverdue` | `BreachInv`: a marked copy belongs to an overdue alert |
| `AlertsProofs!LifecycleCorrect` | `FreshWritesFollowLifecycle` | `FreshInv`: a copy nobody has overtaken leads along the life cycle from the status the row still has |
| `AlertsProofs!DraftsCorrect` | `DraftsImplemented` | `TypeOK`: creation, preparing copies and writing them are the three abstract steps, all others stutter or drop drafts (lemma `StepDrafts`) |
| `AlertsProofs!LossCorrect` | `LossHasCause` | `MarkedCopies`: a copy nobody has overtaken carries the breach mark only if the row does |
| `AlertsProofs!CheckerCorrect` | `CheckerReady`: in its loop the checker always has a next target | `LoopInv`: it is in the loop exactly while it holds targets; among rows there is one of highest severity (lemma `MostSevere`) |
| `AlertsProofs!CheckCorrect` | `CheckAdvances` | `LoopInv` again; only the checker writes its list |
| `AuditProofs!TypeCorrect` | `TypeOK` | `TypeInv`: the consumer holds an entry exactly between receiving and storing it |
| `AuditProofs!DrainedCorrect` | `DrainedAtExit` | `PhaseInv`: a consumer that has returned left an empty channel, and returns only when it is closed |
| `AuditProofs!ChainCorrect` | `BreaksAreBlindRows` | `ChainInv`: between its two statements the consumer's hash is the last row's, or empty; one writer makes that stable |
| `AuditProofs!OrderCorrect` | `StoredInOrder` | `OrderInv`: table, hand and channel together are increasing and below the next number (lemma `IncreasingConcat`) |
| `AuditProofs!AccountCorrect` | `AcceptedAccounted` | `AccountInv`: the property place by place, and no entry is lost before it has a number; a new number is above all in use (`OrderInv`), and a process restarts with nothing in memory (`PhaseInv`) |
| `AuditProofs!VerifyCorrect` | `VerifyReportsFirstBlind` | none of its own: by `BreaksAreBlindRows` the broken rows of a window are its blind rows, and a nonempty set of naturals has a least element (lemma `LeastNatural`) |
| `AuditProofs!DrainCorrect`, `DrainBounded` | `DrainAdvances`, and a bound on what the consumer has left, in terms of the capacity | the types of channel and consumer |
| `AuditTrailProofs!TrailCorrect` | `Trail!Steps`, the safety part of `TrailImplemented` | with `AuditProofs`' invariants: each action of `Audit` is a step of `AuditTrail` or leaves trail and line alone |
| `SessionLifecycleProofs!LifecycleCorrect` | `LifecycleImplemented` | `LineageInv`: the session a request redeems has a row, and it belongs to the request's user; `AuthProofs`' invariants say that it is revoked by the time a successor is inserted |
| `AccessProofs!TypeCorrect` | `TypeOK` | `TypeInv`: besides the types, an admitted request has a user, one that resolves a role to read |
| `AccessProofs!GrantedCorrect` | `GrantedBeforeUse` | `GrantedInv`: what a request has gathered, and the permissions now carried by every role in a token, are in `granted` |
| `AccessProofs!AdministratorsCorrect` | `AdministratorsOnlyDwindle` | `RankInv`: unless a check was misjudged no role in use or in a token is above the highest one of the start; a request about to write has checked a rank below its caller's, or is doubtful |
| `AccessProofs!AdvanceCorrect` | `ChecksAndSweepsAdvance` | `BaseInv`: parents have lower ids; the rest is a case for each step (lemma `RequestAdvances`) |
| `AccessCacheProofs!StaleCorrect` | `StaleHasCause` | `StaleInv`: a resolution that was not disturbed has gathered exactly what the roles it has read give now, and has read them all when it is about to be stored |

`RolesProofs` has the lemmas about the forest they rest on: ancestors are ordered by their ids,
ancestors of an ancestor are ancestors, a new role changes neither the ancestors nor the rank of
those that exist (`AncestorsStep`, `AncestorsTransitive`, `CreateRoleFrame`).

The safety properties are not inductive by themselves, since a step of a request or of the
checker writes what an earlier step read: each strengthening says of the copies in flight
what the property says of the table.

### When the broken promises hold

Of the six promises that runs refute, four are safety properties, and a theorem says of each what
alone breaks it: under the hypothesis in the second column it holds for every value of the
constants.

| Theorem | Hypothesis | Then | Inductive invariant |
| --- | --- | --- | --- |
| `AuthProofs!SerialRotationCorrect` | `RefreshesSerialised`: no two refreshes of one session are under way together | `OneSuccessor` | `SerialInv`: a session has a successor or a request about to give it one, and one of them at most |
| `AlertsProofs!ClosedCorrect` | `OvertakenWrite` never happens: no copy is written that another write has made out of date | `ClosedStaysClosed` | that of `LifecycleCorrect`; no move of the life cycle leads away from Closed |
| `AuditProofs!ShutdownCorrect` | `CheckerPanics` never happens: the SLA checker does not log on the closed channel; no statement fails and nothing kills the process | `ShutdownKeepsEntries` | `KeptInv`: nothing accepted is lost and the process is not dead |
| `AccessCacheProofs!NewRoleCorrect` | `OldRoleStored` never happens: no resolution is cached for a role the user has no longer; no statement fails | `NextRequestUsesNewRole` | `RoleInv`: a user with a set of his old role is among the holders a handler is about to clear |

Two properties of passing runs have exemptions of their own, and theorems say when these are empty:

| Theorem | Hypothesis | Then | Inductive invariant |
| --- | --- | --- | --- |
| `AccessCacheProofs!FreshCorrect` | `OldRoleStored` and `DisturbedStored` never happen: nothing is cached for a role the user has no longer, or across a change of a role already read; no statement fails | `CacheFollowsTables`: a set that is not what the tables give is about to be cleared (`StaleHasCause` without `Excused`) | `StaleInv` and `RoleInv`, and that no cached set was disturbed |
| `AccessProofs!RankCheckCorrect` | `LateRole` and `RankQueryFails` never happen: no role comes into being between its rank check and the write, and `RoleRank`'s query of an existing role does not fail | there are never more `Administrators` (`AdministratorsOnlyDwindle` without `misjudged`), whatever else fails | `JudgedInv`: a request in doubt is about to give a role that is still not there |

The hypotheses pick behaviours of the code as it is and leave all other interleaving in them; the models
do not contain a mechanism that would enforce one. `OldRoleStored` covers two ways to the same end: a request
with an older token, and a check that reads the role before the change and stores its result after.
The other two of the six promises, `PlaceholderReplaced` and `BreachEscalated`, are liveness properties;
`FaultlessCorrect` and `LossCorrect` are their safety side.

### What is only model-checked

Fairness and ENABLED are out of the prover's reach. The liveness properties
`RequestsEnd`, `BreachEscalatedOrLost`, `ShutdownEnds` and
`InvalidationArrives`, and the fairness in `TrailImplemented`, are therefore only model-checked. The part of
each argument that is not about fairness is proved: a measure that the steps of
the request, of the consumer or of the checker reduce and nothing increases (`RequestsAdvance`,
`DrainAdvances`, `ChecksAndSweepsAdvance`, `CheckAdvances`), and for the checker that it has a next
step (`CheckerReady`). What remains is that a step
that can be taken is taken. Every invariant and action property of a passing run is a theorem.

## Not modelled

* Authentication with API keys, their scopes, expiry and `last_used_at`: `APIKeyAuth` is on no
  route. The rate limiter: the server does not use it.
* The permission, probation and row-filter checks of the alert handlers. They decide whether
  a request reaches the alert, and `Alerts` admits all that some caller could make.
* List queries and comments: no other operation reads what they produce.
* Titles, descriptions, sources, tags, device data: no control depends on them.
* HTTP answers, apart from whether a request is refused before it writes.
* The connection pool, the configuration, signatures and hashes as functions on bytes.
* `Auth`, `Access` and `Audit` in one state space: a token issued by `Auth` shows up in `Access`
  as `IssueToken`, which no status of an account prevents, and `Audit` takes entries
  from callers that are not told apart.

## What could come next

* The probation check of `Assign` over the alert life cycle, once some endpoint sets
  `is_probation`.
* `ApiKeys` with `Authenticate` once a route uses it.
