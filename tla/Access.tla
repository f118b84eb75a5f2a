-------------------------------- MODULE Access --------------------------------
(***************************************************************************)
(* Who may do what: RBACService with its cache of permissions by user, the *)
(* role ids the access tokens carry, and the operations behind permission  *)
(* checks that change roles, users and API keys.                           *)
(*                                                                         *)
(* A request is checked first: the user's cached set decides, or the role  *)
(* in the token is resolved level by level and the result is cached.  Then *)
(* it takes effect, and invalidates what it made stale.  One action is one *)
(* statement or one operation on the cache; a level of the resolution is   *)
(* one, because its first query reads a row that never changes, and the    *)
(* transaction that saves permissions is two, its DELETE and its COMMIT.   *)
(* The body of a request is read after the check, so its parameters are    *)
(* chosen when it takes effect.                                            *)
(***************************************************************************)
EXTENDS Roles, Sequences

CONSTANTS
    Users,         \* rows the users table has or may get
    NoUser,        \* "no user": an idle request
    Procs,         \* request goroutines
    UserWrite, RoleWrite, ApikeyManage,  \* user:write, role:write, apikey:manage
    SeedParent,    \* the roles the instance starts with: the parent of each,
    SeedDirect,    \* and the permissions each is given
    SeedRole,      \* role of each user the instance starts with, else NoRole
    Calls,         \* endpoints the clients of this instance use,
    Given,         \* and the sets of permissions they give to roles
    FaultsHappen,  \* whether statements fail and the process crashes
    MaxAsked       \* bound: changes of roles and users the clients ask for

ASSUME PermsAssumption ==
    /\ {UserWrite, RoleWrite, ApikeyManage} \subseteq Perms
    /\ NoUser \notin Users

Administration == {"updateRole", "createRole", "updateUser", "createUser"}
Endpoints == Administration \cup {"createKey", "revokeKey", "read"}

ASSUME CallsAssumption ==
    /\ Calls \subseteq Endpoints
    /\ Given \subseteq SUBSET Perms
    /\ FaultsHappen \in BOOLEAN
    /\ MaxAsked \in Nat

\* Ids grow from parent to child.
ASSUME SeedAssumption ==
    LET n == Len(SeedParent)
    IN  /\ SeedParent \in Seq(Nat) /\ n <= MaxRoles
        /\ \A r \in 1 .. n : SeedParent[r] < r
        /\ SeedDirect \in [1 .. n -> SUBSET Perms]
        /\ SeedRole \in [Users -> 0 .. n]

VARIABLES
    roleOf,    \* users.role_id, NoRole when there is no such user
    claims,    \* role ids in the access tokens of each user
    keys,      \* the api_keys table
    cached,    \* permCache.store: the users it has a set for,
    cache,     \* and the sets
    pc,        \* what each request does next
    req,       \* what each request remembers
    asked,     \* changes asked for so far, counted for the bound
    granted,   \* ghost: permissions a role in a token of the user has carried
    origin,    \* ghost: how each cached set came about
    missed,    \* ghost: users whose cached set an invalidation failed to reach
    misjudged  \* ghost: a role was given that its rank, read in time and without
               \* a failing query, would have kept from being given

tables == <<tree, direct, roleOf, keys>>
store == <<cached, cache>>
ghosts == <<granted, origin, missed, misjudged>>
vars == <<tables, claims, store, pc, req, asked, ghosts>>

ApiKey == INSTANCE ApiKeys

-----------------------------------------------------------------------------
Steps == Endpoints \cup
           {"idle", "resolve", "store", "savePermissions", "setRole", "insertUser",
            "listRoles", "sweep"}

\* disturbed: a query failed, or a role already read was changed since.
Origin == [claim: RoleIds \cup {NoRole}, disturbed: BOOLEAN]
NoOrigin == [claim |-> NoRole, disturbed |-> FALSE]

\* call: the endpoint; claim: the role in the token; acc: permissions gathered;
\* cur: the role to read next; late: permissions other requests gave the role that is
\* being saved since its DELETE; roles, holders: whose cache is yet to be cleared;
\* target, given: the user to change and his new role; doubtful (ghost): its rank came
\* from a query that failed or found no such role.
Request == [user: Users \cup {NoUser}, claim: RoleIds \cup {NoRole}, call: Steps,
            acc: SUBSET Perms, cur: RoleIds \cup {NoRole}, disturbed: BOOLEAN,
            late: SUBSET Perms,
            roles: SUBSET RoleIds, holders: SUBSET Users,
            target: Users \cup {NoUser}, given: RoleIds \cup {NoRole},
            doubtful: BOOLEAN]
Idle == [user |-> NoUser, claim |-> NoRole, call |-> "idle", acc |-> {},
         cur |-> NoRole, disturbed |-> FALSE, late |-> {}, roles |-> {}, holders |-> {},
         target |-> NoUser, given |-> NoRole, doubtful |-> FALSE]

TypeOK ==
    /\ RolesTypeOK
    /\ roleOf \in [Users -> RoleIds \cup {NoRole}]
    /\ claims \in [Users -> SUBSET RoleIds]
    /\ ApiKey!KeysTypeOK
    /\ cached \subseteq Users
    /\ cache \in [Users -> SUBSET Perms]
    /\ pc \in [Procs -> Steps]
    /\ req \in [Procs -> Request]
    /\ asked \in 0 .. MaxAsked
    /\ granted \in [Users -> SUBSET Perms]
    /\ origin \in [Users -> Origin]
    /\ missed \subseteq Users
    /\ misjudged \in BOOLEAN

SeedTree == [r \in RoleIds |-> IF r \in DOMAIN SeedParent THEN SeedParent[r] ELSE NoRole]

Init ==
    /\ lastRole = Len(SeedParent)
    /\ parent = SeedTree
    /\ direct = [r \in RoleIds |-> IF r \in DOMAIN SeedDirect THEN SeedDirect[r] ELSE {}]
    /\ roleOf = SeedRole
    /\ claims = [u \in Users |-> {SeedRole[u]} \ {NoRole}]
    /\ ApiKey!Init
    /\ cached = {}
    /\ cache = [u \in Users |-> {}]
    /\ pc = [p \in Procs |-> "idle"]
    /\ req = [p \in Procs |-> Idle]
    /\ asked = 0
    /\ granted = [u \in Users |-> IF SeedRole[u] = NoRole THEN {}
                                  ELSE Effective(SeedRole[u])]
    /\ origin = [u \in Users |-> NoOrigin]
    /\ missed = {}
    /\ misjudged = FALSE

Goto(p, step) == pc' = [pc EXCEPT ![p] = step]

\* The handler returns.
Finish(p) ==
    /\ Goto(p, "idle")
    /\ req' = [req EXCEPT ![p] = Idle]

\* Mutant: does not look whether there is such a row.
IssueToken_Unchecked(u) ==
    /\ claims' = [claims EXCEPT ![u] = @ \cup {roleOf[u]}]
    /\ granted' = [granted EXCEPT ![u] = @ \cup Effective(roleOf[u])]
    /\ UNCHANGED <<tables, store, pc, req, asked, origin, missed, misjudged>>

\* A login or refresh issues an access token for the role the users row has.
IssueToken(u) ==
    /\ roleOf[u] # NoRole
    /\ claims' = [claims EXCEPT ![u] = @ \cup {roleOf[u]}]
    /\ granted' = [granted EXCEPT ![u] = @ \cup Effective(roleOf[u])]
    /\ UNCHANGED <<tables, store, pc, req, asked, origin, missed, misjudged>>

-----------------------------------------------------------------------------
(* The permission check *)

\* What the routes and handlers ask for.  A read ends with its check here: nothing
\* that follows it changes the state.
Allowed(call, perms) ==
    CASE call \in {"updateRole", "createRole"} -> RoleWrite \in perms
      [] call \in {"updateUser", "createUser"} -> UserWrite \in perms
      [] call \in {"createKey", "revokeKey"} -> ApikeyManage \in perms
      [] OTHER -> FALSE

\* Mutant: the role comes from the request instead of the token.
Arrive_AnyRole(p, u, c, call) ==
    /\ pc[p] = "idle"
    /\ c \in Existing /\ claims[u] # {}
    /\ call \in Calls
    /\ IF call \in Administration THEN asked < MaxAsked /\ asked' = asked + 1
                                  ELSE UNCHANGED asked
    /\ UNCHANGED <<tables, claims, store, ghosts>>

\* A request with a token for role c comes in.
Arrive(p, u, c, call) ==
    /\ pc[p] = "idle"
    /\ c \in claims[u]
    /\ call \in Calls
    /\ IF call \in Administration THEN asked < MaxAsked /\ asked' = asked + 1
                                  ELSE UNCHANGED asked
    /\ UNCHANGED <<tables, claims, store, ghosts>>

\* The cache has the user: its set decides, whatever role the token names.
CheckCached(p, u, c, call) ==
    /\ u \in cached
    /\ Allowed(call, cache[u])
    /\ Arrive(p, u, c, call)
    /\ Goto(p, call)
    /\ req' = [req EXCEPT ![p] = [Idle EXCEPT !.user = u, !.claim = c]]

CheckUncached(p, u, c, call) ==
    /\ u \notin cached
    /\ Arrive(p, u, c, call)
    /\ Goto(p, "resolve")
    /\ req' = [req EXCEPT ![p] = [Idle EXCEPT !.user = u, !.claim = c, !.call = call,
                                              !.cur = c]]

\* The cached set refuses, or the request is a read.
CheckRefused(p, u, c, call) ==
    /\ u \in cached
    /\ ~Allowed(call, cache[u])
    /\ pc[p] = "idle" /\ c \in claims[u] /\ call \in Calls
    /\ UNCHANGED vars

\* One level of resolveInheritedPerms: the role's own permissions, then its parent.
Resolve(p) ==
    LET r == req[p].cur
    IN  /\ pc[p] = "resolve"
        /\ req' = [req EXCEPT ![p].acc = @ \cup direct[r], ![p].cur = parent[r]]
        /\ Goto(p, IF parent[r] = NoRole THEN "store" ELSE "resolve")
        /\ UNCHANGED <<tables, claims, store, asked, ghosts>>

\* Mutant: starts over with the role in the token.
ResolveFails_StartsOver(p) ==
    /\ FaultsHappen
    /\ pc[p] = "resolve"
    /\ req' = [req EXCEPT ![p].acc = {}, ![p].cur = req[p].claim]
    /\ UNCHANGED <<tables, claims, store, pc, asked, ghosts>>

\* A query fails: this level and those above it yield nothing, and no error.
ResolveFails(p) ==
    /\ FaultsHappen
    /\ pc[p] = "resolve"
    /\ req' = [req EXCEPT ![p].disturbed = TRUE]
    /\ Goto(p, "store")
    /\ UNCHANGED <<tables, claims, store, asked, ghosts>>

\* The result is cached for the user, and decides.
Store(p) ==
    LET u == req[p].user
        perms == req[p].acc
    IN  /\ pc[p] = "store"
        /\ cached' = cached \cup {u}
        /\ cache' = [cache EXCEPT ![u] = perms]
        /\ origin' = [origin EXCEPT ![u] = [claim |-> req[p].claim,
                                            disturbed |-> req[p].disturbed]]
        /\ missed' = missed \ {u}
        /\ IF Allowed(req[p].call, perms)
           THEN /\ Goto(p, req[p].call)
                /\ req' = [req EXCEPT ![p] = [Idle EXCEPT !.user = u,
                                                          !.claim = req[p].claim]]
           ELSE Finish(p)
        /\ UNCHANGED <<tables, claims, asked, granted, misjudged>>

-----------------------------------------------------------------------------
(* Clearing the cache *)

\* Go on clearing for the holders already found, then for the roles left.
Sweep(p, roles, holders) ==
    IF roles = {} /\ holders = {}
    THEN Finish(p)
    ELSE /\ Goto(p, "sweep")
         /\ req' = [req EXCEPT ![p] = [Idle EXCEPT !.roles = roles,
                                                   !.holders = holders]]

Holders(r) == {u \in Users : roleOf[u] = r}

\* Mutant: stops at the first role nobody has.
FindUsersWithRole_Break(p) ==
    /\ pc[p] = "sweep" /\ req[p].holders = {}
    /\ \E r \in req[p].roles :
         Sweep(p, IF Holders(r) = {} THEN {} ELSE req[p].roles \ {r}, Holders(r))
    /\ UNCHANGED <<tables, claims, store, asked, ghosts>>

FindUsersWithRole(p) ==
    /\ pc[p] = "sweep" /\ req[p].holders = {}
    /\ \E r \in req[p].roles : Sweep(p, req[p].roles \ {r}, Holders(r))
    /\ UNCHANGED <<tables, claims, store, asked, ghosts>>

\* The query fails: the loop goes on with the next role.
FindUsersFails(p) ==
    /\ FaultsHappen
    /\ pc[p] = "sweep" /\ req[p].holders = {}
    /\ \E r \in req[p].roles : /\ Sweep(p, req[p].roles \ {r}, {})
                               /\ missed' = missed \cup (cached \cap Holders(r))
    /\ UNCHANGED <<tables, claims, store, asked, granted, origin, misjudged>>

Invalidate(p) ==
    /\ pc[p] = "sweep"
    /\ \E u \in req[p].holders :
         /\ cached' = cached \ {u}
         /\ cache' = [cache EXCEPT ![u] = {}]
         /\ origin' = [origin EXCEPT ![u] = NoOrigin]
         /\ missed' = missed \ {u}
         /\ Sweep(p, req[p].roles, req[p].holders \ {u})
    /\ UNCHANGED <<tables, claims, asked, granted, misjudged>>

-----------------------------------------------------------------------------
(* PUT /admin/roles/:id/permissions and POST /admin/roles *)

\* Roles the resolution of request p has read.
AlreadyRead(p) ==
    Ancestors(req[p].claim)
        \ (IF req[p].cur = NoRole THEN {} ELSE Ancestors(req[p].cur))

\* Ghost: a resolution under way has read role r before it changes.
Disturbed(q, r) ==
    req[q].disturbed \/ (pc[q] \in {"resolve", "store"} /\ r \in AlreadyRead(q))

\* What the DELETE of another request does not see when S has been inserted for r.
Missing(q, r, S) ==
    req[q].late \cup (IF pc[q] = "savePermissions" /\ r \in req[q].roles THEN S ELSE {})

\* What the commit of S for role r means to the requests under way.
Overtaken(r, S) ==
    [q \in Procs |-> [req[q] EXCEPT !.disturbed = Disturbed(q, r),
                                    !.late = Missing(q, r, S)]]

\* Ghost: what the commit gives to those who have a token for a role below r.
Granting(r, S) ==
    [u \in Users |-> granted[u] \cup
       (IF \E c \in claims[u] : r \in Ancestors(c) THEN S ELSE {})]

\* BEGIN and the DELETE, which sees the rows committed before it.
DeletePermissions(p, r) ==
    /\ pc[p] = "updateRole"
    /\ Goto(p, "savePermissions")
    /\ req' = [req EXCEPT ![p] = [Idle EXCEPT !.roles = {r}]]
    /\ UNCHANGED <<tables, claims, store, asked, ghosts>>

\* The INSERTs and the COMMIT.
UpdateRole(p, r, S) ==
    /\ pc[p] = "savePermissions" /\ r \in req[p].roles
    /\ SavePermissions(r, S, req[p].late)
    /\ granted' = Granting(r, S)
    /\ Goto(p, "listRoles")
    /\ req' = [Overtaken(r, S) EXCEPT ![p] = [Idle EXCEPT !.roles = {r}]]
    /\ UNCHANGED <<roleOf, keys, claims, store, asked, origin, missed, misjudged>>

\* The COMMIT takes effect and its answer is lost: the service returns the error.
UpdateRoleUnanswered(p, r, S) ==
    /\ FaultsHappen
    /\ pc[p] = "savePermissions" /\ r \in req[p].roles
    /\ SavePermissions(r, S, req[p].late)
    /\ granted' = Granting(r, S)
    /\ missed' = missed \cup
                   (cached \cap UNION {Holders(x) : x \in collectDescendantRoles(r)})
    /\ Goto(p, "idle")
    /\ req' = [Overtaken(r, S) EXCEPT ![p] = Idle]
    /\ UNCHANGED <<roleOf, keys, claims, store, asked, origin, misjudged>>

\* ListAll, and the descendants found in it.
ListRoles(p) ==
    /\ pc[p] = "listRoles"
    /\ Sweep(p, UNION {collectDescendantRoles(r) : r \in req[p].roles}, {})
    /\ UNCHANGED <<tables, claims, store, asked, ghosts>>

\* ListAll fails: the holders of the role itself are all that is left.
ListRolesFails(p) ==
    LET below == (UNION {collectDescendantRoles(r) : r \in req[p].roles}) \ req[p].roles
    IN  /\ FaultsHappen
        /\ pc[p] = "listRoles"
        /\ Sweep(p, req[p].roles, {})
        /\ missed' = missed \cup (cached \cap UNION {Holders(x) : x \in below})
        /\ UNCHANGED <<tables, claims, store, asked, granted, origin, misjudged>>

InsertRole(p, above) ==
    /\ pc[p] = "createRole"
    /\ CreateRole(above)
    /\ Finish(p)
    /\ UNCHANGED <<roleOf, keys, claims, store, asked, ghosts>>

-----------------------------------------------------------------------------
(* PUT /users/:id and POST /users, when they give a role *)

\* Mutant: lets equals pass.
MayGive_Equal(p, r) == RoleRank(r) <= RoleRank(req[p].claim)

\* The rank of the role in the caller's token is above that of the role given.  The
\* rank of the role the other user has now is not looked at.
MayGive(p, r) == RoleRank(r) < RoleRank(req[p].claim)

\* The checks before the write; the role need not exist, and has rank 0 then.
Give(p, t, r, doubtful) ==
    /\ \/ pc[p] = "updateUser" /\ t \in Users \ {req[p].user} /\ Goto(p, "setRole")
       \/ pc[p] = "createUser" /\ t = NoUser /\ Goto(p, "insertUser")
    /\ req' = [req EXCEPT ![p].target = t, ![p].given = r, ![p].doubtful = doubtful]
    /\ UNCHANGED <<tables, claims, store, asked, ghosts>>

CheckRank(p, t, r) == Give(p, t, r, r \notin Existing) /\ MayGive(p, r)

\* RoleRank stops where a query fails, and takes that role for the root.
CheckRankFails(p, t, r) ==
    /\ FaultsHappen
    /\ Give(p, t, r, TRUE)
    /\ RoleRank(req[p].claim) > 0

\* users.role_id refers to roles: the role has to exist by now.
SetRole(p, t) ==
    LET r == req[p].given
    IN  /\ r \in Existing
        /\ roleOf' = [roleOf EXCEPT ![t] = r]
        /\ misjudged' = (misjudged \/ (req[p].doubtful /\ ~MayGive(p, r)))
        /\ UNCHANGED <<tree, direct, keys, claims, store, asked, granted, origin>>

UpdateUser(p) ==
    LET t == req[p].target
    IN  /\ pc[p] = "setRole"
        /\ roleOf[t] # NoRole
        /\ SetRole(p, t)
        /\ Sweep(p, {}, {t})
        /\ UNCHANGED missed

\* The UPDATE takes effect and its answer is lost: nothing is invalidated.
UpdateUserUnanswered(p) ==
    LET t == req[p].target
    IN  /\ FaultsHappen
        /\ pc[p] = "setRole"
        /\ roleOf[t] # NoRole
        /\ SetRole(p, t)
        /\ missed' = missed \cup (cached \cap {t})
        /\ Finish(p)

CreateUser(p, t) ==
    /\ pc[p] = "insertUser"
    /\ roleOf[t] = NoRole
    /\ SetRole(p, t)
    /\ Finish(p)
    /\ UNCHANGED missed

-----------------------------------------------------------------------------
(* POST and DELETE /apikeys *)

CreateKey(p) ==
    /\ pc[p] = "createKey"
    /\ ApiKey!Create(req[p].user)
    /\ Finish(p)
    /\ UNCHANGED <<tree, direct, roleOf, claims, store, asked, ghosts>>

RevokeKey(p, k) ==
    /\ pc[p] = "revokeKey"
    /\ ApiKey!Revoke(k, req[p].user)
    /\ Finish(p)
    /\ UNCHANGED <<tree, direct, roleOf, claims, store, asked, ghosts>>

-----------------------------------------------------------------------------
\* The request's parameters are refused, or its statement fails without effect.
NoEffect(p) ==
    /\ pc[p] \in Endpoints \cup {"savePermissions", "setRole", "insertUser"}
    /\ Finish(p)
    /\ UNCHANGED <<tables, claims, store, asked, ghosts>>

\* The process dies and restarts: the cache and the requests are gone.
Crash ==
    /\ FaultsHappen
    /\ pc' = [p \in Procs |-> "idle"]
    /\ req' = [p \in Procs |-> Idle]
    /\ cached' = {}
    /\ cache' = [u \in Users |-> {}]
    /\ origin' = [u \in Users |-> NoOrigin]
    /\ missed' = {}
    /\ UNCHANGED <<tables, claims, asked, granted, misjudged>>

\* What the server itself runs once a request has come in.
Proceed(p) ==
    \/ Resolve(p) \/ Store(p)
    \/ \E r \in RoleIds : DeletePermissions(p, r)
    \/ \E r \in RoleIds, S \in Given : UpdateRole(p, r, S)
    \/ ListRoles(p) \/ FindUsersWithRole(p) \/ Invalidate(p)
    \/ \E above \in RoleIds \cup {NoRole} : InsertRole(p, above)
    \/ \E t \in Users \cup {NoUser}, r \in RoleIds : CheckRank(p, t, r)
    \/ UpdateUser(p)
    \/ \E t \in Users : CreateUser(p, t)
    \/ CreateKey(p)
    \/ \E k \in Users : RevokeKey(p, k)
    \/ NoEffect(p)

Fail(p) ==
    \/ ResolveFails(p)
    \/ \E r \in RoleIds, S \in Given : UpdateRoleUnanswered(p, r, S)
    \/ ListRolesFails(p) \/ FindUsersFails(p)
    \/ \E t \in Users \cup {NoUser}, r \in RoleIds : CheckRankFails(p, t, r)
    \/ UpdateUserUnanswered(p)

Next ==
    \/ \E u \in Users : IssueToken(u)
    \/ \E p \in Procs, u \in Users, c \in RoleIds, call \in Calls :
         \/ CheckCached(p, u, c, call)
         \/ CheckUncached(p, u, c, call)
         \/ CheckRefused(p, u, c, call)
    \/ \E p \in Procs : Proceed(p) \/ Fail(p)
    \/ Crash

Spec == Init /\ [][Next]_vars

\* A request that has come in executes its next statement, or fails at it.
FairSpec == Spec /\ \A p \in Procs : WF_vars(Proceed(p))

-----------------------------------------------------------------------------
(* Properties *)

\* An invalidation that is under way will still come to user u.
WillReach(p, u) ==
    \/ pc[p] = "listRoles" /\ req[p].roles \cap Ancestors(roleOf[u]) # {}
    \/ pc[p] = "sweep" /\ (roleOf[u] \in req[p].roles \/ u \in req[p].holders)

Stale(u) == u \in cached /\ cache[u] # Effective(roleOf[u])

\* Resolved for the role of an older token, from a query that failed or across a
\* change of a role already read, or passed over by an invalidation that failed.
Excused(u) ==
    \/ origin[u].claim # roleOf[u]
    \/ origin[u].disturbed
    \/ u \in missed

\* A cached set that is not what the tables say has one of these causes, or is about
\* to be cleared: UpdateRolePermissions (rbac_service.go:136) forgets no descendant
\* role and no holder, however checks, role changes and other updates interleave.
StaleHasCause ==
    \A u \in Users : Stale(u) => Excused(u) \/ \E p \in Procs : WillReach(p, u)

\* A cached permission, and one that was used to get an API key, was at some time
\* carried by a role named in one of the user's own tokens, although the levels of
\* the role are read at different times and the set may be older than the tables.
GrantedBeforeUse ==
    \A u \in Users :
        /\ u \in cached => cache[u] \subseteq granted[u]
        /\ keys[u] # "none" => ApikeyManage \in granted[u]

\* Those whose role is as high as any that a user of the instance started with.
SeedRanks == {RankIn(SeedTree, SeedRole[u]) : u \in {v \in Users : SeedRole[v] # NoRole}}
IsTop(r) == r # NoRole /\ \A n \in SeedRanks : n <= RoleRank(r)
Administrators == {u \in Users : IsTop(roleOf[u])}

\* The highest rank is given to nobody (rbac_service.go:114): with new roles below it,
\* old tokens and demotions, which nothing prevents among equals, there are only ever
\* fewer users who have it, unless a rank came out too low because a query failed or
\* because the role was created between the rank check and the write.
AdministratorsOnlyDwindle ==
    [][misjudged' \/ Administrators' \subseteq Administrators]_vars

\* A cached set that is stale for no other reason than an invalidation under way does
\* not stay: the sweep over roles and holders gets to it.
InvalidationArrives ==
    \A u \in Users : (Stale(u) /\ ~Excused(u)) ~> (~Stale(u) \/ Excused(u))

\* The order in which a request goes through its steps.
Stage(step) ==
    CASE step = "resolve" -> 1
      [] step = "store" -> 2
      [] step \in Endpoints -> 3
      [] step = "savePermissions" -> 4
      [] step \in {"setRole", "insertUser", "listRoles"} -> 5
      [] step = "sweep" -> 6
      [] step = "idle" -> 7

\* Request p has a stage behind it, a role to read with a lower id, a role less to
\* look for holders of, or, with the same roles, a holder less to clear.
Advances(p) ==
    \/ Stage(pc[p]) < Stage(pc'[p])
    \/ pc[p] = "resolve" /\ pc'[p] = "resolve" /\ req'[p].cur < req[p].cur
    \/ /\ pc[p] = "sweep" /\ pc'[p] = "sweep"
       /\ req'[p].roles \subseteq req[p].roles
       /\ req'[p].roles = req[p].roles => req'[p].holders \subseteq req[p].holders
       /\ \/ req'[p].roles # req[p].roles
          \/ req'[p].holders # req[p].holders

Stays(p) ==
    /\ pc'[p] = pc[p] /\ req'[p].cur = req[p].cur
    /\ req'[p].roles = req[p].roles /\ req'[p].holders = req[p].holders

\* Checks and sweeps come to an end, and the visited set of resolveInheritedPerms
\* (rbac_service.go:82) never cuts one short: however roles are created, changed and
\* given meanwhile and whatever fails, each step of a request takes it further, and
\* no step of another one sets it back.
ChecksAndSweepsAdvance ==
    [][\A p \in Procs :
         /\ pc[p] # "idle" => Stays(p) \/ Advances(p)
         /\ Proceed(p) => Advances(p)]_vars

\* What the source promises (the run that checks it finds it violated).

\* user_service.go:62, "clear the user's cache when his role changes, so that the next
\* request uses the permissions of the new role": once the change is done, what is
\* cached for the user was resolved for the role he has.
NextRequestUsesNewRole ==
    \A u \in Users :
        u \in cached /\ (\A p \in Procs : ~WillReach(p, u))
            => origin[u].claim = roleOf[u]
=============================================================================
