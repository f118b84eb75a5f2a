----------------------------- MODULE AccessProofs -----------------------------
(* Proofs about Access, for every value of its constants: any tree of roles, *)
(* any number of users and requests, with and without failures.              *)
EXTENDS Access, RolesProofs

-----------------------------------------------------------------------------
(* Type correctness *)

\* The steps at which a request has forgotten who sent it.
Anonymous == {"idle", "savePermissions", "listRoles", "sweep"}

\* The caller of the request is known.
Admitted(p) == pc[p] \notin Anonymous

\* TypeOK is not inductive: a statement reads the row its request names.
RequestsOK ==
    \A p \in Procs :
        /\ Admitted(p) => req[p].user \in Users
        /\ pc[p] = "resolve" => req[p].cur \in RoleIds
        /\ pc[p] = "setRole" => req[p].target \in Users

TypeInv == TypeOK /\ RequestsOK

LEMMA IdleType == Idle \in Request
BY DEF Idle, Request, Steps

LEMMA EffectiveType ==
  ASSUME RolesTypeOK, NEW r \in RoleIds
  PROVE  Effective(r) \subseteq Perms
<1>1. Ancestors(r) \subseteq RoleIds
  BY MaxRolesAssumption, AncestorsBelow DEF Ancestors, RoleIds
<1> QED
  BY <1>1 DEF Effective, RolesTypeOK

\* A request goes to another step with what it remembers then.
LEMMA MoveType ==
  ASSUME TypeInv, NEW p \in Procs, NEW step \in Steps, NEW r \in Request,
         pc' = [pc EXCEPT ![p] = step], req' = [req EXCEPT ![p] = r],
         step \notin Anonymous => r.user \in Users,
         step = "resolve" => r.cur \in RoleIds,
         step = "setRole" => r.target \in Users
  PROVE  pc' \in [Procs -> Steps] /\ req' \in [Procs -> Request] /\ RequestsOK'
<1>1. pc' \in [Procs -> Steps] /\ req' \in [Procs -> Request]
  BY DEF TypeInv, TypeOK
<1>2. pc'[p] = step /\ req'[p] = r
      /\ \A q \in Procs \ {p} : pc'[q] = pc[q] /\ req'[q] = req[q]
  BY DEF TypeInv, TypeOK
<1> QED
  BY <1>1, <1>2 DEF TypeInv, RequestsOK, Admitted, Anonymous

LEMMA FinishType ==
  ASSUME TypeInv, NEW p \in Procs, Finish(p)
  PROVE  pc' \in [Procs -> Steps] /\ req' \in [Procs -> Request] /\ RequestsOK'
BY MoveType, IdleType DEF Finish, Goto, Steps, Anonymous

LEMMA SweepType ==
  ASSUME TypeInv, NEW p \in Procs, NEW roles \in SUBSET RoleIds,
         NEW holders \in SUBSET Users, Sweep(p, roles, holders)
  PROVE  pc' \in [Procs -> Steps] /\ req' \in [Procs -> Request] /\ RequestsOK'
<1>1. CASE Finish(p)
  BY <1>1, FinishType
<1>2. CASE /\ Goto(p, "sweep")
           /\ req' = [req EXCEPT ![p] = [Idle EXCEPT !.roles = roles,
                                                     !.holders = holders]]
  <2>1. [Idle EXCEPT !.roles = roles, !.holders = holders] \in Request
    BY IdleType DEF Request, Idle
  <2> QED
    BY <1>2, <2>1, MoveType DEF Goto, Steps, Anonymous
<1> QED
  BY <1>1, <1>2 DEF Sweep

LEMMA SweepRolesType ==
  ASSUME TypeInv, NEW p \in Procs, NEW roles \in SUBSET RoleIds, Sweep(p, roles, {})
  PROVE  pc' \in [Procs -> Steps] /\ req' \in [Procs -> Request] /\ RequestsOK'
<1>1. {} \in SUBSET Users
  OBVIOUS
<1> QED
  BY <1>1, SweepType

LEMMA GiveType ==
  ASSUME TypeInv, NEW p \in Procs, NEW t \in Users \cup {NoUser}, NEW r \in RoleIds,
         NEW doubtful \in BOOLEAN, Give(p, t, r, doubtful)
  PROVE  TypeInv'
<1> DEFINE new == [req[p] EXCEPT !.target = t, !.given = r, !.doubtful = doubtful]
<1>1. req[p] \in Request /\ req[p].user \in Users
  BY DEF Give, TypeInv, TypeOK, RequestsOK, Admitted, Anonymous
<1>2. new \in Request /\ new.user \in Users /\ new.target = t
  BY <1>1 DEF Request
<1>3. req' = [req EXCEPT ![p] = new]
  BY DEF Give, TypeInv, TypeOK
<1> HIDE DEF new
<1>4. PICK step \in {"setRole", "insertUser"} :
         /\ pc' = [pc EXCEPT ![p] = step]
         /\ step = "setRole" => t \in Users
  BY DEF Give, Goto
<1>5. pc' \in [Procs -> Steps] /\ req' \in [Procs -> Request] /\ RequestsOK'
  BY <1>2, <1>3, <1>4, MoveType DEF Steps
<1> QED
  BY <1>5 DEF Give, TypeInv, TypeOK, RolesTypeOK, tables, tree, store, ghosts,
              ApiKey!KeysTypeOK

\* Two records of a request that differ in the ghost field and in late at most.
SameBut(a, b) ==
    /\ a.user = b.user /\ a.claim = b.claim /\ a.call = b.call
    /\ a.acc = b.acc /\ a.cur = b.cur
    /\ a.roles = b.roles /\ a.holders = b.holders
    /\ a.target = b.target /\ a.given = b.given /\ a.doubtful = b.doubtful

\* A commit touches requests of others only in what is said about them, and in what
\* their own DELETE has not seen.
LEMMA OvertakenType ==
  ASSUME TypeInv, NEW r \in RoleIds, NEW S \in SUBSET Perms
  PROVE  /\ Overtaken(r, S) \in [Procs -> Request]
         /\ \A q \in Procs : /\ SameBut(Overtaken(r, S)[q], req[q])
                             /\ Overtaken(r, S)[q].disturbed = Disturbed(q, r)
<1>1. ASSUME NEW q \in Procs, NEW b \in BOOLEAN, NEW l \in SUBSET Perms,
             NEW new, new = [req[q] EXCEPT !.disturbed = b, !.late = l]
      PROVE  new \in Request /\ SameBut(new, req[q]) /\ new.disturbed = b
  <2>1. req[q] \in Request
    BY DEF TypeInv, TypeOK
  <2>2. new \in Request /\ new.disturbed = b
    BY <1>1, <2>1 DEF Request
  <2> QED
    BY <1>1, <2>1, <2>2 DEF Request, SameBut
<1>2. ASSUME NEW q \in Procs
      PROVE  Disturbed(q, r) \in BOOLEAN /\ Missing(q, r, S) \in SUBSET Perms
  <2>1. req[q].disturbed \in BOOLEAN /\ req[q].late \subseteq Perms
    BY <1>2 DEF TypeInv, TypeOK, Request
  <2> QED
    BY <2>1 DEF Disturbed, Missing
<1>3. ASSUME NEW q \in Procs
      PROVE  /\ Overtaken(r, S)[q] \in Request
             /\ SameBut(Overtaken(r, S)[q], req[q])
             /\ Overtaken(r, S)[q].disturbed = Disturbed(q, r)
  <2>1. Overtaken(r, S)[q]
           = [req[q] EXCEPT !.disturbed = Disturbed(q, r), !.late = Missing(q, r, S)]
    BY DEF Overtaken
  <2>2. PICK b \in BOOLEAN : b = Disturbed(q, r)
    BY <1>2
  <2>3. PICK l \in SUBSET Perms : l = Missing(q, r, S)
    BY <1>2
  <2>4. Overtaken(r, S)[q] = [req[q] EXCEPT !.disturbed = b, !.late = l]
    BY <2>1, <2>2, <2>3, Zenon
  <2> QED
    BY <1>1, <2>2, <2>4, Zenon
<1>4. DOMAIN Overtaken(r, S) = Procs
      /\ Overtaken(r, S) = [q \in Procs |-> Overtaken(r, S)[q]]
  BY DEF Overtaken
<1>5. Overtaken(r, S) \in [Procs -> Request]
  BY <1>3, <1>4, Zenon
<1> QED
  BY <1>3, <1>5

LEMMA CommitType ==
  ASSUME TypeInv, NEW p \in Procs, NEW r \in RoleIds, NEW S \in SUBSET Perms,
         NEW step \in {"idle", "listRoles"}, NEW new \in Request,
         SavePermissions(r, S, req[p].late), granted' = Granting(r, S),
         Goto(p, step), req' = [Overtaken(r, S) EXCEPT ![p] = new]
  PROVE  /\ RolesTypeOK' /\ granted' \in [Users -> SUBSET Perms]
         /\ pc' \in [Procs -> Steps] /\ req' \in [Procs -> Request] /\ RequestsOK'
         /\ pc'[p] = step /\ req'[p] = new
         /\ \A q \in Procs \ {p} : /\ pc'[q] = pc[q] /\ SameBut(req'[q], req[q])
                                   /\ req'[q].disturbed = Disturbed(q, r)
<1>1. RolesTypeOK'
  BY DEF SavePermissions, TypeInv, TypeOK, RolesTypeOK, tree
<1>2. granted' \in [Users -> SUBSET Perms]
  BY DEF Granting, TypeInv, TypeOK
<1>3. pc' \in [Procs -> Steps] /\ req' \in [Procs -> Request]
  BY OvertakenType DEF Goto, Steps, TypeInv, TypeOK
<1>4. /\ pc'[p] = step /\ req'[p] = new
      /\ \A q \in Procs \ {p} : /\ pc'[q] = pc[q] /\ SameBut(req'[q], req[q])
                                /\ req'[q].disturbed = Disturbed(q, r)
  <2>1. pc'[p] = step /\ \A q \in Procs \ {p} : pc'[q] = pc[q]
    BY DEF Goto, TypeInv, TypeOK
  <2>2. req'[p] = new /\ \A q \in Procs \ {p} : req'[q] = Overtaken(r, S)[q]
    BY OvertakenType
  <2>3. ASSUME NEW q \in Procs \ {p}
        PROVE  SameBut(req'[q], req[q]) /\ req'[q].disturbed = Disturbed(q, r)
    <3>1. /\ SameBut(Overtaken(r, S)[q], req[q])
          /\ Overtaken(r, S)[q].disturbed = Disturbed(q, r)
      BY OvertakenType
    <3>2. req'[q] = Overtaken(r, S)[q]
      BY <2>2
    <3> QED
      BY <3>1, <3>2, Zenon
  <2> QED
    BY <2>1, <2>2, <2>3
<1>5. RequestsOK'
  BY <1>4 DEF TypeInv, RequestsOK, Admitted, Anonymous, SameBut
<1> QED
  BY <1>1, <1>2, <1>3, <1>4, <1>5

\* The DELETE moves one request and changes nothing that others can see yet.
LEMMA DeleteFacts ==
  ASSUME TypeInv, NEW p \in Procs, NEW r \in RoleIds, DeletePermissions(p, r)
  PROVE  /\ pc[p] = "updateRole" /\ pc'[p] = "savePermissions"
         /\ \A q \in Procs \ {p} : pc'[q] = pc[q] /\ req'[q] = req[q]
         /\ pc' \in [Procs -> Steps] /\ req' \in [Procs -> Request] /\ RequestsOK'
         /\ UNCHANGED <<tables, claims, store, asked, ghosts>>
<1>1. [Idle EXCEPT !.roles = {r}] \in Request
  BY IdleType DEF Request, Idle
<1>2. pc' \in [Procs -> Steps] /\ req' \in [Procs -> Request] /\ RequestsOK'
  BY <1>1, MoveType DEF DeletePermissions, Goto, Steps, Anonymous
<1>3. /\ pc'[p] = "savePermissions"
      /\ \A q \in Procs \ {p} : pc'[q] = pc[q] /\ req'[q] = req[q]
  BY DEF DeletePermissions, Goto, TypeInv, TypeOK
<1> QED
  BY <1>2, <1>3 DEF DeletePermissions

LEMMA InitType == Init => TypeInv
<1> SUFFICES ASSUME Init PROVE TypeInv
  OBVIOUS
<1> USE MaxRolesAssumption
<1> DEFINE n == Len(SeedParent)
<1>1. n \in 0 .. MaxRoles /\ DOMAIN SeedParent = 1 .. n
  BY SeedAssumption
<1>2. \A r \in 1 .. n : SeedParent[r] \in Nat /\ SeedParent[r] < r
  BY SeedAssumption
<1>3. \A r \in 1 .. n : SeedParent[r] \in RoleIds \cup {NoRole}
  BY <1>1, <1>2 DEF RoleIds, NoRole
<1>4. SeedTree \in [RoleIds -> RoleIds \cup {NoRole}]
  BY <1>1, <1>3 DEF SeedTree
<1>5. SeedDirect \in [1 .. n -> SUBSET Perms] /\ SeedRole \in [Users -> 0 .. n]
  BY SeedAssumption
<1>6. RolesTypeOK
  BY <1>1, <1>4, <1>5 DEF Init, RolesTypeOK
<1>7. roleOf \in [Users -> RoleIds \cup {NoRole}]
  BY <1>1, <1>5 DEF Init, RoleIds, NoRole
<1>8. claims \in [Users -> SUBSET RoleIds]
  BY <1>7 DEF Init
<1>9. granted \in [Users -> SUBSET Perms]
  BY <1>6, <1>7, EffectiveType DEF Init
<1>10. ApiKey!KeysTypeOK
  BY DEF Init, ApiKey!Init, ApiKey!KeysTypeOK, ApiKey!KeyStates
<1>11. asked \in 0 .. MaxAsked
  BY CallsAssumption DEF Init
<1>12. origin \in [Users -> Origin]
  BY DEF Init, NoOrigin, Origin
<1>13. RequestsOK
  BY DEF Init, RequestsOK, Admitted, Anonymous
<1> QED
  BY <1>6, <1>7, <1>8, <1>9, <1>10, <1>11, <1>12, <1>13, IdleType
  DEF Init, TypeInv, TypeOK, Steps

\* Steps that move one request and leave tables, tokens and cache alone.
LEMMA FrameType ==
  ASSUME TypeInv, UNCHANGED <<tables, claims, store, asked, ghosts>>,
         pc' \in [Procs -> Steps], req' \in [Procs -> Request], RequestsOK'
  PROVE  TypeInv'
BY DEF TypeInv, TypeOK, RolesTypeOK, tables, tree, store, ghosts, ApiKey!KeysTypeOK

\* ... and remember whom an invalidation did not reach.
LEMMA MissedType ==
  ASSUME TypeInv, UNCHANGED <<tables, claims, store, asked, granted, origin, misjudged>>,
         missed' \subseteq Users,
         pc' \in [Procs -> Steps], req' \in [Procs -> Request], RequestsOK'
  PROVE  TypeInv'
BY DEF TypeInv, TypeOK, RolesTypeOK, tables, tree, store, ApiKey!KeysTypeOK

LEMMA ArriveType ==
  ASSUME TypeInv, NEW p \in Procs, NEW u \in Users, NEW c \in RoleIds,
         NEW call \in Calls, Arrive(p, u, c, call)
  PROVE  asked' \in 0 .. MaxAsked
BY CallsAssumption DEF Arrive, TypeInv, TypeOK

LEMMA DescendantsType ==
  ASSUME TypeInv, NEW p \in Procs
  PROVE  UNION {collectDescendantRoles(r) : r \in req[p].roles} \subseteq RoleIds
BY MaxRolesAssumption
DEF collectDescendantRoles, Existing, RoleIds, TypeInv, TypeOK, RolesTypeOK

\* The write of UpdateUser and CreateUser.
LEMMA SetRoleType ==
  ASSUME TypeInv, NEW p \in Procs, NEW t \in Users, SetRole(p, t), UNCHANGED store,
         missed' \subseteq Users,
         pc' \in [Procs -> Steps], req' \in [Procs -> Request], RequestsOK'
  PROVE  TypeInv'
<1>1. misjudged' \in BOOLEAN
  <2>1. misjudged \in BOOLEAN
    BY DEF TypeInv, TypeOK
  <2>2. misjudged' = (misjudged \/ (req[p].doubtful /\ ~MayGive(p, req[p].given)))
    BY DEF SetRole
  <2> QED
    BY <2>2
<1>2. roleOf' \in [Users -> RoleIds \cup {NoRole}]
  BY DEF SetRole, TypeInv, TypeOK, Request
<1> QED
  BY <1>1, <1>2
  DEF SetRole, TypeInv, TypeOK, RolesTypeOK, tree, store, ApiKey!KeysTypeOK

LEMMA StepType == TypeInv /\ [Next]_vars => TypeInv'
<1> SUFFICES ASSUME TypeInv, [Next]_vars PROVE TypeInv'
  OBVIOUS
<1>1. ASSUME NEW u \in Users, IssueToken(u)
      PROVE TypeInv'
  <2>1. Effective(roleOf[u]) \subseteq Perms
    BY <1>1, EffectiveType DEF IssueToken, TypeInv, TypeOK
  <2>2. granted' \in [Users -> SUBSET Perms] /\ claims' \in [Users -> SUBSET RoleIds]
    BY <1>1, <2>1 DEF IssueToken, TypeInv, TypeOK
  <2> QED
    BY <1>1, <2>2 DEF IssueToken, TypeInv, TypeOK, RolesTypeOK, RequestsOK, Admitted,
                      Anonymous, tables, tree, store, ApiKey!KeysTypeOK
<1>2. ASSUME NEW p \in Procs, NEW u \in Users, NEW c \in RoleIds, NEW call \in Calls,
             CheckCached(p, u, c, call)
      PROVE TypeInv'
  <2>1. [Idle EXCEPT !.user = u, !.claim = c] \in Request
           /\ [Idle EXCEPT !.user = u, !.claim = c].user = u
    BY IdleType DEF Request, Idle
  <2>2. call \in Endpoints
    BY CallsAssumption
  <2>3. pc' \in [Procs -> Steps] /\ req' \in [Procs -> Request] /\ RequestsOK'
    BY <1>2, <2>1, <2>2, MoveType DEF CheckCached, Goto, Steps, Endpoints, Administration
  <2> QED
    BY <1>2, <2>3, ArriveType
    DEF CheckCached, Arrive, TypeInv, TypeOK, RolesTypeOK, tables, tree, store, ghosts,
        ApiKey!KeysTypeOK
<1>3. ASSUME NEW p \in Procs, NEW u \in Users, NEW c \in RoleIds, NEW call \in Calls,
             CheckUncached(p, u, c, call)
      PROVE TypeInv'
  <2> DEFINE new == [Idle EXCEPT !.user = u, !.claim = c, !.call = call, !.cur = c]
  <2>1. call \in Steps
    BY CallsAssumption DEF Steps
  <2>2. new \in Request /\ new.user = u /\ new.cur = c
    BY <2>1, IdleType DEF Request, Idle
  <2>3. pc' \in [Procs -> Steps] /\ req' \in [Procs -> Request] /\ RequestsOK'
    BY <1>3, <2>2, MoveType DEF CheckUncached, Goto, Steps
  <2> QED
    BY <1>3, <2>3, ArriveType
    DEF CheckUncached, Arrive, TypeInv, TypeOK, RolesTypeOK, tables, tree, store, ghosts,
        ApiKey!KeysTypeOK
<1>4. ASSUME NEW p \in Procs, Resolve(p)
      PROVE TypeInv'
  <2> DEFINE r == req[p].cur
             new == [req[p] EXCEPT !.acc = @ \cup direct[r], !.cur = parent[r]]
  <2>1. req[p] \in Request /\ req[p].user \in Users /\ r \in RoleIds
    BY <1>4 DEF Resolve, TypeInv, TypeOK, RequestsOK, Admitted, Anonymous
  <2>2. direct[r] \subseteq Perms /\ parent[r] \in RoleIds \cup {NoRole}
    BY <2>1 DEF TypeInv, TypeOK, RolesTypeOK
  <2>3. new \in Request /\ new.user \in Users /\ new.cur = parent[r]
    BY <2>1, <2>2 DEF Request
  <2>4. req' = [req EXCEPT ![p] = new]
    BY <1>4 DEF Resolve, TypeInv, TypeOK
  <2>5. PICK step \in {"store", "resolve"} :
           pc' = [pc EXCEPT ![p] = step] /\ (step = "resolve" => parent[r] \in RoleIds)
    BY <1>4, <2>2 DEF Resolve, Goto
  <2> HIDE DEF new
  <2>a. step \in Steps /\ step \notin Anonymous \cup {"setRole"}
    BY DEF Steps, Anonymous
  <2>b. step = "resolve" => new.cur \in RoleIds
    BY <2>3, <2>5
  <2>6. pc' \in [Procs -> Steps] /\ req' \in [Procs -> Request] /\ RequestsOK'
    BY <2>3, <2>4, <2>5, <2>a, <2>b, MoveType
  <2> QED
    BY <1>4, <2>6, FrameType DEF Resolve
<1>5. ASSUME NEW p \in Procs, ResolveFails(p)
      PROVE TypeInv'
  <2>1. [req[p] EXCEPT !.disturbed = TRUE] \in Request
           /\ [req[p] EXCEPT !.disturbed = TRUE].user \in Users
    <3>1. req[p] \in Request /\ req[p].user \in Users
      BY <1>5 DEF ResolveFails, TypeInv, TypeOK, RequestsOK, Admitted, Anonymous
    <3> QED
      BY <3>1 DEF Request
  <2>2. req' = [req EXCEPT ![p] = [req[p] EXCEPT !.disturbed = TRUE]]
    BY <1>5 DEF ResolveFails, TypeInv, TypeOK
  <2>3. pc' \in [Procs -> Steps] /\ req' \in [Procs -> Request] /\ RequestsOK'
    BY <1>5, <2>1, <2>2, MoveType DEF ResolveFails, Goto, Steps
  <2> QED
    BY <1>5, <2>3, FrameType DEF ResolveFails
<1>6. ASSUME NEW p \in Procs, Store(p)
      PROVE TypeInv'
  <2>1. /\ req[p] \in Request /\ req[p].user \in Users
        /\ req[p].call \in Steps /\ req[p].acc \subseteq Perms
        /\ req[p].claim \in RoleIds \cup {NoRole} /\ req[p].disturbed \in BOOLEAN
    BY <1>6 DEF Store, TypeInv, TypeOK, RequestsOK, Admitted, Anonymous, Request
  <2>2. pc' \in [Procs -> Steps] /\ req' \in [Procs -> Request] /\ RequestsOK'
    <3>1. CASE Allowed(req[p].call, req[p].acc)
      <4> DEFINE new == [Idle EXCEPT !.user = req[p].user, !.claim = req[p].claim]
      <4>1. new \in Request /\ new.user = req[p].user
        BY <2>1, IdleType DEF Request, Idle
      <4>2. req[p].call \notin {"resolve", "setRole"}
        BY <3>1 DEF Allowed
      <4> HIDE DEF new
      <4>3. pc' = [pc EXCEPT ![p] = req[p].call] /\ req' = [req EXCEPT ![p] = new]
        BY <1>6, <3>1 DEF Store, Goto, new
      <4> QED
        BY <2>1, <4>1, <4>2, <4>3, MoveType
    <3>2. CASE ~Allowed(req[p].call, req[p].acc)
      BY <1>6, <3>2, FinishType DEF Store
    <3> QED
      BY <3>1, <3>2
  <2>3. /\ cached' \subseteq Users /\ cache' \in [Users -> SUBSET Perms]
        /\ missed' \subseteq Users
    BY <1>6, <2>1 DEF Store, TypeInv, TypeOK
  <2>4. origin' \in [Users -> Origin]
    BY <1>6, <2>1 DEF Store, Origin, TypeInv, TypeOK
  <2> QED
    BY <1>6, <2>2, <2>3, <2>4
    DEF Store, TypeInv, TypeOK, RolesTypeOK, tables, tree, ApiKey!KeysTypeOK
<1>7. ASSUME NEW p \in Procs, FindUsersWithRole(p)
      PROVE TypeInv'
  <2>1. PICK r \in req[p].roles : Sweep(p, req[p].roles \ {r}, Holders(r))
    BY <1>7 DEF FindUsersWithRole
  <2>2. req[p].roles \subseteq RoleIds /\ Holders(r) \subseteq Users
    BY DEF TypeInv, TypeOK, Request, Holders
  <2>3. pc' \in [Procs -> Steps] /\ req' \in [Procs -> Request] /\ RequestsOK'
    BY <2>1, <2>2, SweepType
  <2> QED
    BY <1>7, <2>3, FrameType DEF FindUsersWithRole
<1>8. ASSUME NEW p \in Procs, FindUsersFails(p)
      PROVE TypeInv'
  <2>1. PICK r \in req[p].roles : /\ Sweep(p, req[p].roles \ {r}, {})
                                  /\ missed' = missed \cup (cached \cap Holders(r))
    BY <1>8 DEF FindUsersFails
  <2>2. req[p].roles \subseteq RoleIds /\ missed' \subseteq Users
    BY <2>1 DEF TypeInv, TypeOK, Request
  <2>3. pc' \in [Procs -> Steps] /\ req' \in [Procs -> Request] /\ RequestsOK'
    BY <2>1, <2>2, SweepRolesType
  <2> QED
    BY <1>8, <2>2, <2>3, MissedType DEF FindUsersFails
<1>9. ASSUME NEW p \in Procs, Invalidate(p)
      PROVE TypeInv'
  <2>1. PICK u \in req[p].holders :
           /\ cached' = cached \ {u}
           /\ cache' = [cache EXCEPT ![u] = {}]
           /\ origin' = [origin EXCEPT ![u] = NoOrigin]
           /\ missed' = missed \ {u}
           /\ Sweep(p, req[p].roles, req[p].holders \ {u})
    BY <1>9 DEF Invalidate
  <2>2. req[p].roles \subseteq RoleIds /\ req[p].holders \subseteq Users
    BY DEF TypeInv, TypeOK, Request
  <2>3. pc' \in [Procs -> Steps] /\ req' \in [Procs -> Request] /\ RequestsOK'
    BY <2>1, <2>2, SweepType
  <2>4. /\ cached' \subseteq Users /\ cache' \in [Users -> SUBSET Perms]
        /\ origin' \in [Users -> Origin] /\ missed' \subseteq Users
    BY <2>1 DEF TypeInv, TypeOK, NoOrigin, Origin
  <2> QED
    BY <1>9, <2>3, <2>4
    DEF Invalidate, TypeInv, TypeOK, RolesTypeOK, tables, tree, ApiKey!KeysTypeOK
<1>10. ASSUME NEW p \in Procs, NEW r \in RoleIds, NEW S \in Given, UpdateRole(p, r, S)
       PROVE TypeInv'
  <2>1. [Idle EXCEPT !.roles = {r}] \in Request
    BY IdleType DEF Request, Idle
  <2>2. S \in SUBSET Perms
    BY CallsAssumption
  <2>3. /\ RolesTypeOK' /\ granted' \in [Users -> SUBSET Perms]
        /\ pc' \in [Procs -> Steps] /\ req' \in [Procs -> Request] /\ RequestsOK'
    BY <1>10, <2>1, <2>2, CommitType DEF UpdateRole
  <2> QED
    BY <1>10, <2>3 DEF UpdateRole, TypeInv, TypeOK, store, ApiKey!KeysTypeOK
<1>11. ASSUME NEW p \in Procs, NEW r \in RoleIds, NEW S \in Given,
              UpdateRoleUnanswered(p, r, S)
       PROVE TypeInv'
  <2>1. S \in SUBSET Perms
    BY CallsAssumption
  <2>2. /\ RolesTypeOK' /\ granted' \in [Users -> SUBSET Perms]
        /\ pc' \in [Procs -> Steps] /\ req' \in [Procs -> Request] /\ RequestsOK'
    BY <1>11, <2>1, IdleType, CommitType DEF UpdateRoleUnanswered
  <2> QED
    BY <1>11, <2>2 DEF UpdateRoleUnanswered, TypeInv, TypeOK, store, ApiKey!KeysTypeOK
<1>12. ASSUME NEW p \in Procs, ListRoles(p)
       PROVE TypeInv'
  <2>1. PICK roles \in SUBSET RoleIds :
           roles = UNION {collectDescendantRoles(r) : r \in req[p].roles}
    BY DescendantsType
  <2>2. pc' \in [Procs -> Steps] /\ req' \in [Procs -> Request] /\ RequestsOK'
    BY <1>12, <2>1, SweepRolesType DEF ListRoles
  <2> QED
    BY <1>12, <2>2, FrameType DEF ListRoles
<1>13. ASSUME NEW p \in Procs, ListRolesFails(p)
       PROVE TypeInv'
  <2>1. req[p].roles \subseteq RoleIds /\ missed' \subseteq Users
    BY <1>13 DEF ListRolesFails, TypeInv, TypeOK, Request
  <2>2. pc' \in [Procs -> Steps] /\ req' \in [Procs -> Request] /\ RequestsOK'
    BY <1>13, <2>1, SweepRolesType DEF ListRolesFails
  <2> QED
    BY <1>13, <2>1, <2>2, MissedType DEF ListRolesFails
<1>14. ASSUME NEW p \in Procs, NEW above \in RoleIds \cup {NoRole}, InsertRole(p, above)
       PROVE TypeInv'
  <2>1. RolesTypeOK'
    BY <1>14, MaxRolesAssumption
    DEF InsertRole, CreateRole, TypeInv, TypeOK, RolesTypeOK, RoleIds
  <2>2. pc' \in [Procs -> Steps] /\ req' \in [Procs -> Request] /\ RequestsOK'
    BY <1>14, FinishType DEF InsertRole
  <2> QED
    BY <1>14, <2>1, <2>2
    DEF InsertRole, TypeInv, TypeOK, store, ghosts, ApiKey!KeysTypeOK
<1>15. ASSUME NEW p \in Procs, NEW t \in Users \cup {NoUser}, NEW r \in RoleIds,
              CheckRank(p, t, r) \/ CheckRankFails(p, t, r)
       PROVE TypeInv'
  BY <1>15, GiveType DEF CheckRank, CheckRankFails
<1>16. ASSUME NEW p \in Procs, UpdateUser(p)
       PROVE TypeInv'
  <2>1. req[p].target \in Users /\ {req[p].target} \in SUBSET Users
    BY <1>16 DEF UpdateUser, TypeInv, RequestsOK
  <2>2. pc' \in [Procs -> Steps] /\ req' \in [Procs -> Request] /\ RequestsOK'
    BY <1>16, <2>1, SweepType DEF UpdateUser
  <2>3. UNCHANGED store /\ missed' \subseteq Users
    BY <1>16 DEF UpdateUser, SetRole, TypeInv, TypeOK
  <2> QED
    BY <1>16, <2>1, <2>2, <2>3, SetRoleType DEF UpdateUser
<1>17. ASSUME NEW p \in Procs, UpdateUserUnanswered(p)
       PROVE TypeInv'
  <2>1. req[p].target \in Users
    BY <1>17 DEF UpdateUserUnanswered, TypeInv, RequestsOK
  <2>2. pc' \in [Procs -> Steps] /\ req' \in [Procs -> Request] /\ RequestsOK'
    BY <1>17, FinishType DEF UpdateUserUnanswered
  <2>3. UNCHANGED store /\ missed' \subseteq Users
    BY <1>17 DEF UpdateUserUnanswered, SetRole, TypeInv, TypeOK
  <2> QED
    BY <1>17, <2>1, <2>2, <2>3, SetRoleType DEF UpdateUserUnanswered
<1>18. ASSUME NEW p \in Procs, NEW t \in Users, CreateUser(p, t)
       PROVE TypeInv'
  <2>1. pc' \in [Procs -> Steps] /\ req' \in [Procs -> Request] /\ RequestsOK'
    BY <1>18, FinishType DEF CreateUser
  <2>2. UNCHANGED store /\ missed' \subseteq Users
    BY <1>18 DEF CreateUser, SetRole, TypeInv, TypeOK
  <2> QED
    BY <1>18, <2>1, <2>2, SetRoleType DEF CreateUser
<1>19. ASSUME NEW p \in Procs, CreateKey(p) \/ \E k \in Users : RevokeKey(p, k)
       PROVE TypeInv'
  <2>1. pc' \in [Procs -> Steps] /\ req' \in [Procs -> Request] /\ RequestsOK'
    BY <1>19, FinishType DEF CreateKey, RevokeKey
  <2>2. ApiKey!KeysTypeOK'
    BY <1>19 DEF CreateKey, RevokeKey, ApiKey!Create, ApiKey!Revoke,
                 ApiKey!KeysTypeOK, ApiKey!KeyStates, TypeInv, TypeOK
  <2>3. UNCHANGED <<tree, direct, roleOf, claims, store, asked, ghosts>>
    BY <1>19 DEF CreateKey, RevokeKey
  <2> QED
    BY <2>1, <2>2, <2>3 DEF TypeInv, TypeOK, RolesTypeOK, tree, store, ghosts
<1>20. ASSUME NEW p \in Procs, NoEffect(p)
       PROVE TypeInv'
  BY <1>20, FinishType, FrameType DEF NoEffect
<1>21. ASSUME Crash
       PROVE TypeInv'
  <2>1. pc' \in [Procs -> Steps] /\ req' \in [Procs -> Request] /\ RequestsOK'
    BY <1>21, IdleType DEF Crash, Steps, RequestsOK, Admitted, Anonymous
  <2> QED
    BY <1>21, <2>1
    DEF Crash, TypeInv, TypeOK, RolesTypeOK, tables, tree, NoOrigin, Origin,
        ApiKey!KeysTypeOK
<1>22. ASSUME NEW p \in Procs, NEW r \in RoleIds, DeletePermissions(p, r)
       PROVE TypeInv'
  BY <1>22, DeleteFacts, FrameType
<1>23. ASSUME UNCHANGED vars
       PROVE TypeInv'
  BY <1>23 DEF vars, tables, tree, store, ghosts, TypeInv, TypeOK, RolesTypeOK,
               RequestsOK, Admitted, Anonymous, ApiKey!KeysTypeOK
<1> QED
  BY <1>1, <1>2, <1>3, <1>4, <1>5, <1>6, <1>7, <1>8, <1>9, <1>10, <1>11, <1>12, <1>13,
     <1>14, <1>15, <1>16, <1>17, <1>18, <1>19, <1>20, <1>21, <1>22, <1>23
  DEF Next, Proceed, Fail, CheckRefused

\* Tables, cache and requests keep their types in every reachable state.
THEOREM TypeCorrect == Spec => []TypeOK
<1>1. Spec => []TypeInv
  BY InitType, StepType, PTL DEF Spec
<1> QED
  BY <1>1, PTL DEF TypeInv

-----------------------------------------------------------------------------
(* What is always known of roles, tokens and requests *)

\* Roles in use exist, and parents come before children; a user without a row has no
\* token; the role a request or a cached set was resolved for is in a token of its
\* user; a resolution moves up from there.
BaseInv ==
    /\ Forest(parent)
    /\ \A u \in Users :
         /\ roleOf[u] \in Existing \cup {NoRole}
         /\ claims[u] \subseteq Existing
         /\ roleOf[u] = NoRole => claims[u] = {}
         /\ u \in cached => origin[u].claim \in claims[u]
    /\ \A p \in Procs :
         /\ Admitted(p) => req[p].claim \in claims[req[p].user]
         /\ pc[p] \in {"resolve", "store"} /\ req[p].cur # NoRole
              => req[p].cur \in Ancestors(req[p].claim)

\* The other requests are where they were, and remember what they did.
Alone(p) == \A q \in Procs \ {p} : pc'[q] = pc[q] /\ req'[q] = req[q]

LEMMA FinishFacts ==
  ASSUME TypeInv, NEW p \in Procs, Finish(p)
  PROVE  Alone(p) /\ pc'[p] = "idle" /\ req'[p] = Idle
BY DEF Finish, Goto, Alone, TypeInv, TypeOK

LEMMA SweepFacts ==
  ASSUME TypeInv, NEW p \in Procs, NEW roles, NEW holders, Sweep(p, roles, holders)
  PROVE  /\ Alone(p)
         /\ \/ pc'[p] = "idle" /\ roles = {} /\ holders = {}
            \/ pc'[p] = "sweep" /\ req'[p].roles = roles /\ req'[p].holders = holders
<1>1. CASE roles = {} /\ holders = {}
  BY <1>1, FinishFacts DEF Sweep
<1>2. CASE ~(roles = {} /\ holders = {})
  <2> DEFINE new == [Idle EXCEPT !.roles = roles, !.holders = holders]
  <2>1. Goto(p, "sweep") /\ req' = [req EXCEPT ![p] = new]
    BY <1>2 DEF Sweep
  <2>2. new.roles = roles /\ new.holders = holders
    BY DEF Idle
  <2> HIDE DEF new
  <2>3. pc'[p] = "sweep" /\ req'[p] = new /\ Alone(p)
    BY <2>1 DEF Goto, Alone, TypeInv, TypeOK
  <2> QED
    BY <2>2, <2>3
<1> QED
  BY <1>1, <1>2

LEMMA GiveFacts ==
  ASSUME TypeInv, NEW p \in Procs, NEW t, NEW r, NEW doubtful, Give(p, t, r, doubtful)
  PROVE  /\ Alone(p)
         /\ pc[p] \in {"updateUser", "createUser"}
         /\ pc'[p] \in {"setRole", "insertUser"}
         /\ req'[p].user = req[p].user /\ req'[p].claim = req[p].claim
         /\ req'[p].given = r /\ req'[p].doubtful = doubtful
<1> DEFINE new == [req[p] EXCEPT !.target = t, !.given = r, !.doubtful = doubtful]
<1>1. req' = [req EXCEPT ![p] = new]
  BY DEF Give, TypeInv, TypeOK
<1>2. /\ new.user = req[p].user /\ new.claim = req[p].claim
      /\ new.given = r /\ new.doubtful = doubtful
  BY DEF TypeInv, TypeOK, Request
<1> HIDE DEF new
<1>3. req'[p] = new /\ \A q \in Procs \ {p} : req'[q] = req[q]
  BY <1>1 DEF TypeInv, TypeOK
<1>4. /\ pc[p] \in {"updateUser", "createUser"}
      /\ pc'[p] \in {"setRole", "insertUser"}
      /\ \A q \in Procs \ {p} : pc'[q] = pc[q]
  BY DEF Give, Goto, TypeInv, TypeOK
<1> QED
  BY <1>2, <1>3, <1>4 DEF Alone

\* What a request remembers once its check has begun.
Begun(p, u, c) ==
    /\ Alone(p) /\ pc[p] = "idle" /\ c \in claims[u]
    /\ req'[p].user = u /\ req'[p].claim = c /\ req'[p].acc = {}
    /\ ~req'[p].disturbed
    /\ \/ /\ pc'[p] \in Endpoints
          /\ u \in cached /\ Allowed(pc'[p], cache[u])
       \/ pc'[p] = "resolve" /\ req'[p].cur = c

LEMMA CheckFacts ==
  ASSUME TypeInv, NEW p \in Procs, NEW u \in Users, NEW c \in RoleIds, NEW call \in Calls,
         CheckCached(p, u, c, call) \/ CheckUncached(p, u, c, call)
  PROVE  Begun(p, u, c)
<1>1. ASSUME CheckCached(p, u, c, call)
      PROVE  /\ pc'[p] = call /\ call \in Endpoints
             /\ req'[p] = [Idle EXCEPT !.user = u, !.claim = c]
             /\ Alone(p)
  BY <1>1, CallsAssumption DEF CheckCached, Goto, Alone, TypeInv, TypeOK
<1>2. ASSUME CheckUncached(p, u, c, call)
      PROVE  /\ pc'[p] = "resolve"
             /\ req'[p] = [Idle EXCEPT !.user = u, !.claim = c, !.call = call, !.cur = c]
             /\ Alone(p)
  BY <1>2 DEF CheckUncached, Goto, Alone, TypeInv, TypeOK
<1>3. pc[p] = "idle" /\ c \in claims[u]
  BY DEF CheckCached, CheckUncached, Arrive
<1>4. CASE CheckCached(p, u, c, call)
  <2>1. /\ req'[p].user = u /\ req'[p].claim = c /\ req'[p].acc = {}
        /\ ~req'[p].disturbed
    BY <1>1, <1>4 DEF Idle
  <2> QED
    BY <1>1, <1>3, <1>4, <2>1 DEF CheckCached, Begun
<1>5. CASE CheckUncached(p, u, c, call)
  <2>1. /\ req'[p].user = u /\ req'[p].claim = c /\ req'[p].acc = {}
        /\ ~req'[p].disturbed /\ req'[p].cur = c
    BY <1>2, <1>5 DEF Idle
  <2> QED
    BY <1>2, <1>3, <1>5, <2>1 DEF Begun
<1> QED
  BY <1>4, <1>5

LEMMA ResolveFacts ==
  ASSUME TypeInv, NEW p \in Procs, Resolve(p)
  PROVE  /\ Alone(p) /\ pc[p] = "resolve"
         /\ req[p].cur \in RoleIds /\ req[p].user \in Users
         /\ req'[p].user = req[p].user /\ req'[p].claim = req[p].claim
         /\ req'[p].acc = req[p].acc \cup direct[req[p].cur]
         /\ req'[p].cur = parent[req[p].cur]
         /\ req'[p].disturbed = req[p].disturbed
         /\ pc'[p] = IF parent[req[p].cur] = NoRole THEN "store" ELSE "resolve"
<1>1. req[p] \in Request /\ req[p].cur \in RoleIds /\ req[p].user \in Users
  BY DEF Resolve, TypeInv, TypeOK, RequestsOK, Admitted, Anonymous
<1>2. req'[p] = [req[p] EXCEPT !.acc = @ \cup direct[req[p].cur],
                               !.cur = parent[req[p].cur]]
      /\ \A q \in Procs \ {p} : req'[q] = req[q]
  BY DEF Resolve, TypeInv, TypeOK
<1>3. /\ pc[p] = "resolve"
      /\ pc'[p] = IF parent[req[p].cur] = NoRole THEN "store" ELSE "resolve"
      /\ \A q \in Procs \ {p} : pc'[q] = pc[q]
  BY DEF Resolve, Goto, TypeInv, TypeOK
<1>4. /\ req'[p].user = req[p].user /\ req'[p].claim = req[p].claim
      /\ req'[p].acc = req[p].acc \cup direct[req[p].cur]
      /\ req'[p].cur = parent[req[p].cur]
      /\ req'[p].disturbed = req[p].disturbed
  BY <1>1, <1>2 DEF Request
<1> QED
  BY <1>1, <1>2, <1>3, <1>4 DEF Alone

LEMMA ResolveFailsFacts ==
  ASSUME TypeInv, NEW p \in Procs, ResolveFails(p)
  PROVE  /\ Alone(p) /\ pc[p] = "resolve" /\ pc'[p] = "store"
         /\ req'[p].user = req[p].user /\ req'[p].claim = req[p].claim
         /\ req'[p].acc = req[p].acc /\ req'[p].cur = req[p].cur
         /\ req'[p].disturbed
<1>1. req'[p] = [req[p] EXCEPT !.disturbed = TRUE]
      /\ \A q \in Procs \ {p} : req'[q] = req[q]
  BY DEF ResolveFails, TypeInv, TypeOK
<1>2. req[p] \in Request
  BY DEF TypeInv, TypeOK
<1>3. pc[p] = "resolve" /\ pc'[p] = "store" /\ \A q \in Procs \ {p} : pc'[q] = pc[q]
  BY DEF ResolveFails, Goto, TypeInv, TypeOK
<1> QED
  BY <1>1, <1>2, <1>3 DEF Alone, Request

LEMMA StoreFacts ==
  ASSUME TypeInv, NEW p \in Procs, Store(p)
  PROVE  /\ Alone(p) /\ pc[p] = "store" /\ req[p].user \in Users
         /\ \/ pc'[p] = "idle" /\ req'[p] = Idle
            \/ /\ Allowed(req[p].call, req[p].acc)
               /\ pc'[p] = req[p].call /\ pc'[p] \in Endpoints
               /\ req'[p].user = req[p].user /\ req'[p].claim = req[p].claim
<1>1. pc[p] = "store" /\ req[p].user \in Users
  BY DEF Store, TypeInv, TypeOK, RequestsOK, Admitted, Anonymous
<1>2. CASE ~Allowed(req[p].call, req[p].acc)
  BY <1>1, <1>2, FinishFacts DEF Store
<1>3. CASE Allowed(req[p].call, req[p].acc)
  <2> DEFINE new == [Idle EXCEPT !.user = req[p].user, !.claim = req[p].claim]
  <2>1. Goto(p, req[p].call) /\ req' = [req EXCEPT ![p] = new]
    BY <1>3 DEF Store
  <2>2. new.user = req[p].user /\ new.claim = req[p].claim
    BY DEF Idle
  <2>3. req[p].call \in Endpoints
    BY <1>3 DEF Allowed, Endpoints, Administration
  <2> HIDE DEF new
  <2>4. pc'[p] = req[p].call /\ req'[p] = new /\ Alone(p)
    BY <2>1 DEF Goto, Alone, TypeInv, TypeOK
  <2> QED
    BY <1>1, <1>3, <2>2, <2>3, <2>4
<1> QED
  BY <1>2, <1>3

LEMMA CommitFacts ==
  ASSUME TypeInv, NEW p \in Procs, NEW r \in RoleIds, NEW S \in Given,
         UpdateRole(p, r, S) \/ UpdateRoleUnanswered(p, r, S)
  PROVE  /\ pc[p] = "savePermissions" /\ S \subseteq Perms
         /\ UNCHANGED tree
         /\ direct' = [direct EXCEPT ![r] = S \cup (@ \cap req[p].late)]
         /\ granted' = Granting(r, S)
         /\ \/ /\ pc'[p] = "listRoles" /\ req'[p].roles = {r}
               /\ missed' = missed
            \/ /\ pc'[p] = "idle"
               /\ missed' = missed \cup
                    (cached \cap UNION {Holders(x) : x \in collectDescendantRoles(r)})
         /\ \A q \in Procs \ {p} :
              /\ pc'[q] = pc[q] /\ SameBut(req'[q], req[q])
              /\ req'[q].disturbed = Disturbed(q, r)
         /\ UNCHANGED <<roleOf, keys, claims, store, asked, origin, misjudged>>
<1>1. S \in SUBSET Perms
  BY CallsAssumption
<1>2. CASE UpdateRole(p, r, S)
  <2>1. [Idle EXCEPT !.roles = {r}] \in Request
          /\ [Idle EXCEPT !.roles = {r}].roles = {r}
    BY IdleType DEF Request, Idle
  <2> QED
    BY <1>1, <1>2, <2>1, CommitType DEF UpdateRole, SavePermissions
<1>3. CASE UpdateRoleUnanswered(p, r, S)
  BY <1>1, <1>3, IdleType, CommitType DEF UpdateRoleUnanswered, SavePermissions
<1> QED
  BY <1>2, <1>3

\* Steps after which the tree, the users and the tokens are what they were.
LEMMA BaseFrame ==
  ASSUME BaseInv, TypeInv, TypeInv', NEW p \in Procs, Alone(p),
         UNCHANGED <<lastRole, parent, roleOf, claims>>,
         \A u \in Users : u \in cached' => origin'[u].claim \in claims[u],
         pc'[p] \notin Anonymous
            => req'[p].claim \in claims[req'[p].user],
         pc'[p] \in {"resolve", "store"} /\ req'[p].cur # NoRole
            => req'[p].cur \in Ancestors(req'[p].claim)
  PROVE  BaseInv'
<1>1. \A q \in Procs : /\ Admitted(q)' => req'[q].claim \in claims[req'[q].user]
                       /\ pc'[q] \in {"resolve", "store"} /\ req'[q].cur # NoRole
                            => req'[q].cur \in AncestorsIn(parent, req'[q].claim)
  BY DEF Alone, Admitted, Anonymous, BaseInv, Ancestors
<1>2. /\ Forest(parent')
      /\ \A u \in Users :
           /\ roleOf'[u] \in Existing' \cup {NoRole}
           /\ claims'[u] \subseteq Existing'
           /\ roleOf'[u] = NoRole => claims'[u] = {}
           /\ u \in cached' => origin'[u].claim \in claims'[u]
  BY DEF BaseInv, Existing
<1> QED
  BY <1>1, <1>2 DEF BaseInv, Ancestors

\* ... and of one request which ends, or is past its check and forgets its caller.
LEMMA BaseEnds ==
  ASSUME BaseInv, TypeInv, TypeInv', NEW p \in Procs, Alone(p),
         pc'[p] \in Anonymous,
         UNCHANGED <<lastRole, parent, roleOf, claims, cached, origin>>
  PROVE  BaseInv'
<1>1. \A u \in Users : u \in cached' => origin'[u].claim \in claims[u]
  BY DEF BaseInv
<1> QED
  BY <1>1, BaseFrame DEF Anonymous

\* The write of a role.
LEMMA BaseSetRole ==
  ASSUME BaseInv, TypeInv, TypeInv', NEW p \in Procs, NEW t \in Users, SetRole(p, t),
         Alone(p), pc'[p] \in {"idle", "sweep"}
  PROVE  BaseInv'
<1>1. \A u \in Users : roleOf'[u] = IF u = t THEN req[p].given ELSE roleOf[u]
  BY DEF SetRole, TypeInv, TypeOK
<1>2. req[p].given \in Existing /\ req[p].given # NoRole
  BY DEF SetRole, Existing, NoRole, TypeInv, TypeOK, RolesTypeOK
<1>3. UNCHANGED <<lastRole, parent, claims, cached, origin>>
  BY DEF SetRole, tree, store
<1>4. \A q \in Procs : /\ Admitted(q)' => req'[q].claim \in claims[req'[q].user]
                       /\ pc'[q] \in {"resolve", "store"} /\ req'[q].cur # NoRole
                            => req'[q].cur \in AncestorsIn(parent, req'[q].claim)
  BY DEF Alone, Admitted, Anonymous, BaseInv, Ancestors
<1>5. /\ Forest(parent')
      /\ \A u \in Users :
           /\ roleOf'[u] \in Existing' \cup {NoRole}
           /\ claims'[u] \subseteq Existing'
           /\ roleOf'[u] = NoRole => claims'[u] = {}
           /\ u \in cached' => origin'[u].claim \in claims'[u]
  BY <1>1, <1>2, <1>3 DEF BaseInv, Existing
<1> QED
  BY <1>3, <1>4, <1>5 DEF BaseInv, Ancestors

LEMMA InitBase == Init => BaseInv
<1> SUFFICES ASSUME Init PROVE BaseInv
  OBVIOUS
<1> USE MaxRolesAssumption
<1> DEFINE n == Len(SeedParent)
<1>1. /\ n \in 0 .. MaxRoles /\ DOMAIN SeedParent = 1 .. n
      /\ \A r \in 1 .. n : SeedParent[r] \in Nat /\ SeedParent[r] < r
      /\ SeedRole \in [Users -> 0 .. n]
  BY SeedAssumption
<1>2. ASSUME NEW r \in RoleIds
      PROVE  SeedTree[r] \in RoleIds \cup {NoRole} /\ SeedTree[r] < r
  <2>1. CASE r \in 1 .. n
    BY <1>1, <2>1 DEF SeedTree, RoleIds, NoRole
  <2>2. CASE r \notin 1 .. n
    BY <1>1, <2>2 DEF SeedTree, RoleIds, NoRole
  <2> QED
    BY <2>1, <2>2
<1>3. Forest(parent)
  <2>1. parent = SeedTree /\ SeedTree \in [RoleIds -> RoleIds \cup {NoRole}]
    BY <1>2 DEF Init, SeedTree
  <2> QED
    BY <1>2, <2>1 DEF Forest
<1>4. ASSUME NEW u \in Users
      PROVE  /\ roleOf[u] \in Existing \cup {NoRole}
             /\ claims[u] \subseteq Existing
             /\ roleOf[u] = NoRole => claims[u] = {}
             /\ u \notin cached
  BY <1>1 DEF Init, Existing, NoRole
<1>5. \A p \in Procs : pc[p] = "idle"
  BY DEF Init
<1> QED
  BY <1>3, <1>4, <1>5 DEF BaseInv, Admitted, Anonymous

LEMMA StepBase == BaseInv /\ TypeInv /\ TypeInv' /\ [Next]_vars => BaseInv'
<1> SUFFICES ASSUME BaseInv, TypeInv, TypeInv', [Next]_vars PROVE BaseInv'
  OBVIOUS
<1>1. ASSUME NEW u \in Users, IssueToken(u)
      PROVE BaseInv'
  <2>1. /\ UNCHANGED <<lastRole, parent, roleOf, cached, origin, pc, req>>
        /\ \A v \in Users : claims'[v] = IF v = u THEN claims[v] \cup {roleOf[u]}
                                                  ELSE claims[v]
    BY <1>1 DEF IssueToken, TypeInv, TypeOK, tables, tree, store
  <2>2. roleOf[u] \in Existing /\ roleOf[u] # NoRole
    BY <1>1 DEF IssueToken, BaseInv
  <2>3. Existing' = Existing
    BY <2>1 DEF Existing
  <2>4. ASSUME NEW v \in Users
        PROVE  /\ roleOf'[v] \in Existing' \cup {NoRole}
               /\ claims[v] \subseteq claims'[v]
               /\ claims'[v] \subseteq Existing'
               /\ roleOf'[v] = NoRole => claims'[v] = {}
               /\ v \in cached' => origin'[v].claim \in claims'[v]
    <3>1. CASE v = u
      <4>1. claims'[u] = claims[u] \cup {roleOf[u]}
        BY <2>1
      <4>2. claims[u] \subseteq Existing /\ (u \in cached => origin[u].claim \in claims[u])
        BY DEF BaseInv
      <4>3. roleOf' = roleOf /\ cached' = cached /\ origin' = origin
        BY <2>1
      <4> QED
        BY <2>2, <2>3, <3>1, <4>1, <4>2, <4>3
    <3>2. CASE v # u
      BY <2>1, <2>3, <3>2 DEF BaseInv
    <3> QED
      BY <3>1, <3>2
  <2>5. ASSUME NEW q \in Procs
        PROVE  /\ Admitted(q)' => req'[q].claim \in claims'[req'[q].user]
               /\ pc'[q] \in {"resolve", "store"} /\ req'[q].cur # NoRole
                    => req'[q].cur \in AncestorsIn(parent', req'[q].claim)
    <3>1. Admitted(q) => /\ req[q].user \in Users
                         /\ req[q].claim \in claims[req[q].user]
      BY DEF BaseInv, TypeInv, RequestsOK
    <3>2. Admitted(q)' => req'[q].claim \in claims'[req'[q].user]
      BY <2>1, <2>4, <3>1 DEF Admitted, Anonymous
    <3>3. pc[q] \in {"resolve", "store"} /\ req[q].cur # NoRole
             => req[q].cur \in AncestorsIn(parent, req[q].claim)
      BY DEF BaseInv, Ancestors
    <3> QED
      BY <2>1, <3>2, <3>3
  <2> QED
    BY <2>1, <2>4, <2>5 DEF BaseInv, Ancestors
<1>2. ASSUME NEW p \in Procs, NEW u \in Users, NEW c \in RoleIds, NEW call \in Calls,
             CheckCached(p, u, c, call) \/ CheckUncached(p, u, c, call)
      PROVE BaseInv'
  <2>0. UNCHANGED <<lastRole, parent, roleOf, claims, cached, origin>>
    BY <1>2 DEF CheckCached, CheckUncached, Arrive, tables, tree, store, ghosts
  <2>1. /\ Alone(p) /\ req'[p].user = u /\ req'[p].claim = c /\ c \in claims[u]
        /\ pc'[p] \in Endpoints \/ (pc'[p] = "resolve" /\ req'[p].cur = c)
    <3>1. Begun(p, u, c)
      BY <1>2, CheckFacts
    <3> QED
      BY <3>1 DEF Begun
  <2>2. pc'[p] \in {"resolve", "store"} /\ req'[p].cur # NoRole
            => req'[p].cur \in Ancestors(req'[p].claim)
    BY <2>1, AncestorsSelf DEF Ancestors, Endpoints, Administration
  <2>3. \A v \in Users : v \in cached' => origin'[v].claim \in claims[v]
    BY <2>0 DEF BaseInv
  <2> QED
    BY <2>0, <2>1, <2>2, <2>3, BaseFrame
<1>3. ASSUME NEW p \in Procs, Resolve(p)
      PROVE BaseInv'
  <2>1. UNCHANGED <<lastRole, parent, roleOf, claims, cached, origin>>
    BY <1>3 DEF Resolve, tables, tree, store, ghosts
  <2>2. req[p].claim \in claims[req[p].user] /\ req[p].cur \in Ancestors(req[p].claim)
        /\ req[p].claim \in RoleIds
    BY <1>3, ResolveFacts
    DEF BaseInv, Admitted, Anonymous, NoRole, RoleIds, TypeInv, TypeOK
  <2>3. req'[p].cur # NoRole => req'[p].cur \in Ancestors(req'[p].claim)
    BY <1>3, <2>2, ResolveFacts, AncestorsUp DEF Ancestors, BaseInv
  <2>4. \A v \in Users : v \in cached' => origin'[v].claim \in claims[v]
    BY <2>1 DEF BaseInv
  <2> QED
    BY <1>3, <2>1, <2>2, <2>3, <2>4, ResolveFacts, BaseFrame
<1>4. ASSUME NEW p \in Procs, ResolveFails(p)
      PROVE BaseInv'
  <2>1. UNCHANGED <<lastRole, parent, roleOf, claims, cached, origin>>
    BY <1>4 DEF ResolveFails, tables, tree, store, ghosts
  <2>2. /\ req'[p].claim \in claims[req'[p].user]
        /\ req'[p].cur # NoRole => req'[p].cur \in Ancestors(req'[p].claim)
    BY <1>4, ResolveFailsFacts DEF BaseInv, Admitted, Anonymous
  <2>3. \A v \in Users : v \in cached' => origin'[v].claim \in claims[v]
    BY <2>1 DEF BaseInv
  <2> QED
    BY <1>4, <2>1, <2>2, <2>3, ResolveFailsFacts, BaseFrame
<1>5. ASSUME NEW p \in Procs, Store(p)
      PROVE BaseInv'
  <2>1. UNCHANGED <<lastRole, parent, roleOf, claims>>
    BY <1>5 DEF Store, tables, tree
  <2>2. req[p].claim \in claims[req[p].user]
    BY <1>5, StoreFacts DEF BaseInv, Admitted, Anonymous
  <2>3. \A v \in Users : origin'[v].claim = IF v = req[p].user THEN req[p].claim
                                                               ELSE origin[v].claim
    BY <1>5 DEF Store, TypeInv, TypeOK
  <2>4. cached' = cached \cup {req[p].user}
    BY <1>5 DEF Store
  <2>5. \A v \in Users : v \in cached' => origin'[v].claim \in claims[v]
    BY <2>2, <2>3, <2>4 DEF BaseInv
  <2>6. pc'[p] \notin {"resolve", "store"}
    BY <1>5, StoreFacts DEF Endpoints, Administration
  <2>7. pc'[p] # "idle" => req'[p].claim \in claims[req'[p].user]
    BY <1>5, <2>2, StoreFacts
  <2>8. Alone(p)
    BY <1>5, StoreFacts
  <2> QED
    BY <2>1, <2>5, <2>6, <2>7, <2>8, BaseFrame DEF Anonymous
<1>6. ASSUME NEW p \in Procs, FindUsersWithRole(p) \/ FindUsersFails(p)
                                \/ ListRoles(p) \/ ListRolesFails(p)
      PROVE BaseInv'
  <2>1. PICK roles, holders : Sweep(p, roles, holders)
    BY <1>6 DEF FindUsersWithRole, FindUsersFails, ListRoles, ListRolesFails
  <2>2. UNCHANGED <<lastRole, parent, roleOf, claims, cached, origin>>
    BY <1>6 DEF FindUsersWithRole, FindUsersFails, ListRoles, ListRolesFails, tables,
                tree, store, ghosts
  <2> QED
    BY <2>1, <2>2, SweepFacts, BaseEnds DEF Anonymous
<1>7. ASSUME NEW p \in Procs, Invalidate(p)
      PROVE BaseInv'
  <2>1. PICK u \in req[p].holders :
           /\ cached' = cached \ {u}
           /\ origin' = [origin EXCEPT ![u] = NoOrigin]
           /\ Sweep(p, req[p].roles, req[p].holders \ {u})
    BY <1>7 DEF Invalidate
  <2>2. UNCHANGED <<lastRole, parent, roleOf, claims>>
    BY <1>7 DEF Invalidate, tables, tree
  <2>3. \A v \in Users : v \in cached' => origin'[v].claim \in claims[v]
    BY <2>1 DEF BaseInv, TypeInv, TypeOK
  <2>4. Alone(p) /\ pc'[p] \in {"idle", "sweep"}
    BY <2>1, SweepFacts
  <2> QED
    BY <2>2, <2>3, <2>4, BaseFrame DEF Anonymous
<1>8. ASSUME NEW p \in Procs, NEW r \in RoleIds, NEW S \in Given,
             UpdateRole(p, r, S) \/ UpdateRoleUnanswered(p, r, S)
      PROVE BaseInv'
  <2>1. /\ UNCHANGED <<lastRole, parent, roleOf, claims, cached, origin>>
        /\ pc'[p] \in {"idle", "listRoles"}
        /\ \A q \in Procs \ {p} : pc'[q] = pc[q] /\ SameBut(req'[q], req[q])
    BY <1>8, CommitFacts DEF tree, store
  <2>2. \A q \in Procs : /\ Admitted(q)' => req'[q].claim \in claims[req'[q].user]
                         /\ pc'[q] \in {"resolve", "store"} /\ req'[q].cur # NoRole
                              => req'[q].cur \in AncestorsIn(parent, req'[q].claim)
    BY <2>1 DEF Admitted, Anonymous, SameBut, BaseInv, Ancestors
  <2>3. /\ Forest(parent')
        /\ \A u \in Users :
             /\ roleOf'[u] \in Existing' \cup {NoRole}
             /\ claims'[u] \subseteq Existing'
             /\ roleOf'[u] = NoRole => claims'[u] = {}
             /\ u \in cached' => origin'[u].claim \in claims'[u]
    BY <2>1 DEF BaseInv, Existing
  <2> QED
    BY <2>1, <2>2, <2>3 DEF BaseInv, Ancestors
<1>9. ASSUME NEW p \in Procs, NEW above \in RoleIds \cup {NoRole}, InsertRole(p, above)
      PROVE BaseInv'
  <2>1. CreateRole(above) /\ UNCHANGED <<roleOf, claims, cached, origin>>
    BY <1>9 DEF InsertRole, store, ghosts
  <2>2. Alone(p) /\ pc'[p] = "idle"
    BY <1>9, FinishFacts DEF InsertRole
  <2>3. Existing \subseteq Existing'
    BY <2>1 DEF CreateRole, Existing, TypeInv, TypeOK, RolesTypeOK
  <2>4. Forest(parent')
    BY <2>1, MaxRolesAssumption
    DEF CreateRole, Existing, Forest, BaseInv, NoRole, RoleIds, TypeInv, TypeOK, RolesTypeOK
  <2>5. \A u \in Users :
          /\ roleOf'[u] \in Existing' \cup {NoRole}
          /\ claims'[u] \subseteq Existing'
          /\ roleOf'[u] = NoRole => claims'[u] = {}
          /\ u \in cached' => origin'[u].claim \in claims'[u]
    BY <2>1, <2>3 DEF BaseInv
  <2>6. ASSUME NEW q \in Procs
        PROVE  /\ Admitted(q)' => req'[q].claim \in claims'[req'[q].user]
               /\ pc'[q] \in {"resolve", "store"} /\ req'[q].cur # NoRole
                    => req'[q].cur \in AncestorsIn(parent', req'[q].claim)
    <3>1. CASE q = p
      BY <2>2, <3>1 DEF Admitted, Anonymous
    <3>2. CASE q # p
      <4>1. pc'[q] = pc[q] /\ req'[q] = req[q]
        BY <2>2, <3>2 DEF Alone
      <4>2. Admitted(q) => /\ req[q].claim \in claims[req[q].user]
                           /\ req[q].claim \in Existing
        BY DEF BaseInv, TypeInv, RequestsOK
      <4>3. ASSUME Admitted(q)
            PROVE  AncestorsIn(parent', req[q].claim) = AncestorsIn(parent, req[q].claim)
        <5> PICK c \in Existing : c = req[q].claim
          BY <4>2, <4>3
        <5>1. Ancestors(c)' = Ancestors(c)
          BY <2>1, CreateRoleFrame DEF TypeInv, TypeOK
        <5> QED
          BY <5>1 DEF Ancestors
      <4> QED
        BY <2>1, <4>1, <4>2, <4>3 DEF Admitted, Anonymous, BaseInv, Ancestors
    <3> QED
      BY <3>1, <3>2
  <2> QED
    BY <2>4, <2>5, <2>6 DEF BaseInv, Ancestors
<1>10. ASSUME NEW p \in Procs, NEW t \in Users \cup {NoUser}, NEW r \in RoleIds,
              CheckRank(p, t, r) \/ CheckRankFails(p, t, r)
       PROVE BaseInv'
  <2>1. PICK doubtful : Give(p, t, r, doubtful)
    BY <1>10 DEF CheckRank, CheckRankFails
  <2>2. UNCHANGED <<lastRole, parent, roleOf, claims, cached, origin>>
    BY <2>1 DEF Give, tables, tree, store, ghosts
  <2>3. req'[p].claim \in claims[req'[p].user] /\ pc'[p] \notin {"resolve", "store"}
        /\ Alone(p)
    BY <2>1, GiveFacts DEF BaseInv, Admitted, Anonymous
  <2>4. \A v \in Users : v \in cached' => origin'[v].claim \in claims[v]
    BY <2>2 DEF BaseInv
  <2> QED
    BY <2>2, <2>3, <2>4, BaseFrame
<1>11. ASSUME NEW p \in Procs, UpdateUser(p)
       PROVE BaseInv'
  <2>1. PICK t \in Users : t = req[p].target
    BY <1>11 DEF UpdateUser, TypeInv, RequestsOK
  <2>2. SetRole(p, t) /\ Sweep(p, {}, {t})
    BY <1>11, <2>1 DEF UpdateUser
  <2> QED
    BY <2>2, SweepFacts, BaseSetRole
<1>12. ASSUME NEW p \in Procs, UpdateUserUnanswered(p)
       PROVE BaseInv'
  <2>1. PICK t \in Users : t = req[p].target
    BY <1>12 DEF UpdateUserUnanswered, TypeInv, RequestsOK
  <2>2. SetRole(p, t) /\ Finish(p)
    BY <1>12, <2>1 DEF UpdateUserUnanswered
  <2> QED
    BY <2>2, FinishFacts, BaseSetRole
<1>13. ASSUME NEW p \in Procs, NEW t \in Users, CreateUser(p, t)
       PROVE BaseInv'
  BY <1>13, FinishFacts, BaseSetRole DEF CreateUser
<1>14. ASSUME NEW p \in Procs,
              CreateKey(p) \/ (\E k \in Users : RevokeKey(p, k)) \/ NoEffect(p)
       PROVE BaseInv'
  <2>1. /\ Finish(p)
        /\ UNCHANGED <<lastRole, parent, roleOf, claims, cached, origin>>
    BY <1>14 DEF CreateKey, RevokeKey, NoEffect, tables, tree, store, ghosts
  <2> QED
    BY <2>1, FinishFacts, BaseEnds DEF Anonymous
<1>15. ASSUME Crash
       PROVE BaseInv'
  <2>1. UNCHANGED <<lastRole, parent, roleOf, claims>> /\ cached' = {}
        /\ \A p \in Procs : pc'[p] = "idle"
    BY <1>15 DEF Crash, tables, tree
  <2> QED
    BY <2>1 DEF BaseInv, Existing, Admitted, Anonymous
<1>16. ASSUME NEW p \in Procs, NEW r \in RoleIds, DeletePermissions(p, r)
       PROVE BaseInv'
  <2>1. Alone(p) /\ pc'[p] \in Anonymous
    BY <1>16, DeleteFacts DEF Alone, Anonymous
  <2>2. UNCHANGED <<lastRole, parent, roleOf, claims, cached, origin>>
    BY <1>16, DeleteFacts DEF tables, tree, store, ghosts
  <2> QED
    BY <2>1, <2>2, BaseEnds
<1>17. ASSUME UNCHANGED vars
       PROVE BaseInv'
  BY <1>17 DEF vars, tables, tree, store, ghosts, BaseInv, Existing, Admitted,
               Anonymous, Ancestors
<1> QED
  BY <1>1, <1>2, <1>3, <1>4, <1>5, <1>6, <1>7, <1>8, <1>9, <1>10, <1>11, <1>12, <1>13,
     <1>14, <1>15, <1>16, <1>17
  DEF Next, Proceed, Fail, CheckRefused

LEMMA BaseAlways == Spec => [](TypeInv /\ BaseInv)
BY InitType, StepType, InitBase, StepBase, PTL DEF Spec

-----------------------------------------------------------------------------
(* Permissions are used by those who got them *)

\* GrantedBeforeUse follows step by step: what a role above a token's role has now was
\* granted to the token's user, so what a resolution gathers was, and what it caches.
GrantedInv ==
    /\ \A u \in Users : \A c \in claims[u] : Effective(c) \subseteq granted[u]
    /\ \A p \in Procs :
         /\ pc[p] \in {"resolve", "store"} => req[p].acc \subseteq granted[req[p].user]
         /\ pc[p] = "createKey" => ApikeyManage \in granted[req[p].user]
    /\ GrantedBeforeUse

LEMMA InitGranted == Init => GrantedInv
<1> SUFFICES ASSUME Init PROVE GrantedInv
  OBVIOUS
<1>1. ASSUME NEW u \in Users, NEW c \in claims[u]
      PROVE  Effective(c) \subseteq granted[u]
  BY <1>1 DEF Init
<1>2. \A p \in Procs : pc[p] = "idle"
  BY DEF Init
<1>3. \A u \in Users : u \notin cached /\ keys[u] = "none"
  BY DEF Init, ApiKey!Init
<1> QED
  BY <1>1, <1>2, <1>3 DEF GrantedInv, GrantedBeforeUse

\* Steps of one request which change neither roles nor tokens nor what was granted.
LEMMA GrantedFrame ==
  ASSUME GrantedInv, BaseInv, TypeInv, TypeInv', NEW p \in Procs, Alone(p),
         UNCHANGED <<tree, direct, claims, granted>>,
         \A u \in Users : /\ u \in cached' => cache'[u] \subseteq granted[u]
                          /\ keys'[u] # "none" => ApikeyManage \in granted[u],
         pc'[p] \in {"resolve", "store"} => req'[p].acc \subseteq granted[req'[p].user],
         pc'[p] = "createKey" => ApikeyManage \in granted[req'[p].user]
  PROVE  GrantedInv'
<1>1. \A u \in Users : \A c \in claims'[u] : Effective(c)' \subseteq granted'[u]
  <2>1. \A c : Effective(c)' = Effective(c)
    BY DEF Effective, Ancestors, tree
  <2> QED
    BY <2>1 DEF GrantedInv
<1>2. \A q \in Procs :
        /\ pc'[q] \in {"resolve", "store"} => req'[q].acc \subseteq granted'[req'[q].user]
        /\ pc'[q] = "createKey" => ApikeyManage \in granted'[req'[q].user]
  BY DEF Alone, GrantedInv
<1>3. GrantedBeforeUse'
  BY DEF GrantedBeforeUse
<1> QED
  BY <1>1, <1>2, <1>3 DEF GrantedInv

\* ... and after which the request is at no step the invariant speaks of.
LEMMA GrantedEnds ==
  ASSUME GrantedInv, BaseInv, TypeInv, TypeInv', NEW p \in Procs, Alone(p),
         UNCHANGED <<tree, direct, claims, granted, keys>>,
         \A u \in Users : u \in cached' => u \in cached /\ cache'[u] = cache[u],
         pc'[p] \notin {"resolve", "store", "createKey"}
  PROVE  GrantedInv'
<1>1. \A u \in Users : /\ u \in cached' => cache'[u] \subseteq granted[u]
                       /\ keys'[u] # "none" => ApikeyManage \in granted[u]
  BY DEF GrantedInv, GrantedBeforeUse
<1> QED
  BY <1>1, GrantedFrame

\* Steps after which more may be granted, and every request and set is as it was.
LEMMA GrantedGrows ==
  ASSUME GrantedInv, TypeInv, TypeInv',
         \A u \in Users : granted[u] \subseteq granted'[u],
         \A u \in Users : \A c \in claims'[u] : Effective(c)' \subseteq granted'[u],
         UNCHANGED <<keys, cached, cache>>,
         \A q \in Procs :
            \/ pc'[q] \in {"idle", "listRoles"}
            \/ pc'[q] = pc[q] /\ req'[q].acc = req[q].acc /\ req'[q].user = req[q].user
  PROVE  GrantedInv'
<1>1. ASSUME NEW q \in Procs
      PROVE  /\ pc'[q] \in {"resolve", "store"}
                  => req'[q].acc \subseteq granted'[req'[q].user]
             /\ pc'[q] = "createKey" => ApikeyManage \in granted'[req'[q].user]
  <2>1. CASE pc'[q] \in {"idle", "listRoles"}
    BY <2>1
  <2>2. CASE pc'[q] = pc[q] /\ req'[q].acc = req[q].acc /\ req'[q].user = req[q].user
    <3>1. pc[q] \in {"resolve", "store", "createKey"} => req[q].user \in Users
      BY DEF TypeInv, RequestsOK, Admitted, Anonymous
    <3> QED
      BY <2>2, <3>1 DEF GrantedInv
  <2> QED
    BY <2>1, <2>2
<1>2. GrantedBeforeUse'
  BY DEF GrantedInv, GrantedBeforeUse
<1> QED
  BY <1>1, <1>2 DEF GrantedInv

LEMMA StepGranted ==
  GrantedInv /\ BaseInv /\ TypeInv /\ TypeInv' /\ [Next]_vars => GrantedInv'
<1> SUFFICES ASSUME GrantedInv, BaseInv, TypeInv, TypeInv', [Next]_vars PROVE GrantedInv'
  OBVIOUS
<1>1. ASSUME NEW u \in Users, IssueToken(u)
      PROVE GrantedInv'
  <2>1. /\ UNCHANGED <<tree, direct, keys, cached, cache, pc, req>>
        /\ \A v \in Users :
             /\ claims'[v] = IF v = u THEN claims[v] \cup {roleOf[u]} ELSE claims[v]
             /\ granted'[v] = IF v = u THEN granted[v] \cup Effective(roleOf[u])
                                       ELSE granted[v]
    BY <1>1 DEF IssueToken, TypeInv, TypeOK, tables, store
  <2>2. \A c : Effective(c)' = Effective(c)
    BY <2>1 DEF Effective, Ancestors, tree
  <2>3. ASSUME NEW v \in Users, NEW c \in claims'[v]
        PROVE  Effective(c)' \subseteq granted'[v]
    <3>1. c \in claims[v] => Effective(c) \subseteq granted[v]
      BY DEF GrantedInv
    <3>2. CASE v = u
      <4>1. c \in claims[v] \/ c = roleOf[u]
        BY <2>1, <2>3, <3>2
      <4>2. granted'[v] = granted[v] \cup Effective(roleOf[u])
        BY <2>1, <3>2
      <4> QED
        BY <2>2, <3>1, <4>1, <4>2
    <3>3. CASE v # u
      BY <2>1, <2>2, <2>3, <3>1, <3>3
    <3> QED
      BY <3>2, <3>3
  <2>4. \A v \in Users : granted[v] \subseteq granted'[v]
    BY <2>1
  <2> QED
    BY <2>1, <2>3, <2>4, GrantedGrows
<1>2. ASSUME NEW p \in Procs, NEW u \in Users, NEW c \in RoleIds, NEW call \in Calls,
             CheckCached(p, u, c, call) \/ CheckUncached(p, u, c, call)
      PROVE GrantedInv'
  <2>1. UNCHANGED <<tree, direct, claims, granted, keys, cached, cache>>
    BY <1>2 DEF CheckCached, CheckUncached, Arrive, tables, store, ghosts
  <2>2. Begun(p, u, c)
    BY <1>2, CheckFacts
  <2>3. \A v \in Users : /\ v \in cached' => cache'[v] \subseteq granted[v]
                         /\ keys'[v] # "none" => ApikeyManage \in granted[v]
    BY <2>1 DEF GrantedInv, GrantedBeforeUse
  <2>4. pc'[p] = "createKey" => ApikeyManage \in granted[req'[p].user]
    BY <2>2 DEF Begun, Allowed, GrantedInv, GrantedBeforeUse
  <2>5. pc'[p] \in {"resolve", "store"} => req'[p].acc \subseteq granted[req'[p].user]
    BY <2>2 DEF Begun
  <2>6. Alone(p)
    BY <2>2 DEF Begun
  <2> QED
    BY <2>1, <2>3, <2>4, <2>5, <2>6, GrantedFrame
<1>3. ASSUME NEW p \in Procs, Resolve(p)
      PROVE GrantedInv'
  <2>1. UNCHANGED <<tree, direct, claims, granted, keys, cached, cache>>
    BY <1>3 DEF Resolve, tables, store, ghosts
  <2>2. /\ Alone(p) /\ pc'[p] \in {"resolve", "store"}
        /\ req'[p].user = req[p].user
        /\ req'[p].acc = req[p].acc \cup direct[req[p].cur]
    BY <1>3, ResolveFacts
  <2>3. direct[req[p].cur] \subseteq Effective(req[p].claim)
    <3>1. req[p].cur \in Ancestors(req[p].claim)
      BY <1>3, ResolveFacts, MaxRolesAssumption DEF BaseInv, NoRole, RoleIds
    <3> QED
      BY <3>1 DEF Effective
  <2>4. Effective(req[p].claim) \subseteq granted[req[p].user]
    BY <1>3, ResolveFacts DEF GrantedInv, BaseInv, Admitted, Anonymous
  <2>5. req'[p].acc \subseteq granted[req'[p].user]
    BY <1>3, <2>2, <2>3, <2>4, ResolveFacts DEF GrantedInv
  <2>6. \A v \in Users : /\ v \in cached' => cache'[v] \subseteq granted[v]
                         /\ keys'[v] # "none" => ApikeyManage \in granted[v]
    BY <2>1 DEF GrantedInv, GrantedBeforeUse
  <2>7. pc'[p] # "createKey"
    BY <2>2
  <2> QED
    BY <2>1, <2>2, <2>5, <2>6, <2>7, GrantedFrame
<1>4. ASSUME NEW p \in Procs, ResolveFails(p)
      PROVE GrantedInv'
  <2>1. UNCHANGED <<tree, direct, claims, granted, keys, cached, cache>>
    BY <1>4 DEF ResolveFails, tables, store, ghosts
  <2>2. Alone(p) /\ pc'[p] = "store" /\ req'[p].acc \subseteq granted[req'[p].user]
    BY <1>4, ResolveFailsFacts DEF GrantedInv
  <2>3. \A v \in Users : /\ v \in cached' => cache'[v] \subseteq granted[v]
                         /\ keys'[v] # "none" => ApikeyManage \in granted[v]
    BY <2>1 DEF GrantedInv, GrantedBeforeUse
  <2>4. pc'[p] # "createKey"
    BY <2>2
  <2> QED
    BY <2>1, <2>2, <2>3, <2>4, GrantedFrame
<1>5. ASSUME NEW p \in Procs, Store(p)
      PROVE GrantedInv'
  <2>1. UNCHANGED <<tree, direct, claims, granted, keys>>
    BY <1>5 DEF Store, tables
  <2>2. /\ cached' = cached \cup {req[p].user}
        /\ \A v \in Users : cache'[v] = IF v = req[p].user THEN req[p].acc ELSE cache[v]
    BY <1>5 DEF Store, TypeInv, TypeOK
  <2>3. req[p].acc \subseteq granted[req[p].user]
    BY <1>5, StoreFacts DEF GrantedInv
  <2>4. ASSUME NEW v \in Users
        PROVE  /\ v \in cached' => cache'[v] \subseteq granted[v]
               /\ keys'[v] # "none" => ApikeyManage \in granted[v]
    <3>1. /\ v \in cached => cache[v] \subseteq granted[v]
          /\ keys[v] # "none" => ApikeyManage \in granted[v]
      BY DEF GrantedInv, GrantedBeforeUse
    <3>2. CASE v = req[p].user
      BY <2>1, <2>2, <2>3, <3>1, <3>2
    <3>3. CASE v # req[p].user
      BY <2>1, <2>2, <3>1, <3>3
    <3> QED
      BY <3>2, <3>3
  <2>5. Alone(p) /\ pc'[p] \notin {"resolve", "store"}
    BY <1>5, StoreFacts DEF Endpoints, Administration
  <2>6. pc'[p] = "createKey" => ApikeyManage \in granted[req'[p].user]
    <3>1. ASSUME pc'[p] = "createKey"
          PROVE  /\ Allowed("createKey", req[p].acc) /\ req'[p].user = req[p].user
      BY <1>5, <3>1, StoreFacts
    <3> QED
      BY <2>3, <3>1 DEF Allowed
  <2> QED
    BY <2>1, <2>4, <2>5, <2>6, GrantedFrame
<1>6. ASSUME NEW p \in Procs, FindUsersWithRole(p) \/ FindUsersFails(p)
                                \/ ListRoles(p) \/ ListRolesFails(p)
      PROVE GrantedInv'
  <2>1. PICK roles, holders : Sweep(p, roles, holders)
    BY <1>6 DEF FindUsersWithRole, FindUsersFails, ListRoles, ListRolesFails
  <2>2. UNCHANGED <<tree, direct, claims, granted, keys, cached, cache>>
    BY <1>6 DEF FindUsersWithRole, FindUsersFails, ListRoles, ListRolesFails, tables,
                store, ghosts
  <2>3. Alone(p) /\ pc'[p] \notin {"resolve", "store", "createKey"}
    BY <2>1, SweepFacts
  <2> QED
    BY <2>2, <2>3, GrantedEnds
<1>7. ASSUME NEW p \in Procs, Invalidate(p)
      PROVE GrantedInv'
  <2>1. PICK u \in req[p].holders :
           /\ cached' = cached \ {u}
           /\ cache' = [cache EXCEPT ![u] = {}]
           /\ Sweep(p, req[p].roles, req[p].holders \ {u})
    BY <1>7 DEF Invalidate
  <2>2. UNCHANGED <<tree, direct, claims, granted, keys>>
    BY <1>7 DEF Invalidate, tables
  <2>3. \A v \in Users : v \in cached' => v \in cached /\ cache'[v] = cache[v]
    BY <2>1 DEF TypeInv, TypeOK
  <2>4. Alone(p) /\ pc'[p] \notin {"resolve", "store", "createKey"}
    BY <2>1, SweepFacts
  <2> QED
    BY <2>2, <2>3, <2>4, GrantedEnds
<1>8. ASSUME NEW p \in Procs, NEW r \in RoleIds, NEW S \in Given,
             UpdateRole(p, r, S) \/ UpdateRoleUnanswered(p, r, S)
      PROVE GrantedInv'
  <2>1. /\ UNCHANGED <<tree, claims, keys, cached, cache>>
        /\ direct' = [direct EXCEPT ![r] = S \cup (@ \cap req[p].late)]
        /\ granted' = Granting(r, S)
        /\ pc'[p] \in {"idle", "listRoles"}
        /\ \A q \in Procs \ {p} : pc'[q] = pc[q] /\ SameBut(req'[q], req[q])
    BY <1>8, CommitFacts DEF store
  <2>2. \A v \in Users : granted'[v] = granted[v] \cup
           (IF \E c \in claims[v] : r \in Ancestors(c) THEN S ELSE {})
    BY <2>1 DEF Granting
  <2>3. ASSUME NEW v \in Users, NEW c \in claims'[v]
        PROVE  Effective(c)' \subseteq granted'[v]
    <3>1. c \in claims[v] /\ Effective(c) \subseteq granted[v]
      BY <2>1, <2>3 DEF GrantedInv
    <3>2. Ancestors(c) \subseteq RoleIds
      BY <3>1, MaxRolesAssumption, AncestorsBelow
      DEF Ancestors, RoleIds, TypeInv, TypeOK
    <3>3. Effective(c)' = UNION {direct'[x] : x \in Ancestors(c)}
      BY <2>1 DEF Effective, Ancestors, tree
    <3>4. ASSUME NEW x \in Ancestors(c)
          PROVE  direct'[x] \subseteq granted'[v]
      <4>1. CASE x = r
        <5>1. direct'[x] \subseteq S \cup direct[x]
          BY <2>1, <4>1 DEF TypeInv, TypeOK, RolesTypeOK
        <5>2. granted'[v] = granted[v] \cup S
          BY <2>2, <3>1, <4>1
        <5>3. direct[x] \subseteq granted[v]
          BY <3>1 DEF Effective
        <5> QED
          BY <5>1, <5>2, <5>3
      <4>2. CASE x # r
        <5>1. direct'[x] = direct[x] /\ direct[x] \subseteq Effective(c)
          BY <2>1, <3>2, <4>2 DEF Effective, TypeInv, TypeOK, RolesTypeOK
        <5> QED
          BY <2>2, <3>1, <5>1
      <4> QED
        BY <4>1, <4>2
    <3> QED
      BY <3>3, <3>4
  <2>4. \A v \in Users : granted[v] \subseteq granted'[v]
    BY <2>2
  <2>5. \A q \in Procs :
           \/ pc'[q] \in {"idle", "listRoles"}
           \/ pc'[q] = pc[q] /\ req'[q].acc = req[q].acc /\ req'[q].user = req[q].user
    BY <2>1 DEF SameBut
  <2> QED
    BY <2>1, <2>3, <2>4, <2>5, GrantedGrows
<1>9. ASSUME NEW p \in Procs, NEW above \in RoleIds \cup {NoRole}, InsertRole(p, above)
      PROVE GrantedInv'
  <2>1. CreateRole(above) /\ UNCHANGED <<claims, keys, cached, cache, granted>>
    BY <1>9 DEF InsertRole, store, ghosts
  <2>2. Alone(p) /\ pc'[p] = "idle"
    BY <1>9, FinishFacts DEF InsertRole
  <2>3. ASSUME NEW v \in Users, NEW c \in claims'[v]
        PROVE  Effective(c)' \subseteq granted'[v]
    <3>1. c \in Existing /\ Effective(c) \subseteq granted[v]
      BY <2>1, <2>3 DEF GrantedInv, BaseInv
    <3>2. Effective(c)' = Effective(c)
      BY <2>1, <3>1, CreateRoleFrame DEF TypeInv, TypeOK
    <3> QED
      BY <2>1, <3>1, <3>2
  <2> QED
    BY <2>1, <2>2, <2>3, GrantedGrows DEF Alone
<1>10. ASSUME NEW p \in Procs, NEW t \in Users \cup {NoUser}, NEW r \in RoleIds,
              CheckRank(p, t, r) \/ CheckRankFails(p, t, r)
       PROVE GrantedInv'
  <2>1. PICK doubtful : Give(p, t, r, doubtful)
    BY <1>10 DEF CheckRank, CheckRankFails
  <2>2. UNCHANGED <<tree, direct, claims, granted, keys, cached, cache>>
    BY <2>1 DEF Give, tables, store, ghosts
  <2>3. Alone(p) /\ pc'[p] \notin {"resolve", "store", "createKey"}
    BY <2>1, GiveFacts
  <2> QED
    BY <2>2, <2>3, GrantedEnds
<1>11. ASSUME NEW p \in Procs,
              UpdateUser(p) \/ UpdateUserUnanswered(p)
                \/ (\E t \in Users : CreateUser(p, t)) \/ NoEffect(p)
       PROVE GrantedInv'
  <2>1. (\E t : Sweep(p, {}, {t})) \/ Finish(p)
    BY <1>11 DEF UpdateUser, UpdateUserUnanswered, CreateUser, NoEffect
  <2>2. UNCHANGED <<tree, direct, claims, granted, keys, cached, cache>>
    BY <1>11 DEF UpdateUser, UpdateUserUnanswered, CreateUser, NoEffect, SetRole, tables,
                 store, ghosts
  <2>3. Alone(p) /\ pc'[p] \notin {"resolve", "store", "createKey"}
    BY <2>1, SweepFacts, FinishFacts
  <2> QED
    BY <2>2, <2>3, GrantedEnds
<1>12. ASSUME NEW p \in Procs, CreateKey(p) \/ \E k \in Users : RevokeKey(p, k)
       PROVE GrantedInv'
  <2>1. UNCHANGED <<tree, direct, claims, granted, cached, cache>> /\ Finish(p)
    BY <1>12 DEF CreateKey, RevokeKey, store, ghosts
  <2>2. Alone(p) /\ pc'[p] = "idle"
    BY <2>1, FinishFacts
  <2>3. ASSUME NEW v \in Users
        PROVE  keys'[v] # "none" => ApikeyManage \in granted[v]
    <3>1. keys[v] # "none" => ApikeyManage \in granted[v]
      BY DEF GrantedInv, GrantedBeforeUse
    <3>2. CASE CreateKey(p)
      <4>1. v = req[p].user => ApikeyManage \in granted[v]
        BY <3>2 DEF CreateKey, GrantedInv
      <4>2. v # req[p].user => keys'[v] = keys[v]
        BY <3>2 DEF CreateKey, ApiKey!Create, TypeInv, TypeOK, ApiKey!KeysTypeOK
      <4> QED
        BY <3>1, <4>1, <4>2
    <3>3. CASE \E k \in Users : RevokeKey(p, k)
      <4>1. PICK k \in Users : RevokeKey(p, k)
        BY <3>3
      <4>2. keys'[v] # "none" => keys[v] # "none"
        BY <4>1 DEF RevokeKey, ApiKey!Revoke, TypeInv, TypeOK, ApiKey!KeysTypeOK
      <4> QED
        BY <3>1, <4>2
    <3> QED
      BY <1>12, <3>2, <3>3
  <2>4. \A v \in Users : v \in cached' => cache'[v] \subseteq granted[v]
    BY <2>1 DEF GrantedInv, GrantedBeforeUse
  <2> QED
    BY <2>1, <2>2, <2>3, <2>4, GrantedFrame
<1>13. ASSUME Crash
       PROVE GrantedInv'
  <2>1. /\ UNCHANGED <<tree, direct, claims, granted, keys>> /\ cached' = {}
        /\ \A p \in Procs : pc'[p] = "idle"
    BY <1>13 DEF Crash, tables
  <2>2. \A c : Effective(c)' = Effective(c)
    BY <2>1 DEF Effective, Ancestors, tree
  <2> QED
    BY <2>1, <2>2 DEF GrantedInv, GrantedBeforeUse
<1>14. ASSUME NEW p \in Procs, NEW r \in RoleIds, DeletePermissions(p, r)
       PROVE GrantedInv'
  <2>1. Alone(p) /\ pc'[p] \notin {"resolve", "store", "createKey"}
    BY <1>14, DeleteFacts DEF Alone
  <2>2. UNCHANGED <<tree, direct, claims, granted, keys, cached, cache>>
    BY <1>14, DeleteFacts DEF tables, store, ghosts
  <2> QED
    BY <2>1, <2>2, GrantedEnds
<1>15. ASSUME UNCHANGED vars
       PROVE GrantedInv'
  <2>1. \A c : Effective(c)' = Effective(c)
    BY <1>15 DEF vars, tables, tree, Effective, Ancestors
  <2> QED
    BY <1>15, <2>1 DEF vars, tables, store, ghosts, GrantedInv, GrantedBeforeUse
<1> QED
  BY <1>1, <1>2, <1>3, <1>4, <1>5, <1>6, <1>7, <1>8, <1>9, <1>10, <1>11, <1>12, <1>13,
     <1>14, <1>15
  DEF Next, Proceed, Fail, CheckRefused

\* However resolutions, role updates and failures interleave, nobody is cached with or
\* gets a key by a permission that no role named in a token of his has ever carried.
THEOREM GrantedCorrect == Spec => []GrantedBeforeUse
<1>1. Spec => []GrantedInv
  BY BaseAlways, InitGranted, StepGranted, PTL DEF Spec
<1> QED
  BY <1>1, PTL DEF GrantedInv

-----------------------------------------------------------------------------
(* The highest rank is given to nobody *)

\* At most as high as a role some user had at first.
Seeded(r) == \E n \in SeedRanks : RoleRank(r) <= n

\* AdministratorsOnlyDwindle is about a step; it holds because no role in use or in a
\* token is above the first ones, and one that is about to be given is below a token's.
RankInv ==
    /\ misjudged \/ \A u \in Users : /\ roleOf[u] # NoRole => Seeded(roleOf[u])
                                     /\ \A c \in claims[u] : Seeded(c)
    /\ \A p \in Procs :
         pc[p] \in {"setRole", "insertUser"} /\ ~req[p].doubtful
             => req[p].given \in Existing /\ MayGive(p, req[p].given)

LEMMA SeedRanksAreNumbers == SeedRanks \subseteq Int
<1>1. \A u \in Users : SeedRole[u] \in Nat
  BY SeedAssumption
<1> QED
  BY <1>1, RankIsNumber DEF SeedRanks

LEMMA InitRank == Init => RankInv
<1> SUFFICES ASSUME Init PROVE RankInv
  OBVIOUS
<1>1. ASSUME NEW u \in Users, SeedRole[u] # NoRole
      PROVE  Seeded(SeedRole[u])
  <2>1. RankIn(SeedTree, SeedRole[u]) \in SeedRanks
    BY <1>1 DEF SeedRanks
  <2>2. RankIn(SeedTree, SeedRole[u]) \in Int
    BY <2>1, SeedRanksAreNumbers
  <2>3. RoleRank(SeedRole[u]) = RankIn(SeedTree, SeedRole[u])
    BY DEF Init, RoleRank
  <2>4. RoleRank(SeedRole[u]) <= RankIn(SeedTree, SeedRole[u])
    BY <2>2, <2>3
  <2> QED
    BY <2>1, <2>4 DEF Seeded
<1>2. ASSUME NEW u \in Users
      PROVE  /\ roleOf[u] # NoRole => Seeded(roleOf[u])
             /\ \A c \in claims[u] : Seeded(c)
  BY <1>1 DEF Init
<1>3. \A p \in Procs : pc[p] = "idle"
  BY DEF Init
<1> QED
  BY <1>2, <1>3 DEF RankInv

\* What RankInv says of one request.
Judged(p) ==
    pc[p] \in {"setRole", "insertUser"} /\ ~req[p].doubtful
        => req[p].given \in Existing /\ MayGive(p, req[p].given)

\* Steps of one request which give no role.
LEMMA RankFrame ==
  ASSUME RankInv, BaseInv, TypeInv, TypeInv', NEW p \in Procs, Alone(p),
         UNCHANGED <<tree, roleOf, claims, misjudged>>,
         pc'[p] \notin {"setRole", "insertUser"}
  PROVE  RankInv' /\ Administrators' = Administrators
<1>1. Existing' = Existing /\ \A r : RoleRank(r)' = RoleRank(r)
  BY DEF Existing, RoleRank, tree
<1>2. \A r : Seeded(r)' = Seeded(r) /\ IsTop(r)' = IsTop(r)
  BY <1>1 DEF Seeded, IsTop
<1>3. misjudged' \/ \A u \in Users : /\ roleOf'[u] # NoRole => Seeded(roleOf[u])'
                                     /\ \A c \in claims'[u] : Seeded(c)'
  BY <1>1 DEF RankInv, Seeded
<1>4. ASSUME NEW q \in Procs
      PROVE  pc'[q] \in {"setRole", "insertUser"} /\ ~req'[q].doubtful
                => req'[q].given \in Existing' /\ MayGive(q, req[q].given)'
  <2>1. CASE q = p
    BY <2>1
  <2>2. CASE q # p
    <3>1. pc'[q] = pc[q] /\ req'[q] = req[q]
      BY <2>2 DEF Alone
    <3>2. Judged(q)
      BY DEF RankInv, Judged
    <3> QED
      BY <1>1, <3>1, <3>2 DEF Judged, MayGive, RoleRank, tree
  <2> QED
    BY <2>1, <2>2
<1>5. Administrators' = Administrators
  BY <1>1 DEF Administrators, IsTop, RoleRank, tree
<1> QED
  BY <1>1, <1>3, <1>4, <1>5 DEF RankInv, MayGive, Seeded

\* The write of a role: unless it was misjudged, the role is below another one's.
LEMMA RankSetRole ==
  ASSUME RankInv, BaseInv, TypeInv, TypeInv', NEW p \in Procs, NEW t \in Users,
         SetRole(p, t), pc[p] \in {"setRole", "insertUser"},
         Alone(p), pc'[p] \in {"idle", "sweep"}
  PROVE  RankInv' /\ (misjudged' \/ Administrators' \subseteq Administrators)
<1> DEFINE g == req[p].given
<1>1. /\ \A u \in Users : roleOf'[u] = IF u = t THEN g ELSE roleOf[u]
      /\ UNCHANGED <<tree, claims>>
      /\ misjudged' = (misjudged \/ (req[p].doubtful /\ ~MayGive(p, g)))
  BY DEF SetRole, TypeInv, TypeOK
<1>2. Existing' = Existing /\ \A r : RoleRank(r)' = RoleRank(r)
  BY <1>1 DEF Existing, RoleRank, tree
<1>3. misjudged' \/ MayGive(p, g)
  BY <1>1 DEF RankInv
<1>4. ASSUME ~misjudged'
      PROVE  \E n \in SeedRanks : RoleRank(g) < n
  <2>1. ~misjudged /\ RoleRank(g) < RoleRank(req[p].claim)
    BY <1>1, <1>3, <1>4 DEF MayGive
  <2>2. req[p].user \in Users /\ req[p].claim \in claims[req[p].user]
    BY DEF TypeInv, RequestsOK, BaseInv, Admitted, Anonymous
  <2>3. PICK n \in SeedRanks : RoleRank(req[p].claim) <= n
    BY <2>1, <2>2 DEF RankInv, Seeded
  <2>4. RoleRank(g) \in Int /\ RoleRank(req[p].claim) \in Int /\ n \in Int
    <3>1. g \in Nat /\ req[p].claim \in Nat
      BY MaxRolesAssumption DEF TypeInv, TypeOK, Request, RoleIds, NoRole
    <3> QED
      BY <3>1, RankIsNumber, SeedRanksAreNumbers DEF RoleRank
  <2> QED
    BY <2>1, <2>3, <2>4
<1> HIDE DEF g
<1>5. ASSUME ~misjudged'
      PROVE  /\ \A u \in Users : /\ roleOf'[u] # NoRole => Seeded(roleOf'[u])
                                 /\ \A c \in claims'[u] : Seeded(c)
             /\ ~IsTop(g)
  <2>1. PICK n \in SeedRanks : RoleRank(g) < n
    BY <1>4, <1>5
  <2>2. RoleRank(g) \in Int /\ n \in Int
    <3>1. g \in Nat
      BY MaxRolesAssumption DEF g, TypeInv, TypeOK, Request, RoleIds, NoRole
    <3> QED
      BY <3>1, RankIsNumber, SeedRanksAreNumbers DEF RoleRank
  <2>3. Seeded(g) /\ ~IsTop(g)
    BY <2>1, <2>2 DEF Seeded, IsTop
  <2>4. ~misjudged
    BY <1>1, <1>5
  <2> QED
    BY <1>1, <2>3, <2>4 DEF RankInv
<1>6. misjudged' \/ \A u \in Users : /\ roleOf'[u] # NoRole => Seeded(roleOf[u])'
                                     /\ \A c \in claims'[u] : Seeded(c)'
  BY <1>2, <1>5 DEF Seeded
<1>7. ASSUME NEW q \in Procs
      PROVE  pc'[q] \in {"setRole", "insertUser"} /\ ~req'[q].doubtful
                => req'[q].given \in Existing' /\ MayGive(q, req[q].given)'
  <2>1. CASE q = p
    BY <2>1
  <2>2. CASE q # p
    <3>1. pc'[q] = pc[q] /\ req'[q] = req[q]
      BY <2>2 DEF Alone
    <3> QED
      BY <1>1, <1>2, <3>1 DEF RankInv, MayGive, RoleRank, tree
  <2> QED
    BY <2>1, <2>2
<1>8. ASSUME ~misjudged', NEW u \in Users, IsTop(roleOf[u])'
      PROVE  IsTop(roleOf[u])
  <2>1. IsTop(roleOf'[u])
    BY <1>1, <1>8 DEF IsTop, RoleRank, tree
  <2> QED
    BY <1>1, <1>5, <1>8, <2>1
<1>9. misjudged' \/ Administrators' \subseteq Administrators
  BY <1>8 DEF Administrators
<1> QED
  BY <1>6, <1>7, <1>9 DEF RankInv

LEMMA StepRank ==
  RankInv /\ BaseInv /\ TypeInv /\ TypeInv' /\ [Next]_vars
    => RankInv' /\ (misjudged' \/ Administrators' \subseteq Administrators)
<1> SUFFICES ASSUME RankInv, BaseInv, TypeInv, TypeInv', [Next]_vars
             PROVE  RankInv' /\ (misjudged' \/ Administrators' \subseteq Administrators)
  OBVIOUS
<1> DEFINE Goal == RankInv' /\ (misjudged' \/ Administrators' \subseteq Administrators)
<1>1. ASSUME NEW u \in Users, IssueToken(u)
      PROVE  Goal
  <2>1. /\ UNCHANGED <<tree, roleOf, misjudged, pc, req>>
        /\ \A v \in Users : claims'[v] = IF v = u THEN claims[v] \cup {roleOf[u]}
                                                  ELSE claims[v]
        /\ roleOf[u] # NoRole
    BY <1>1 DEF IssueToken, TypeInv, TypeOK, tables
  <2>2. Existing' = Existing /\ \A r : RoleRank(r)' = RoleRank(r)
    BY <2>1 DEF Existing, RoleRank, tree
  <2>3. ASSUME ~misjudged, NEW v \in Users
        PROVE  /\ roleOf[v] # NoRole => Seeded(roleOf[v])
               /\ \A c \in claims'[v] : Seeded(c)
    <3>1. \A w \in Users : /\ roleOf[w] # NoRole => Seeded(roleOf[w])
                           /\ \A c \in claims[w] : Seeded(c)
      BY <2>3 DEF RankInv
    <3> QED
      BY <2>1, <3>1
  <2>4. misjudged' \/ \A v \in Users : /\ roleOf'[v] # NoRole => Seeded(roleOf[v])'
                                       /\ \A c \in claims'[v] : Seeded(c)'
    BY <2>1, <2>2, <2>3 DEF Seeded
  <2>5. \A q \in Procs :
          pc'[q] \in {"setRole", "insertUser"} /\ ~req'[q].doubtful
             => req'[q].given \in Existing' /\ MayGive(q, req[q].given)'
    BY <2>1, <2>2 DEF RankInv, MayGive
  <2>6. Administrators' = Administrators
    BY <2>1 DEF Administrators, IsTop, RoleRank, tree
  <2> QED
    BY <2>4, <2>5, <2>6 DEF RankInv
<1>2. ASSUME NEW p \in Procs, NEW u \in Users, NEW c \in RoleIds, NEW call \in Calls,
             CheckCached(p, u, c, call) \/ CheckUncached(p, u, c, call)
      PROVE  Goal
  <2>1. UNCHANGED <<tree, roleOf, claims, misjudged>>
    BY <1>2 DEF CheckCached, CheckUncached, Arrive, tables, ghosts
  <2>2. Begun(p, u, c)
    BY <1>2, CheckFacts
  <2>3. Alone(p) /\ pc'[p] \notin {"setRole", "insertUser"}
    BY <2>2 DEF Begun, Endpoints, Administration
  <2> QED
    BY <2>1, <2>3, RankFrame
<1>3. ASSUME NEW p \in Procs, Resolve(p) \/ ResolveFails(p) \/ Store(p)
      PROVE  Goal
  <2>1. UNCHANGED <<tree, roleOf, claims, misjudged>>
    BY <1>3 DEF Resolve, ResolveFails, Store, tables, ghosts
  <2>2. Alone(p) /\ pc'[p] \in {"resolve", "store", "idle"} \cup Endpoints
    BY <1>3, ResolveFacts, ResolveFailsFacts, StoreFacts
  <2>3. pc'[p] \notin {"setRole", "insertUser"}
    BY <2>2 DEF Endpoints, Administration
  <2> QED
    BY <2>1, <2>2, <2>3, RankFrame
<1>4. ASSUME NEW p \in Procs, FindUsersWithRole(p) \/ FindUsersFails(p) \/ Invalidate(p)
                                \/ ListRoles(p) \/ ListRolesFails(p)
      PROVE  Goal
  <2>1. PICK roles, holders : Sweep(p, roles, holders)
    BY <1>4 DEF FindUsersWithRole, FindUsersFails, Invalidate, ListRoles, ListRolesFails
  <2>2. UNCHANGED <<tree, roleOf, claims, misjudged>>
    BY <1>4 DEF FindUsersWithRole, FindUsersFails, Invalidate, ListRoles, ListRolesFails,
                tables, ghosts
  <2>3. Alone(p) /\ pc'[p] \notin {"setRole", "insertUser"}
    BY <2>1, SweepFacts
  <2> QED
    BY <2>2, <2>3, RankFrame
<1>5. ASSUME NEW p \in Procs, NEW r \in RoleIds, NEW S \in Given,
             UpdateRole(p, r, S) \/ UpdateRoleUnanswered(p, r, S)
      PROVE  Goal
  <2>1. /\ UNCHANGED <<tree, roleOf, claims, misjudged>>
        /\ pc'[p] \in {"idle", "listRoles"}
        /\ \A q \in Procs \ {p} : pc'[q] = pc[q] /\ SameBut(req'[q], req[q])
    BY <1>5, CommitFacts
  <2>2. Existing' = Existing /\ \A r1 : RoleRank(r1)' = RoleRank(r1)
    BY <2>1 DEF Existing, RoleRank, tree
  <2>3. misjudged' \/ \A v \in Users : /\ roleOf'[v] # NoRole => Seeded(roleOf[v])'
                                       /\ \A c \in claims'[v] : Seeded(c)'
    BY <2>1, <2>2 DEF RankInv, Seeded
  <2>4. ASSUME NEW q \in Procs
        PROVE  pc'[q] \in {"setRole", "insertUser"} /\ ~req'[q].doubtful
                 => req'[q].given \in Existing' /\ MayGive(q, req[q].given)'
    <3>1. CASE q = p
      BY <2>1, <3>1
    <3>2. CASE q # p
      <4>1. /\ pc'[q] = pc[q] /\ req'[q].given = req[q].given
            /\ req'[q].doubtful = req[q].doubtful /\ req'[q].claim = req[q].claim
        BY <2>1, <3>2 DEF SameBut
      <4> QED
        BY <2>1, <2>2, <4>1 DEF RankInv, MayGive, RoleRank, tree
    <3> QED
      BY <3>1, <3>2
  <2>5. Administrators' = Administrators
    BY <2>1 DEF Administrators, IsTop, RoleRank, tree
  <2> QED
    BY <2>3, <2>4, <2>5 DEF RankInv
<1>6. ASSUME NEW p \in Procs, NEW above \in RoleIds \cup {NoRole}, InsertRole(p, above)
      PROVE  Goal
  <2>1. CreateRole(above) /\ UNCHANGED <<roleOf, claims, misjudged>>
    BY <1>6 DEF InsertRole, ghosts
  <2>2. Alone(p) /\ pc'[p] = "idle"
    BY <1>6, FinishFacts DEF InsertRole
  <2>3. /\ Existing \subseteq Existing'
        /\ \A r \in Existing \cup {NoRole} : RankIn(parent', r) = RankIn(parent, r)
    <3>1. \A r \in Existing \cup {NoRole} : RoleRank(r)' = RoleRank(r)
      BY <2>1, CreateRoleFrame DEF TypeInv, TypeOK
    <3>2. Existing \subseteq Existing'
      BY <2>1 DEF CreateRole, Existing, TypeInv, TypeOK, RolesTypeOK
    <3> QED
      BY <3>1, <3>2 DEF RoleRank
  <2>4. \A v \in Users : roleOf[v] \in Existing \cup {NoRole} /\ claims[v] \subseteq Existing
    BY DEF BaseInv
  <2>5. misjudged' \/ \A v \in Users : /\ roleOf'[v] # NoRole => Seeded(roleOf[v])'
                                       /\ \A c \in claims'[v] : Seeded(c)'
    BY <2>1, <2>3, <2>4 DEF RankInv, Seeded, RoleRank
  <2>6. ASSUME NEW q \in Procs
        PROVE  pc'[q] \in {"setRole", "insertUser"} /\ ~req'[q].doubtful
                 => req'[q].given \in Existing' /\ MayGive(q, req[q].given)'
    <3>1. CASE q = p
      BY <2>2, <3>1
    <3>2. CASE q # p
      <4>1. pc'[q] = pc[q] /\ req'[q] = req[q]
        BY <2>2, <3>2 DEF Alone
      <4>2. pc[q] \in {"setRole", "insertUser"} => req[q].claim \in Existing
        BY <2>4 DEF BaseInv, TypeInv, RequestsOK, Admitted, Anonymous
      <4> QED
        BY <2>3, <4>1, <4>2 DEF RankInv, MayGive, RoleRank
    <3> QED
      BY <3>1, <3>2
  <2>7. \A v \in Users : IsTop(roleOf[v])' <=> IsTop(roleOf[v])
    BY <2>1, <2>3, <2>4 DEF IsTop, RoleRank
  <2> QED
    BY <2>5, <2>6, <2>7 DEF RankInv, Administrators
<1>7. ASSUME NEW p \in Procs, NEW t \in Users \cup {NoUser}, NEW r \in RoleIds,
             CheckRank(p, t, r) \/ CheckRankFails(p, t, r)
      PROVE  Goal
  <2>1. PICK doubtful : /\ Give(p, t, r, doubtful)
                        /\ ~doubtful => r \in Existing /\ MayGive(p, r)
    BY <1>7 DEF CheckRank, CheckRankFails
  <2>2. UNCHANGED <<tree, roleOf, claims, misjudged>>
    BY <2>1 DEF Give, tables, ghosts
  <2>3. Existing' = Existing /\ \A r1 : RoleRank(r1)' = RoleRank(r1)
    BY <2>2 DEF Existing, RoleRank, tree
  <2>4. misjudged' \/ \A v \in Users : /\ roleOf'[v] # NoRole => Seeded(roleOf[v])'
                                       /\ \A c \in claims'[v] : Seeded(c)'
    BY <2>2, <2>3 DEF RankInv, Seeded
  <2>5. ASSUME NEW q \in Procs
        PROVE  pc'[q] \in {"setRole", "insertUser"} /\ ~req'[q].doubtful
                 => req'[q].given \in Existing' /\ MayGive(q, req[q].given)'
    <3>1. CASE q = p
      <4>1. /\ req'[p].given = r /\ req'[p].doubtful = doubtful
            /\ req'[p].claim = req[p].claim
        BY <2>1, GiveFacts
      <4>2. ~doubtful => r \in Existing /\ RoleRank(r) < RoleRank(req[p].claim)
        BY <2>1 DEF MayGive
      <4> QED
        BY <2>2, <2>3, <3>1, <4>1, <4>2 DEF MayGive, RoleRank, tree
    <3>2. CASE q # p
      <4>1. pc'[q] = pc[q] /\ req'[q] = req[q]
        BY <2>1, <3>2, GiveFacts DEF Alone
      <4> QED
        BY <2>2, <2>3, <4>1 DEF RankInv, MayGive, RoleRank, tree
    <3> QED
      BY <3>1, <3>2
  <2>6. Administrators' = Administrators
    BY <2>2 DEF Administrators, IsTop, RoleRank, tree
  <2> QED
    BY <2>4, <2>5, <2>6 DEF RankInv
<1>8. ASSUME NEW p \in Procs, UpdateUser(p)
      PROVE  Goal
  <2>1. PICK t \in Users : t = req[p].target
    BY <1>8 DEF UpdateUser, TypeInv, RequestsOK
  <2>2. SetRole(p, t) /\ Sweep(p, {}, {t}) /\ pc[p] = "setRole"
    BY <1>8, <2>1 DEF UpdateUser
  <2> QED
    BY <2>2, SweepFacts, RankSetRole
<1>9. ASSUME NEW p \in Procs, UpdateUserUnanswered(p)
      PROVE  Goal
  <2>1. PICK t \in Users : t = req[p].target
    BY <1>9 DEF UpdateUserUnanswered, TypeInv, RequestsOK
  <2>2. SetRole(p, t) /\ Finish(p) /\ pc[p] = "setRole"
    BY <1>9, <2>1 DEF UpdateUserUnanswered
  <2> QED
    BY <2>2, FinishFacts, RankSetRole
<1>10. ASSUME NEW p \in Procs, NEW t \in Users, CreateUser(p, t)
       PROVE  Goal
  BY <1>10, FinishFacts, RankSetRole DEF CreateUser
<1>11. ASSUME NEW p \in Procs,
              CreateKey(p) \/ (\E k \in Users : RevokeKey(p, k)) \/ NoEffect(p)
       PROVE  Goal
  <2>1. Finish(p) /\ UNCHANGED <<tree, roleOf, claims, misjudged>>
    BY <1>11 DEF CreateKey, RevokeKey, NoEffect, tables, ghosts
  <2> QED
    BY <2>1, FinishFacts, RankFrame
<1>12. ASSUME Crash
       PROVE  Goal
  <2>1. /\ UNCHANGED <<tree, roleOf, claims, misjudged>>
        /\ \A p \in Procs : pc'[p] = "idle"
    BY <1>12 DEF Crash, tables
  <2> QED
    BY <2>1 DEF RankInv, Seeded, RoleRank, tree, Administrators, IsTop
<1>13. ASSUME NEW p \in Procs, NEW r \in RoleIds, DeletePermissions(p, r)
       PROVE  Goal
  <2>1. Alone(p) /\ pc'[p] \notin {"setRole", "insertUser"}
    BY <1>13, DeleteFacts DEF Alone
  <2>2. UNCHANGED <<tree, roleOf, claims, misjudged>>
    BY <1>13, DeleteFacts DEF tables, ghosts
  <2> QED
    BY <2>1, <2>2, RankFrame
<1>14. ASSUME UNCHANGED vars
       PROVE  Goal
  BY <1>14 DEF vars, tables, tree, ghosts, RankInv, Seeded, RoleRank, MayGive, Existing,
               Administrators, IsTop
<1> QED
  BY <1>1, <1>2, <1>3, <1>4, <1>5, <1>6, <1>7, <1>8, <1>9, <1>10, <1>11, <1>12, <1>13,
     <1>14
  DEF Next, Proceed, Fail, CheckRefused

\* Nobody is ever raised to the highest rank, however updates, new roles and failures
\* interleave, but by a rank misjudged from a failed query or a role not there yet.
THEOREM AdministratorsCorrect == Spec => AdministratorsOnlyDwindle
<1>1. BaseInv /\ TypeInv /\ TypeInv' /\ RankInv /\ [Next]_vars
         => [misjudged' \/ Administrators' \subseteq Administrators]_vars
  BY StepRank
<1>2. Spec => []RankInv
  BY BaseAlways, InitRank, StepRank, PTL DEF Spec
<1> QED
  BY <1>1, <1>2, BaseAlways, PTL DEF Spec, AdministratorsOnlyDwindle

-----------------------------------------------------------------------------
(* The way of a request to its end *)

\* Nobody else's request is moved by a step of request p.
OthersStay(p) == \A q \in Procs \ {p} : Stays(q)

LEMMA AloneStay ==
  ASSUME NEW p \in Procs, Alone(p)
  PROVE  OthersStay(p)
BY DEF Alone, OthersStay, Stays

\* A step that ends the request, from wherever it is.
LEMMA EndAdvances ==
  ASSUME TypeInv, NEW p \in Procs, pc[p] # "idle", pc'[p] = "idle"
  PROVE  Advances(p)
<1>1. pc[p] \in Steps \ {"idle"}
  BY DEF TypeInv, TypeOK
<1> QED
  BY <1>1 DEF Advances, Stage, Steps, Endpoints, Administration

LEMMA FinishAdvances ==
  ASSUME TypeInv, NEW p \in Procs, pc[p] # "idle", Finish(p)
  PROVE  Advances(p) /\ OthersStay(p)
BY FinishFacts, AloneStay, EndAdvances

LEMMA SweepAdvances ==
  ASSUME TypeInv, NEW p \in Procs, NEW roles, NEW holders, Sweep(p, roles, holders),
         \/ pc[p] \in {"listRoles", "setRole"}
         \/ /\ pc[p] = "sweep" /\ roles \subseteq req[p].roles
            /\ roles = req[p].roles => holders \subseteq req[p].holders
            /\ roles # req[p].roles \/ holders # req[p].holders
  PROVE  Advances(p) /\ OthersStay(p)
<1>1. /\ Alone(p)
      /\ \/ pc'[p] = "idle"
         \/ pc'[p] = "sweep" /\ req'[p].roles = roles /\ req'[p].holders = holders
  BY SweepFacts
<1>2. CASE pc'[p] = "idle"
  BY <1>1, <1>2, EndAdvances, AloneStay
<1>3. CASE pc'[p] = "sweep" /\ req'[p].roles = roles /\ req'[p].holders = holders
  BY <1>1, <1>3, AloneStay DEF Advances, Stage, Endpoints, Administration
<1> QED
  BY <1>1, <1>2, <1>3

\* The parent of a role has a lower id: the one place where the tree matters.
LEMMA ResolveAdvances ==
  ASSUME TypeInv, BaseInv, NEW p \in Procs, Resolve(p)
  PROVE  Advances(p) /\ OthersStay(p)
<1>1. /\ Alone(p) /\ pc[p] = "resolve" /\ req[p].cur \in RoleIds
      /\ req'[p].cur = parent[req[p].cur]
      /\ pc'[p] = IF parent[req[p].cur] = NoRole THEN "store" ELSE "resolve"
  BY ResolveFacts
<1>2. parent[req[p].cur] < req[p].cur
  BY <1>1 DEF BaseInv, Forest
<1> QED
  BY <1>1, <1>2, AloneStay DEF Advances, Stage, Endpoints, Administration

LEMMA StoreAdvances ==
  ASSUME TypeInv, NEW p \in Procs, Store(p)
  PROVE  Advances(p) /\ OthersStay(p)
<1>1. Alone(p) /\ pc[p] = "store" /\ pc'[p] \in Endpoints \cup {"idle"}
  BY StoreFacts
<1> QED
  BY <1>1, AloneStay DEF Advances, Stage, Endpoints, Administration

LEMMA CommitAdvances ==
  ASSUME TypeInv, NEW p \in Procs, NEW r \in RoleIds, NEW S \in Given,
         UpdateRole(p, r, S) \/ UpdateRoleUnanswered(p, r, S)
  PROVE  Advances(p) /\ OthersStay(p)
<1>1. /\ pc[p] = "savePermissions" /\ pc'[p] \in {"listRoles", "idle"}
      /\ \A q \in Procs \ {p} : pc'[q] = pc[q] /\ SameBut(req'[q], req[q])
  BY CommitFacts
<1> QED
  BY <1>1 DEF Advances, Stage, Endpoints, Administration, OthersStay, Stays, SameBut

LEMMA DeleteAdvances ==
  ASSUME TypeInv, NEW p \in Procs, NEW r \in RoleIds, DeletePermissions(p, r)
  PROVE  Advances(p) /\ OthersStay(p)
<1>1. Alone(p) /\ pc[p] = "updateRole" /\ pc'[p] = "savePermissions"
  BY DeleteFacts DEF Alone
<1> QED
  BY <1>1, AloneStay DEF Advances, Stage, Endpoints, Administration

LEMMA GiveAdvances ==
  ASSUME TypeInv, NEW p \in Procs, NEW t, NEW r, NEW doubtful, Give(p, t, r, doubtful)
  PROVE  Advances(p) /\ OthersStay(p)
<1>1. /\ Alone(p) /\ pc[p] \in {"updateUser", "createUser"}
      /\ pc'[p] \in {"setRole", "insertUser"}
  BY GiveFacts
<1> QED
  BY <1>1, AloneStay DEF Advances, Stage, Endpoints, Administration

\* Every statement of a request, also one that fails, takes it further.
LEMMA RequestAdvances ==
  ASSUME TypeInv, BaseInv, NEW p \in Procs, Proceed(p) \/ Fail(p)
  PROVE  Advances(p) /\ OthersStay(p)
<1>1. CASE \/ ListRoles(p) \/ ListRolesFails(p) \/ UpdateUser(p)
  <2>1. /\ pc[p] \in {"listRoles", "setRole"}
        /\ \E roles, holders : Sweep(p, roles, holders)
    BY <1>1 DEF ListRoles, ListRolesFails, UpdateUser
  <2> QED
    BY <2>1, SweepAdvances
<1>2. CASE FindUsersWithRole(p) \/ FindUsersFails(p)
  <2>1. /\ pc[p] = "sweep"
        /\ \E r \in req[p].roles : \E holders : Sweep(p, req[p].roles \ {r}, holders)
    BY <1>2 DEF FindUsersWithRole, FindUsersFails
  <2>2. PICK r \in req[p].roles : \E holders : Sweep(p, req[p].roles \ {r}, holders)
    BY <2>1
  <2>3. req[p].roles \ {r} \subseteq req[p].roles /\ req[p].roles \ {r} # req[p].roles
    OBVIOUS
  <2> QED
    BY <2>1, <2>2, <2>3, SweepAdvances
<1>3. CASE Invalidate(p)
  <2>1. /\ pc[p] = "sweep"
        /\ \E u \in req[p].holders : Sweep(p, req[p].roles, req[p].holders \ {u})
    BY <1>3 DEF Invalidate
  <2> QED
    BY <2>1, SweepAdvances
<1>4. CASE \/ \E above \in RoleIds \cup {NoRole} : InsertRole(p, above)
           \/ UpdateUserUnanswered(p)
           \/ \E t \in Users : CreateUser(p, t)
           \/ CreateKey(p) \/ (\E k \in Users : RevokeKey(p, k)) \/ NoEffect(p)
  BY <1>4, FinishAdvances
  DEF InsertRole, UpdateUserUnanswered, CreateUser, CreateKey, RevokeKey, NoEffect,
      Endpoints, Administration
<1>5. CASE \E t \in Users \cup {NoUser}, r \in RoleIds :
              CheckRank(p, t, r) \/ CheckRankFails(p, t, r)
  BY <1>5, GiveAdvances DEF CheckRank, CheckRankFails
<1>6. CASE ResolveFails(p)
  <2>1. Alone(p) /\ pc[p] = "resolve" /\ pc'[p] = "store"
    BY <1>6, ResolveFailsFacts DEF ResolveFails, Goto, TypeInv, TypeOK
  <2> QED
    BY <2>1, AloneStay DEF Advances, Stage, Endpoints, Administration
<1> QED
  BY <1>1, <1>2, <1>3, <1>4, <1>5, <1>6, ResolveAdvances, StoreAdvances,
     DeleteAdvances, CommitAdvances
  DEF Proceed, Fail

\* For every tree of roles, any users and any number of requests: each statement of a
\* request takes it on, to a later stage, a lower role or a smaller sweep, and neither
\* others nor failures set it back (InvalidationArrives without its fairness).
THEOREM AdvanceCorrect == Spec => ChecksAndSweepsAdvance
<1> DEFINE Advance == \A p \in Procs :
              /\ pc[p] # "idle" => Stays(p) \/ Advances(p)
              /\ Proceed(p) => Advances(p)
<1>1. ASSUME TypeInv, BaseInv, [Next]_vars
      PROVE  Advance
  <2> SUFFICES ASSUME NEW p \in Procs, pc[p] # "idle", ~Proceed(p)
               PROVE  Stays(p) \/ Advances(p)
    BY <1>1, RequestAdvances
  <2>1. ASSUME NEW q \in Procs, Proceed(q) \/ Fail(q)
        PROVE  Stays(p) \/ Advances(p)
    BY <1>1, <2>1, RequestAdvances DEF OthersStay
  <2>2. ASSUME NEW q \in Procs, NEW u \in Users, NEW c \in RoleIds, NEW call \in Calls,
               CheckCached(q, u, c, call) \/ CheckUncached(q, u, c, call)
        PROVE  Stays(p)
    BY <1>1, <2>2, CheckFacts, AloneStay DEF Begun, OthersStay
  <2>3. CASE UNCHANGED <<pc, req>>
    BY <2>3 DEF Stays
  <2>4. CASE Crash
    BY <1>1, <2>4, EndAdvances DEF Crash
  <2> QED
    BY <1>1, <2>1, <2>2, <2>3, <2>4 DEF Next, IssueToken, CheckRefused, vars
<1> QED
  BY <1>1, BaseAlways, PTL DEF Spec, ChecksAndSweepsAdvance

-----------------------------------------------------------------------------
(* When the rank check judges right *)

\* A role comes into being that a request, its rank check behind it, is about to give.
LateRole == \E q \in Procs : /\ pc[q] \in {"setRole", "insertUser"}
                             /\ req[q].given \in Existing' \ Existing

\* A query of RoleRank fails for a role that exists: its rank comes out too low.
RankQueryFails == \E p \in Procs, t \in Users \cup {NoUser}, r \in Existing :
                      CheckRankFails(p, t, r)

\* Only the check of a role that is still not there is in doubt.
JudgedInv ==
    /\ ~misjudged
    /\ \A p \in Procs : pc[p] \in {"setRole", "insertUser"} /\ req[p].doubtful
                           => req[p].given \notin Existing

\* Steps that add no role and after which nobody is newly about to give one.
LEMMA JudgedFrame ==
  ASSUME JudgedInv, UNCHANGED <<tree, misjudged>>,
         \A q \in Procs : pc'[q] \in {"setRole", "insertUser"}
            => /\ pc[q] = pc'[q] /\ req'[q].given = req[q].given
               /\ req'[q].doubtful = req[q].doubtful
  PROVE  JudgedInv'
BY DEF JudgedInv, Existing, tree

\* A request about to give a role that exists is not in doubt.
LEMMA JudgedSetRole ==
  ASSUME JudgedInv, TypeInv, NEW p \in Procs, NEW t, SetRole(p, t),
         pc[p] \in {"setRole", "insertUser"}, Alone(p), pc'[p] \in {"idle", "sweep"}
  PROVE  JudgedInv'
<1>1. ~req[p].doubtful
  BY DEF SetRole, JudgedInv
<1>2. UNCHANGED <<tree, misjudged>>
  <2>1. tree' = tree
    BY DEF SetRole
  <2>2. misjudged' = (misjudged \/ (req[p].doubtful /\ ~MayGive(p, req[p].given)))
    BY DEF SetRole
  <2>3. misjudged = FALSE
    BY DEF JudgedInv, TypeInv, TypeOK
  <2>4. misjudged' = FALSE
    BY <1>1, <2>2, <2>3
  <2> QED
    BY <2>1, <2>3, <2>4
<1>3. \A q \in Procs : pc'[q] \in {"setRole", "insertUser"}
                       => pc[q] = pc'[q] /\ req'[q] = req[q]
  BY DEF Alone
<1> QED
  BY <1>2, <1>3, JudgedFrame

LEMMA StepJudged ==
  ASSUME JudgedInv, TypeInv, [Next]_vars, [~LateRole]_vars, [~RankQueryFails]_vars
  PROVE  JudgedInv'
<1>1. ASSUME NEW p \in Procs, Alone(p), UNCHANGED <<tree, misjudged>>,
             pc'[p] \notin {"setRole", "insertUser"}
      PROVE  JudgedInv'
  <2>1. \A q \in Procs : pc'[q] \in {"setRole", "insertUser"}
                         => pc[q] = pc'[q] /\ req'[q] = req[q]
    BY <1>1 DEF Alone
  <2> QED
    BY <1>1, <2>1, JudgedFrame
<1>2. ASSUME UNCHANGED <<tree, misjudged, pc, req>>
      PROVE  JudgedInv'
  BY <1>2, JudgedFrame
<1>3. ASSUME NEW p \in Procs, NEW u \in Users, NEW c \in RoleIds, NEW call \in Calls,
             CheckCached(p, u, c, call) \/ CheckUncached(p, u, c, call)
      PROVE  JudgedInv'
  <2>1. UNCHANGED <<tree, misjudged>>
    BY <1>3 DEF CheckCached, CheckUncached, Arrive, tables, ghosts
  <2>2. Begun(p, u, c)
    BY <1>3, CheckFacts
  <2>3. Alone(p) /\ pc'[p] \notin {"setRole", "insertUser"}
    BY <2>2 DEF Begun, Endpoints, Administration
  <2> QED
    BY <1>1, <2>1, <2>3
<1>4. ASSUME NEW p \in Procs, Resolve(p) \/ ResolveFails(p) \/ Store(p)
      PROVE  JudgedInv'
  <2>1. UNCHANGED <<tree, misjudged>>
    BY <1>4 DEF Resolve, ResolveFails, Store, tables, ghosts
  <2>2. Alone(p) /\ pc'[p] \in {"resolve", "store", "idle"} \cup Endpoints
    BY <1>4, ResolveFacts, ResolveFailsFacts, StoreFacts
  <2>3. pc'[p] \notin {"setRole", "insertUser"}
    BY <2>2 DEF Endpoints, Administration
  <2> QED
    BY <1>1, <2>1, <2>2, <2>3
<1>5. ASSUME NEW p \in Procs, FindUsersWithRole(p) \/ FindUsersFails(p) \/ Invalidate(p)
                                \/ ListRoles(p) \/ ListRolesFails(p)
      PROVE  JudgedInv'
  <2>1. PICK roles, holders : Sweep(p, roles, holders)
    BY <1>5 DEF FindUsersWithRole, FindUsersFails, Invalidate, ListRoles, ListRolesFails
  <2>2. UNCHANGED <<tree, misjudged>>
    BY <1>5 DEF FindUsersWithRole, FindUsersFails, Invalidate, ListRoles, ListRolesFails,
                tables, ghosts
  <2>3. Alone(p) /\ pc'[p] \notin {"setRole", "insertUser"}
    BY <2>1, SweepFacts
  <2> QED
    BY <1>1, <2>2, <2>3
<1>6. ASSUME NEW p \in Procs, NEW r \in RoleIds, NEW S \in Given,
             UpdateRole(p, r, S) \/ UpdateRoleUnanswered(p, r, S)
      PROVE  JudgedInv'
  <2>1. /\ UNCHANGED <<tree, misjudged>>
        /\ pc'[p] \in {"idle", "listRoles"}
        /\ \A q \in Procs \ {p} : pc'[q] = pc[q] /\ SameBut(req'[q], req[q])
    BY <1>6, CommitFacts
  <2> QED
    BY <2>1, JudgedFrame DEF SameBut
<1>7. ASSUME NEW p \in Procs, NEW above \in RoleIds \cup {NoRole}, InsertRole(p, above)
      PROVE  JudgedInv'
  <2>1. Alone(p) /\ pc'[p] = "idle" /\ misjudged' = misjudged
    BY <1>7, FinishFacts DEF InsertRole, ghosts
  <2>2. vars' # vars
    BY <1>7 DEF InsertRole, CreateRole, vars, tables, tree, TypeInv, TypeOK, RolesTypeOK
  <2>3. ~LateRole
    BY <2>2
  <2>4. ASSUME NEW q \in Procs, pc'[q] \in {"setRole", "insertUser"}, req'[q].doubtful
        PROVE  req'[q].given \notin Existing'
    <3>1. pc[q] = pc'[q] /\ req[q] = req'[q]
      BY <2>1, <2>4 DEF Alone
    <3>2. req[q].given \notin Existing
      BY <2>4, <3>1 DEF JudgedInv
    <3> QED
      BY <2>3, <2>4, <3>1, <3>2 DEF LateRole
  <2> QED
    BY <2>1, <2>4 DEF JudgedInv
<1>8. ASSUME NEW p \in Procs, NEW t \in Users \cup {NoUser}, NEW r \in RoleIds,
             CheckRank(p, t, r) \/ CheckRankFails(p, t, r)
      PROVE  JudgedInv'
  <2>1. PICK doubtful : /\ Give(p, t, r, doubtful)
                        /\ CheckRank(p, t, r) => doubtful = (r \notin Existing)
    BY <1>8 DEF CheckRank, CheckRankFails
  <2>2. UNCHANGED <<tree, misjudged>>
    BY <2>1 DEF Give, tables, ghosts
  <2>3. /\ Alone(p) /\ pc'[p] # pc[p]
        /\ req'[p].given = r /\ req'[p].doubtful = doubtful
    BY <2>1, GiveFacts
  <2>4. ~RankQueryFails
    BY <2>3 DEF vars
  <2>5. doubtful => r \notin Existing
    BY <1>8, <2>1, <2>4 DEF RankQueryFails
  <2>6. ASSUME NEW q \in Procs, pc'[q] \in {"setRole", "insertUser"}, req'[q].doubtful
        PROVE  req'[q].given \notin Existing
    <3>1. CASE q = p
      BY <2>3, <2>5, <2>6, <3>1
    <3>2. CASE q # p
      BY <2>3, <2>6, <3>2 DEF Alone, JudgedInv
    <3> QED
      BY <3>1, <3>2
  <2>7. Existing' = Existing
    BY <2>2 DEF Existing, tree
  <2> QED
    BY <2>2, <2>6, <2>7 DEF JudgedInv
<1>9. ASSUME NEW p \in Procs,
             UpdateUser(p) \/ UpdateUserUnanswered(p) \/ (\E t \in Users : CreateUser(p, t))
      PROVE  JudgedInv'
  <2>1. PICK t : SetRole(p, t)
    BY <1>9 DEF UpdateUser, UpdateUserUnanswered, CreateUser
  <2>2. /\ pc[p] \in {"setRole", "insertUser"}
        /\ Finish(p) \/ \E roles, holders : Sweep(p, roles, holders)
    BY <1>9 DEF UpdateUser, UpdateUserUnanswered, CreateUser
  <2>3. Alone(p) /\ pc'[p] \in {"idle", "sweep"}
    BY <2>2, FinishFacts, SweepFacts
  <2> QED
    BY <2>1, <2>2, <2>3, JudgedSetRole
<1>10. ASSUME NEW p \in Procs,
              CreateKey(p) \/ (\E k \in Users : RevokeKey(p, k)) \/ NoEffect(p)
       PROVE  JudgedInv'
  <2>1. Finish(p) /\ UNCHANGED <<tree, misjudged>>
    BY <1>10 DEF CreateKey, RevokeKey, NoEffect, tables, ghosts
  <2> QED
    BY <1>1, <2>1, FinishFacts
<1>11. ASSUME Crash
       PROVE  JudgedInv'
  BY <1>11, JudgedFrame DEF Crash, tables
<1>12. ASSUME NEW p \in Procs, NEW r \in RoleIds, DeletePermissions(p, r)
       PROVE  JudgedInv'
  <2>1. Alone(p) /\ pc'[p] \notin {"setRole", "insertUser"}
    BY <1>12, DeleteFacts DEF Alone
  <2>2. UNCHANGED <<tree, misjudged>>
    BY <1>12, DeleteFacts DEF tables, ghosts
  <2> QED
    BY <1>1, <2>1, <2>2
<1>13. ASSUME (\E u \in Users : IssueToken(u)) \/ UNCHANGED vars
       PROVE  JudgedInv'
  BY <1>2, <1>13 DEF IssueToken, vars, tables, ghosts
<1> QED
  BY <1>3, <1>4, <1>5, <1>6, <1>7, <1>8, <1>9, <1>10, <1>11, <1>12, <1>13
  DEF Next, Proceed, Fail, CheckRefused

\* A late role and a failed query are all that lets the rank check (rbac_service.go:114)
\* be got round: without them the highest rank is given to nobody, whatever other
\* failures, old tokens, demotions and new roles there are.
THEOREM RankCheckCorrect ==
  Spec /\ [][~LateRole]_vars /\ [][~RankQueryFails]_vars
      => [][Administrators' \subseteq Administrators]_vars
<1>1. Init => JudgedInv
  BY DEF Init, JudgedInv
<1>2. JudgedInv /\ TypeInv /\ [Next]_vars /\ [~LateRole]_vars /\ [~RankQueryFails]_vars
         => JudgedInv'
  BY StepJudged
<1>3. BaseInv /\ TypeInv /\ TypeInv' /\ RankInv /\ [Next]_vars /\ JudgedInv'
         => [Administrators' \subseteq Administrators]_vars
  BY StepRank DEF JudgedInv
<1>4. Spec => []RankInv
  BY BaseAlways, InitRank, StepRank, PTL DEF Spec
<1> QED
  BY <1>1, <1>2, <1>3, <1>4, BaseAlways, PTL DEF Spec
=============================================================================
