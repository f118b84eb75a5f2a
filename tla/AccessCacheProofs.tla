-------------------------- MODULE AccessCacheProofs --------------------------
(* A cached set that is not what the tables say has a cause that Access names, *)
(* for every value of its constants.                                           *)
EXTENDS AccessProofs

\* A resolution under way that was not disturbed has gathered what the roles it has
\* read give now, and one that is to be stored has read them all.
Faithful(q) ==
    pc[q] \in {"resolve", "store"} /\ ~req[q].disturbed =>
        /\ req[q].acc = UNION {direct[x] : x \in AlreadyRead(q)}
        /\ pc[q] = "store" => req[q].cur = NoRole

\* StaleHasCause is not inductive: what is stored was gathered before.
StaleInv ==
    /\ \A q \in Procs : Faithful(q)
    /\ StaleHasCause

-----------------------------------------------------------------------------
(* What a resolution has read *)

\* The role read next is the only one its parent's ancestors lack.
LEMMA ReadNext ==
  ASSUME NEW above, Forest(above), NEW c \in RoleIds,
         NEW r \in RoleIds, r \in AncestorsIn(above, c)
  PROVE  AncestorsIn(above, c) \ AncestorsIn(above, above[r])
            = (AncestorsIn(above, c) \ AncestorsIn(above, r)) \cup {r}
BY AncestorsStep

LEMMA AlreadyReadIs ==
  ASSUME NEW q \in Procs
  PROVE  AlreadyRead(q) = Ancestors(req[q].claim) \ Ancestors(req[q].cur)
BY AncestorsOfNone DEF AlreadyRead, Ancestors

LEMMA AlreadyReadIsAfter ==
  ASSUME NEW q \in Procs
  PROVE  AlreadyRead(q)' = Ancestors(req[q].claim)' \ Ancestors(req[q].cur)'
BY AncestorsOfNone DEF AlreadyRead, Ancestors

\* Another request's step, the tree unchanged, leaves it alone.
LEMMA AlreadyReadSame ==
  ASSUME NEW q \in Procs, parent' = parent,
         req'[q].claim = req[q].claim, req'[q].cur = req[q].cur
  PROVE  AlreadyRead(q)' = AlreadyRead(q)
BY DEF AlreadyRead, Ancestors

LEMMA EffectiveSame ==
  ASSUME parent' = parent, direct' = direct, roleOf' = roleOf
  PROVE  \A u \in Users : Effective(roleOf[u])' = Effective(roleOf[u])
BY DEF Effective, Ancestors

LEMMA FaithfulSame ==
  ASSUME NEW q \in Procs, Faithful(q), parent' = parent, direct' = direct,
         pc'[q] = pc[q], req'[q] = req[q]
  PROVE  Faithful(q)'
<1>1. AlreadyRead(q)' = AlreadyRead(q)
  BY AlreadyReadSame
<1> QED
  BY <1>1 DEF Faithful

\* A request that resolves nothing.
LEMMA FaithfulElsewhere ==
  ASSUME NEW q \in Procs, pc'[q] \notin {"resolve", "store"}
  PROVE  Faithful(q)'
BY DEF Faithful

-----------------------------------------------------------------------------
(* Frames *)

\* Nothing about user u gets worse by a step of request p.
NoWorse(p, u) ==
    /\ u \in cached /\ cache'[u] = cache[u] /\ origin'[u] = origin[u]
    /\ u \in missed => u \in missed'
    /\ WillReach(p, u) => WillReach(p, u)' \/ u \in missed'

\* Steps of one request which change neither the roles nor who has them.
LEMMA StaleFrame ==
  ASSUME StaleInv, NEW p \in Procs, Alone(p),
         UNCHANGED <<parent, direct, roleOf>>, Faithful(p)',
         \A u \in Users : u \in cached' =>
             cache'[u] = Effective(roleOf[u]) \/ Excused(u)' \/ NoWorse(p, u)
  PROVE  StaleInv'
<1>1. ASSUME NEW q \in Procs PROVE Faithful(q)'
  <2>1. CASE q = p
    BY <2>1
  <2>2. CASE q # p
    BY <1>1, <2>2, FaithfulSame DEF Alone, StaleInv
  <2> QED
    BY <2>1, <2>2
<1>2. ASSUME NEW u \in Users, Stale(u)'
      PROVE  Excused(u)' \/ \E q \in Procs : WillReach(q, u)'
  <2>1. u \in cached' /\ cache'[u] # Effective(roleOf[u])
    BY <1>2, EffectiveSame DEF Stale
  <2>2. SUFFICES ASSUME NoWorse(p, u) PROVE Excused(u)' \/ \E q \in Procs : WillReach(q, u)'
    BY <2>1
  <2>3. Stale(u)
    BY <2>1, <2>2 DEF Stale, NoWorse
  <2>4. CASE Excused(u)
    BY <2>2, <2>4 DEF Excused, NoWorse
  <2>5. ASSUME NEW q \in Procs, WillReach(q, u)
        PROVE  Excused(u)' \/ WillReach(q, u)'
    <3>1. CASE q = p
      BY <2>2, <2>5, <3>1 DEF NoWorse, Excused
    <3>2. CASE q # p
      BY <2>5, <3>2 DEF Alone, WillReach, Ancestors
    <3> QED
      BY <3>1, <3>2
  <2> QED
    BY <2>3, <2>4, <2>5 DEF StaleInv, StaleHasCause
<1> QED
  BY <1>1, <1>2 DEF StaleInv, StaleHasCause

\* ... and which leave the cache alone, and are not part of an invalidation.
LEMMA StaleQuiet ==
  ASSUME StaleInv, NEW p \in Procs, Alone(p),
         UNCHANGED <<parent, direct, roleOf, cached, cache, origin, missed>>,
         pc[p] \notin {"listRoles", "sweep"}, Faithful(p)'
  PROVE  StaleInv'
<1>1. \A u \in Users : u \in cached' => NoWorse(p, u)
  BY DEF NoWorse, WillReach
<1> QED
  BY <1>1, StaleFrame

\* Steps which touch nothing the property or a resolution depends on.
LEMMA StaleStutter ==
  ASSUME StaleInv,
         UNCHANGED <<parent, direct, roleOf, cached, cache, origin, missed, pc, req>>
  PROVE  StaleInv'
<1>1. \A q \in Procs : Faithful(q)'
  BY FaithfulSame DEF StaleInv
<1>2. \A u \in Users : /\ Stale(u)' = Stale(u) /\ Excused(u)' = Excused(u)
                       /\ \A q \in Procs : WillReach(q, u)' = WillReach(q, u)
  BY DEF Stale, Excused, WillReach, Effective, Ancestors
<1> QED
  BY <1>1, <1>2 DEF StaleInv, StaleHasCause

-----------------------------------------------------------------------------
(* The steps of a check *)

LEMMA StaleCheck ==
  ASSUME StaleInv, BaseInv, TypeInv, NEW p \in Procs, NEW u \in Users, NEW c \in RoleIds,
         NEW call \in Calls,
         CheckCached(p, u, c, call) \/ CheckUncached(p, u, c, call)
  PROVE  StaleInv'
<1>1. UNCHANGED <<parent, direct, roleOf, cached, cache, origin, missed>>
  BY DEF CheckCached, CheckUncached, Arrive, tables, tree, store, ghosts
<1>2. Begun(p, u, c)
  BY CheckFacts
<1>3. Faithful(p)'
  <2>1. CASE pc'[p] \in Endpoints
    BY <2>1, FaithfulElsewhere DEF Endpoints, Administration
  <2>2. CASE pc'[p] = "resolve" /\ req'[p].cur = c
    <3>1. AlreadyRead(p)' = {}
      BY <1>2, <2>2, AlreadyReadIsAfter DEF Begun
    <3>2. req'[p].acc = {}
      BY <1>2 DEF Begun
    <3>3. UNION {direct'[x] : x \in {}} = {}
      OBVIOUS
    <3> QED
      BY <2>2, <3>1, <3>2, <3>3 DEF Faithful
  <2> QED
    BY <1>2, <2>1, <2>2 DEF Begun
<1> QED
  BY <1>1, <1>2, <1>3, StaleQuiet DEF Begun

LEMMA StaleResolve ==
  ASSUME StaleInv, BaseInv, TypeInv, NEW p \in Procs, Resolve(p)
  PROVE  StaleInv'
<1> DEFINE c == req[p].claim
           r == req[p].cur
<1>1. UNCHANGED <<parent, direct, roleOf, cached, cache, origin, missed>>
  BY DEF Resolve, tables, tree, store, ghosts
<1>2. /\ Alone(p) /\ pc[p] = "resolve" /\ r \in RoleIds
      /\ req'[p].claim = c /\ req'[p].acc = req[p].acc \cup direct[r]
      /\ req'[p].cur = parent[r] /\ req'[p].disturbed = req[p].disturbed
      /\ pc'[p] = IF parent[r] = NoRole THEN "store" ELSE "resolve"
  BY ResolveFacts
<1>3. r \in Ancestors(c) /\ c \in RoleIds
  <2>1. r # NoRole
    BY <1>2, MaxRolesAssumption DEF RoleIds, NoRole
  <2>2. c \in claims[req[p].user] /\ req[p].user \in Users
    BY <1>2 DEF BaseInv, TypeInv, RequestsOK, Admitted, Anonymous
  <2> QED
    BY <1>2, <2>1, <2>2 DEF BaseInv, TypeInv, TypeOK
<1>4. AlreadyRead(p)' = AlreadyRead(p) \cup {r}
  <2>1. AlreadyRead(p)' = AncestorsIn(parent, c) \ AncestorsIn(parent, parent[r])
    BY <1>1, <1>2, AlreadyReadIsAfter DEF Ancestors
  <2>2. AlreadyRead(p) = AncestorsIn(parent, c) \ AncestorsIn(parent, r)
    BY AlreadyReadIs DEF Ancestors
  <2>3. Forest(parent)
    BY DEF BaseInv
  <2> QED
    BY <1>2, <1>3, <2>1, <2>2, <2>3, ReadNext DEF Ancestors
<1>5. Faithful(p)'
  <2> SUFFICES ASSUME ~req[p].disturbed
               PROVE  /\ req'[p].acc = UNION {direct'[x] : x \in AlreadyRead(p)'}
                      /\ pc'[p] = "store" => req'[p].cur = NoRole
    BY <1>2 DEF Faithful
  <2>1. req[p].acc = UNION {direct[x] : x \in AlreadyRead(p)}
    BY <1>2 DEF StaleInv, Faithful
  <2> HIDE DEF r
  <2>2. UNION {direct[x] : x \in AlreadyRead(p) \cup {r}}
           = (UNION {direct[x] : x \in AlreadyRead(p)}) \cup direct[r]
    OBVIOUS
  <2>3. req'[p].acc = UNION {direct'[x] : x \in AlreadyRead(p)'}
    BY <1>1, <1>2, <1>4, <2>1, <2>2
  <2> QED
    BY <1>2, <2>3
<1> QED
  BY <1>1, <1>2, <1>5, StaleQuiet

LEMMA StaleResolveFails ==
  ASSUME StaleInv, BaseInv, TypeInv, NEW p \in Procs, ResolveFails(p)
  PROVE  StaleInv'
<1>1. UNCHANGED <<parent, direct, roleOf, cached, cache, origin, missed>>
  BY DEF ResolveFails, tables, tree, store, ghosts
<1>2. Alone(p) /\ pc[p] = "resolve" /\ req'[p].disturbed
  BY ResolveFailsFacts
<1>3. Faithful(p)'
  BY <1>2 DEF Faithful
<1> QED
  BY <1>1, <1>2, <1>3, StaleQuiet

\* What is stored undisturbed is what the role of the token gives.
LEMMA StaleStore ==
  ASSUME StaleInv, BaseInv, TypeInv, NEW p \in Procs, Store(p)
  PROVE  StaleInv'
<1>1. UNCHANGED <<parent, direct, roleOf>>
  BY DEF Store, tables, tree
<1>2. Alone(p) /\ pc[p] = "store" /\ req[p].user \in Users
  BY StoreFacts
<1>3. Faithful(p)'
  BY StoreFacts, FaithfulElsewhere DEF Endpoints, Administration
<1>4. ASSUME NEW u \in Users, u \in cached'
      PROVE  cache'[u] = Effective(roleOf[u]) \/ Excused(u)' \/ NoWorse(p, u)
  <2>1. CASE u = req[p].user
    <3>1. /\ cache'[u] = req[p].acc
          /\ origin'[u].claim = req[p].claim /\ origin'[u].disturbed = req[p].disturbed
      BY <2>1 DEF Store, TypeInv, TypeOK
    <3>2. CASE req[p].disturbed \/ req[p].claim # roleOf[u]
      BY <1>1, <3>1, <3>2 DEF Excused
    <3>3. CASE ~req[p].disturbed /\ req[p].claim = roleOf[u]
      <4>1. /\ req[p].acc = UNION {direct[x] : x \in AlreadyRead(p)}
            /\ req[p].cur = NoRole
        BY <1>2, <3>3 DEF StaleInv, Faithful
      <4>2. AlreadyRead(p) = Ancestors(roleOf[u])
        BY <3>3, <4>1 DEF AlreadyRead
      <4> QED
        BY <3>1, <4>1, <4>2 DEF Effective
    <3> QED
      BY <3>2, <3>3
  <2>2. CASE u # req[p].user
    <3>1. /\ u \in cached /\ cache'[u] = cache[u] /\ origin'[u] = origin[u]
          /\ u \in missed => u \in missed'
      BY <1>4, <2>2 DEF Store, TypeInv, TypeOK
    <3> QED
      BY <1>2, <3>1 DEF NoWorse, WillReach
  <2> QED
    BY <2>1, <2>2
<1> QED
  BY <1>1, <1>2, <1>3, <1>4, StaleFrame

-----------------------------------------------------------------------------
(* The steps of an invalidation *)

\* The role of a user who is below a role with holders to clear exists.
LEMMA BelowExists ==
  ASSUME BaseInv, NEW u \in Users, NEW r, r \in Ancestors(roleOf[u])
  PROVE  roleOf[u] \in Existing
BY AncestorsOfNone DEF BaseInv, Ancestors

LEMMA StaleListRoles ==
  ASSUME StaleInv, BaseInv, TypeInv, NEW p \in Procs, ListRoles(p)
  PROVE  StaleInv'
<1> DEFINE all == UNION {collectDescendantRoles(r) : r \in req[p].roles}
<1>1. UNCHANGED <<parent, direct, roleOf, cached, cache, origin, missed>>
  BY DEF ListRoles, tables, tree, store, ghosts
<1>2. pc[p] = "listRoles" /\ Sweep(p, all, {})
  BY DEF ListRoles
<1>3. /\ Alone(p)
      /\ \/ pc'[p] = "idle" /\ all = {}
         \/ pc'[p] = "sweep" /\ req'[p].roles = all
  BY <1>2, SweepFacts
<1>4. Faithful(p)'
  BY <1>3, FaithfulElsewhere
<1>5. ASSUME NEW u \in Users, u \in cached' PROVE NoWorse(p, u)
  <2>1. ASSUME WillReach(p, u) PROVE WillReach(p, u)'
    <3>1. PICK r \in req[p].roles : r \in Ancestors(roleOf[u])
      BY <1>2, <2>1 DEF WillReach
    <3>2. roleOf[u] \in collectDescendantRoles(r)
      BY <3>1, BelowExists DEF collectDescendantRoles
    <3>3. roleOf[u] \in all
      BY <3>1, <3>2
    <3> HIDE DEF all
    <3> QED
      BY <1>1, <1>3, <3>3 DEF WillReach
  <2> QED
    BY <1>1, <1>5, <2>1 DEF NoWorse
<1> QED
  BY <1>1, <1>3, <1>4, <1>5, StaleFrame

LEMMA StaleListRolesFails ==
  ASSUME StaleInv, BaseInv, TypeInv, NEW p \in Procs, ListRolesFails(p)
  PROVE  StaleInv'
<1> DEFINE all == UNION {collectDescendantRoles(r) : r \in req[p].roles}
           below == all \ req[p].roles
<1>1. UNCHANGED <<parent, direct, roleOf, cached, cache, origin>>
  BY DEF ListRolesFails, tables, tree, store
<1>2. /\ pc[p] = "listRoles" /\ Sweep(p, req[p].roles, {})
      /\ missed' = missed \cup (cached \cap UNION {Holders(x) : x \in below})
  BY DEF ListRolesFails
<1>3. /\ Alone(p)
      /\ \/ pc'[p] = "idle" /\ req[p].roles = {}
         \/ pc'[p] = "sweep" /\ req'[p].roles = req[p].roles
  BY <1>2, SweepFacts
<1>4. Faithful(p)'
  BY <1>3, FaithfulElsewhere
<1>5. ASSUME NEW u \in Users, u \in cached' PROVE NoWorse(p, u)
  <2>1. ASSUME WillReach(p, u) PROVE WillReach(p, u)' \/ u \in missed'
    <3>1. PICK r \in req[p].roles : r \in Ancestors(roleOf[u])
      BY <1>2, <2>1 DEF WillReach
    <3>2. roleOf[u] \in collectDescendantRoles(r)
      BY <3>1, BelowExists DEF collectDescendantRoles
    <3>3. roleOf[u] \in all
      BY <3>1, <3>2
    <3>4. CASE roleOf[u] \in req[p].roles
      BY <1>1, <1>3, <3>4 DEF WillReach
    <3>5. CASE roleOf[u] \in below
      <4>1. u \in Holders(roleOf[u])
        BY DEF Holders
      <4> HIDE DEF below
      <4> QED
        BY <1>1, <1>2, <1>5, <3>5, <4>1
    <3> QED
      BY <3>3, <3>4, <3>5
  <2> QED
    BY <1>1, <1>2, <1>5, <2>1 DEF NoWorse
<1> QED
  BY <1>1, <1>3, <1>4, <1>5, StaleFrame

LEMMA StaleFindUsers ==
  ASSUME StaleInv, BaseInv, TypeInv, NEW p \in Procs,
         FindUsersWithRole(p) \/ FindUsersFails(p)
  PROVE  StaleInv'
<1>1. UNCHANGED <<parent, direct, roleOf, cached, cache, origin>>
  BY DEF FindUsersWithRole, FindUsersFails, tables, tree, store, ghosts
<1>2. PICK r \in req[p].roles :
         \/ Sweep(p, req[p].roles \ {r}, Holders(r)) /\ missed' = missed
         \/ /\ Sweep(p, req[p].roles \ {r}, {})
            /\ missed' = missed \cup (cached \cap Holders(r))
  BY DEF FindUsersWithRole, FindUsersFails, ghosts
<1>3. pc[p] = "sweep" /\ req[p].holders = {}
  BY DEF FindUsersWithRole, FindUsersFails
<1>4. /\ Alone(p)
      /\ \/ pc'[p] = "idle" /\ req[p].roles \ {r} = {}
         \/ pc'[p] = "sweep" /\ req'[p].roles = req[p].roles \ {r}
      /\ \/ missed' = missed \cup (cached \cap Holders(r))
         \/ /\ missed' = missed
            /\ \/ pc'[p] = "idle" /\ Holders(r) = {}
               \/ pc'[p] = "sweep" /\ req'[p].holders = Holders(r)
  BY <1>2, SweepFacts
<1>5. Faithful(p)'
  BY <1>4, FaithfulElsewhere
<1>6. ASSUME NEW u \in Users, u \in cached' PROVE NoWorse(p, u)
  <2>1. ASSUME WillReach(p, u) PROVE WillReach(p, u)' \/ u \in missed'
    <3>1. roleOf[u] \in req[p].roles
      BY <1>3, <2>1 DEF WillReach
    <3>2. CASE roleOf[u] = r
      <4>1. u \in Holders(r)
        BY <3>2 DEF Holders
      <4> QED
        BY <1>1, <1>4, <1>6, <4>1 DEF WillReach
    <3>3. CASE roleOf[u] # r
      BY <1>1, <1>4, <3>1, <3>3 DEF WillReach
    <3> QED
      BY <3>2, <3>3
  <2> QED
    BY <1>1, <1>4, <1>6, <2>1 DEF NoWorse
<1> QED
  BY <1>1, <1>4, <1>5, <1>6, StaleFrame

LEMMA StaleInvalidate ==
  ASSUME StaleInv, BaseInv, TypeInv, NEW p \in Procs, Invalidate(p)
  PROVE  StaleInv'
<1>1. UNCHANGED <<parent, direct, roleOf>>
  BY DEF Invalidate, tables, tree
<1>2. PICK v \in req[p].holders :
         /\ cached' = cached \ {v}
         /\ cache' = [cache EXCEPT ![v] = {}]
         /\ origin' = [origin EXCEPT ![v] = NoOrigin]
         /\ missed' = missed \ {v}
         /\ Sweep(p, req[p].roles, req[p].holders \ {v})
  BY DEF Invalidate
<1>3. pc[p] = "sweep"
  BY DEF Invalidate
<1>4. /\ Alone(p)
      /\ \/ pc'[p] = "idle" /\ req[p].roles = {} /\ req[p].holders \ {v} = {}
         \/ /\ pc'[p] = "sweep" /\ req'[p].roles = req[p].roles
            /\ req'[p].holders = req[p].holders \ {v}
  BY <1>2, SweepFacts
<1>5. Faithful(p)'
  BY <1>4, FaithfulElsewhere
<1>6. ASSUME NEW u \in Users, u \in cached' PROVE NoWorse(p, u)
  <2>1. u # v /\ u \in cached /\ cache'[u] = cache[u] /\ origin'[u] = origin[u]
        /\ (u \in missed => u \in missed')
    BY <1>2, <1>6 DEF TypeInv, TypeOK
  <2>2. WillReach(p, u) => WillReach(p, u)'
    BY <1>1, <1>3, <1>4, <2>1 DEF WillReach
  <2> QED
    BY <2>1, <2>2 DEF NoWorse
<1> QED
  BY <1>1, <1>4, <1>5, <1>6, StaleFrame

-----------------------------------------------------------------------------
(* The change of a role's permissions *)

\* What the commit says about the resolutions under way.
LEMMA CommitDisturbs ==
  ASSUME TypeInv, NEW p \in Procs, NEW r \in RoleIds, NEW S \in Given,
         UpdateRole(p, r, S) \/ UpdateRoleUnanswered(p, r, S)
  PROVE  /\ pc'[p] \in {"idle", "listRoles"}
         /\ \A q \in Procs \ {p} :
              pc[q] \in {"resolve", "store"} =>
                  /\ req[q].disturbed => req'[q].disturbed
                  /\ r \in AlreadyRead(q) => req'[q].disturbed
<1>1. pc'[p] \in {"idle", "listRoles"}
      /\ \A q \in Procs \ {p} : req'[q].disturbed = Disturbed(q, r)
  BY CommitFacts
<1> QED
  BY <1>1 DEF Disturbed

LEMMA StaleCommit ==
  ASSUME StaleInv, BaseInv, TypeInv, NEW p \in Procs, NEW r \in RoleIds, NEW S \in Given,
         UpdateRole(p, r, S) \/ UpdateRoleUnanswered(p, r, S)
  PROVE  StaleInv'
<1>1. /\ UNCHANGED <<parent, roleOf, cached, cache, origin>>
      /\ direct' = [direct EXCEPT ![r] = S \cup (@ \cap req[p].late)]
      /\ pc[p] = "savePermissions"
      /\ \A q \in Procs \ {p} : pc'[q] = pc[q] /\ SameBut(req'[q], req[q])
  BY CommitFacts DEF tree, store
<1>2. \/ pc'[p] = "listRoles" /\ req'[p].roles = {r} /\ missed' = missed
      \/ missed' = missed \cup
           (cached \cap UNION {Holders(x) : x \in collectDescendantRoles(r)})
  BY CommitFacts
<1>3. \A x : x # r => direct'[x] = direct[x]
  BY <1>1 DEF TypeInv, TypeOK, RolesTypeOK
<1>4. ASSUME NEW q \in Procs PROVE Faithful(q)'
  <2>1. CASE q = p
    BY <2>1, CommitDisturbs, FaithfulElsewhere
  <2>2. CASE q # p
    <3>1. SUFFICES ASSUME pc'[q] \in {"resolve", "store"}, ~req'[q].disturbed
                   PROVE  /\ req'[q].acc = UNION {direct'[x] : x \in AlreadyRead(q)'}
                          /\ pc'[q] = "store" => req'[q].cur = NoRole
      BY DEF Faithful
    <3>2. /\ pc[q] = pc'[q] /\ SameBut(req'[q], req[q]) /\ ~req[q].disturbed
          /\ r \notin AlreadyRead(q)
      BY <1>1, <1>4, <2>2, <3>1, CommitDisturbs
    <3>3. /\ req[q].acc = UNION {direct[x] : x \in AlreadyRead(q)}
          /\ pc[q] = "store" => req[q].cur = NoRole
      BY <1>4, <3>1, <3>2 DEF StaleInv, Faithful
    <3>4. AlreadyRead(q)' = AlreadyRead(q)
      BY <1>1, <1>4, <3>2, AlreadyReadSame DEF SameBut
    <3>5. {direct'[x] : x \in AlreadyRead(q)} = {direct[x] : x \in AlreadyRead(q)}
      BY <1>3, <3>2
    <3> QED
      BY <3>2, <3>3, <3>4, <3>5 DEF SameBut
  <2> QED
    BY <2>1, <2>2
<1>5. ASSUME NEW u \in Users, Stale(u)'
      PROVE  Excused(u)' \/ \E q \in Procs : WillReach(q, u)'
  <2>1. u \in cached /\ cache[u] # Effective(roleOf[u])'
    BY <1>1, <1>5 DEF Stale
  <2>2. CASE r \in Ancestors(roleOf[u])
    <3>1. roleOf[u] \in collectDescendantRoles(r) /\ u \in Holders(roleOf[u])
      BY <2>2, BelowExists DEF collectDescendantRoles, Holders
    <3>2. CASE pc'[p] = "listRoles" /\ req'[p].roles = {r}
      BY <1>1, <2>2, <3>2 DEF WillReach, Ancestors
    <3>3. CASE missed' = missed \cup
                 (cached \cap UNION {Holders(x) : x \in collectDescendantRoles(r)})
      BY <2>1, <3>1, <3>3 DEF Excused
    <3> QED
      BY <1>2, <3>2, <3>3
  <2>3. CASE r \notin Ancestors(roleOf[u])
    <3>1. Effective(roleOf[u])' = UNION {direct'[x] : x \in Ancestors(roleOf[u])}
      BY <1>1 DEF Effective, Ancestors
    <3>2. {direct'[x] : x \in Ancestors(roleOf[u])} = {direct[x] : x \in Ancestors(roleOf[u])}
      BY <1>3, <2>3
    <3>3. Stale(u)
      BY <2>1, <3>1, <3>2 DEF Stale, Effective
    <3>4. CASE Excused(u)
      BY <1>1, <1>2, <3>4 DEF Excused
    <3>5. ASSUME NEW q \in Procs, WillReach(q, u) PROVE WillReach(q, u)'
      <4>1. q # p
        BY <1>1, <3>5 DEF WillReach
      <4> QED
        BY <1>1, <3>5, <4>1 DEF WillReach, SameBut, Ancestors
    <3> QED
      BY <3>3, <3>4, <3>5 DEF StaleInv, StaleHasCause
  <2> QED
    BY <2>2, <2>3
<1> QED
  BY <1>4, <1>5 DEF StaleInv, StaleHasCause

\* A new role is a leaf.
LEMMA StaleInsertRole ==
  ASSUME StaleInv, BaseInv, TypeInv, NEW p \in Procs,
         NEW above \in RoleIds \cup {NoRole}, InsertRole(p, above)
  PROVE  StaleInv'
<1>1. /\ CreateRole(above) /\ pc[p] = "createRole"
      /\ UNCHANGED <<direct, roleOf, cached, cache, origin, missed>>
  BY DEF InsertRole, CreateRole, store, ghosts
<1>2. Alone(p) /\ pc'[p] = "idle"
  BY FinishFacts DEF InsertRole
<1>3. \A r \in Existing \cup {NoRole} :
         Ancestors(r)' = Ancestors(r) /\ Effective(r)' = Effective(r)
  BY <1>1, CreateRoleFrame DEF TypeInv, TypeOK
<1>4. \A u \in Users : roleOf[u] \in Existing \cup {NoRole}
  BY DEF BaseInv
<1>5. ASSUME NEW q \in Procs PROVE Faithful(q)'
  <2>1. CASE q = p
    BY <1>2, <2>1, FaithfulElsewhere
  <2>2. CASE q # p /\ pc[q] \in {"resolve", "store"}
    <3>1. pc'[q] = pc[q] /\ req'[q] = req[q]
      BY <1>2, <2>2 DEF Alone
    <3>2. req[q].claim \in Existing
      BY <2>2 DEF BaseInv, TypeInv, RequestsOK, Admitted, Anonymous
    <3>3. req[q].cur \in Existing \cup {NoRole}
      <4>1. CASE req[q].cur # NoRole
        <5>1. req[q].cur \in 1 .. req[q].claim
          BY <2>2, <4>1, AncestorsBelow DEF BaseInv, Ancestors
        <5> QED
          BY <3>2, <5>1 DEF Existing, TypeInv, TypeOK, RolesTypeOK
      <4> QED
        BY <4>1
    <3>4. AlreadyRead(q)' = AlreadyRead(q)
      <4>1. AlreadyRead(q)' = Ancestors(req[q].claim)' \ Ancestors(req[q].cur)'
        BY AlreadyReadIsAfter
      <4>2. /\ Ancestors(req[q].claim)' = AncestorsIn(parent', req[q].claim)
            /\ Ancestors(req[q].cur)' = AncestorsIn(parent', req[q].cur)
        BY <3>1 DEF Ancestors
      <4>3. \A r \in Existing \cup {NoRole} : AncestorsIn(parent', r) = Ancestors(r)
        BY <1>3 DEF Ancestors
      <4> QED
        BY <3>2, <3>3, <4>1, <4>2, <4>3, AlreadyReadIs
    <3> QED
      BY <1>1, <3>1, <3>4 DEF StaleInv, Faithful
  <2>3. CASE q # p /\ pc[q] \notin {"resolve", "store"}
    BY <1>2, <2>3, FaithfulElsewhere DEF Alone
  <2> QED
    BY <2>1, <2>2, <2>3
<1>6. ASSUME NEW u \in Users, Stale(u)'
      PROVE  Excused(u)' \/ \E q \in Procs : WillReach(q, u)'
  <2>1. PICK r \in Existing \cup {NoRole} : r = roleOf[u]
    BY <1>4
  <2>2. AncestorsIn(parent', r) = AncestorsIn(parent, r)
    BY <1>3 DEF Ancestors
  <2>3. Effective(roleOf[u])' = Effective(roleOf[u])
    BY <1>1, <2>1, <2>2 DEF Effective, Ancestors
  <2>4. Stale(u)
    BY <1>1, <1>6, <2>3 DEF Stale
  <2>5. Excused(u) => Excused(u)'
    BY <1>1 DEF Excused
  <2>6. ASSUME NEW q \in Procs, WillReach(q, u) PROVE WillReach(q, u)'
    <3>1. q # p
      BY <1>1, <2>6 DEF WillReach
    <3> QED
      BY <1>1, <1>2, <2>1, <2>2, <2>6, <3>1 DEF Alone, WillReach, Ancestors
  <2> QED
    BY <2>4, <2>5, <2>6 DEF StaleInv, StaleHasCause
<1> QED
  BY <1>5, <1>6 DEF StaleInv, StaleHasCause

-----------------------------------------------------------------------------
(* The change of a user's role *)

\* The user whose role is written is cleared, passed over, or not cached at all.
LEMMA StaleSetRole ==
  ASSUME StaleInv, BaseInv, TypeInv, NEW p \in Procs, NEW t \in Users, SetRole(p, t),
         Alone(p), pc[p] \in {"setRole", "insertUser"}, pc'[p] \in {"idle", "sweep"},
         t \in cached => WillReach(p, t)' \/ t \in missed',
         \A u \in Users : u \in missed => u \in missed'
  PROVE  StaleInv'
<1>1. /\ UNCHANGED <<parent, direct, cached, cache, origin>>
      /\ \A u \in Users \ {t} : roleOf'[u] = roleOf[u]
  BY DEF SetRole, tree, store, TypeInv, TypeOK
<1>2. ASSUME NEW q \in Procs PROVE Faithful(q)'
  <2>1. CASE q = p
    BY <2>1, FaithfulElsewhere
  <2>2. CASE q # p
    BY <1>1, <1>2, <2>2, FaithfulSame DEF Alone, StaleInv
  <2> QED
    BY <2>1, <2>2
<1>3. ASSUME NEW u \in Users, Stale(u)'
      PROVE  Excused(u)' \/ \E q \in Procs : WillReach(q, u)'
  <2>1. CASE u = t
    BY <1>1, <1>3, <2>1 DEF Stale, Excused
  <2>2. CASE u # t
    <3>1. roleOf'[u] = roleOf[u]
      BY <1>1, <2>2
    <3>2. Stale(u)
      BY <1>1, <1>3, <3>1 DEF Stale, Effective, Ancestors
    <3>3. Excused(u) => Excused(u)'
      BY <1>1, <3>1 DEF Excused
    <3>4. ASSUME NEW q \in Procs, WillReach(q, u) PROVE WillReach(q, u)'
      <4>1. q # p
        BY <3>4 DEF WillReach
      <4> QED
        BY <1>1, <3>1, <3>4, <4>1 DEF Alone, WillReach, Ancestors
    <3> QED
      BY <3>2, <3>3, <3>4 DEF StaleInv, StaleHasCause
  <2> QED
    BY <2>1, <2>2
<1> QED
  BY <1>2, <1>3 DEF StaleInv, StaleHasCause

LEMMA StaleUpdateUser ==
  ASSUME StaleInv, BaseInv, TypeInv, NEW p \in Procs,
         UpdateUser(p) \/ UpdateUserUnanswered(p)
  PROVE  StaleInv'
<1>0. PICK t \in Users : t = req[p].target
  BY DEF UpdateUser, UpdateUserUnanswered, TypeInv, RequestsOK
<1>1. pc[p] = "setRole" /\ SetRole(p, t)
  BY <1>0 DEF UpdateUser, UpdateUserUnanswered
<1>2. CASE UpdateUser(p)
  <2>1. Sweep(p, {}, {t}) /\ missed' = missed
    BY <1>0, <1>2 DEF UpdateUser
  <2>2. Alone(p) /\ pc'[p] = "sweep" /\ req'[p].holders = {t}
    BY <2>1, SweepFacts
  <2>3. WillReach(p, t)'
    BY <2>2 DEF WillReach
  <2> QED
    BY <1>1, <2>1, <2>2, <2>3, StaleSetRole
<1>3. CASE UpdateUserUnanswered(p)
  <2>1. Alone(p) /\ pc'[p] = "idle" /\ missed' = missed \cup (cached \cap {t})
    BY <1>0, <1>3, FinishFacts DEF UpdateUserUnanswered
  <2> QED
    BY <1>1, <2>1, StaleSetRole
<1> QED
  BY <1>2, <1>3

\* A user without a row has no token, hence nothing cached.
LEMMA StaleCreateUser ==
  ASSUME StaleInv, BaseInv, TypeInv, NEW p \in Procs, NEW t \in Users, CreateUser(p, t)
  PROVE  StaleInv'
<1>1. /\ pc[p] = "insertUser" /\ SetRole(p, t) /\ missed' = missed
      /\ Alone(p) /\ pc'[p] = "idle"
  BY FinishFacts DEF CreateUser
<1>2. t \notin cached
  BY DEF CreateUser, BaseInv
<1> QED
  BY <1>1, <1>2, StaleSetRole

-----------------------------------------------------------------------------
LEMMA InitStale == Init => StaleInv
BY DEF Init, StaleInv, Faithful, StaleHasCause, Stale

\* Requests that refuse, judge or serve keys leave roles and cache alone.
LEMMA StaleOthers ==
  ASSUME StaleInv, BaseInv, TypeInv, NEW p \in Procs,
         \/ \E t \in Users \cup {NoUser}, r \in RoleIds :
               CheckRank(p, t, r) \/ CheckRankFails(p, t, r)
         \/ CreateKey(p) \/ (\E k \in Users : RevokeKey(p, k)) \/ NoEffect(p)
  PROVE  StaleInv'
<1>1. (\E t, r, doubtful : Give(p, t, r, doubtful)) \/ Finish(p)
  BY DEF CheckRank, CheckRankFails, CreateKey, RevokeKey, NoEffect
<1>2. UNCHANGED <<parent, direct, roleOf, cached, cache, origin, missed>>
  BY DEF CheckRank, CheckRankFails, Give, CreateKey, RevokeKey, NoEffect, tables, tree,
         store, ghosts
<1>3. pc[p] \notin {"listRoles", "sweep"}
  BY DEF CheckRank, CheckRankFails, Give, CreateKey, RevokeKey, NoEffect, Endpoints,
         Administration
<1>4. Alone(p) /\ pc'[p] \in {"idle", "setRole", "insertUser"}
  BY <1>1, GiveFacts, FinishFacts
<1>5. Faithful(p)'
  BY <1>4, FaithfulElsewhere
<1> QED
  BY <1>2, <1>3, <1>4, <1>5, StaleQuiet

LEMMA StaleDelete ==
  ASSUME StaleInv, TypeInv, NEW p \in Procs, NEW r \in RoleIds, DeletePermissions(p, r)
  PROVE  StaleInv'
<1>1. UNCHANGED <<parent, direct, roleOf, cached, cache, origin, missed>>
  BY DeleteFacts DEF tables, tree, store, ghosts
<1>2. Alone(p) /\ pc[p] = "updateRole" /\ pc'[p] = "savePermissions"
  BY DeleteFacts DEF Alone
<1>3. Faithful(p)'
  BY <1>2, FaithfulElsewhere
<1> QED
  BY <1>1, <1>2, <1>3, StaleQuiet

LEMMA StepStale == StaleInv /\ BaseInv /\ TypeInv /\ [Next]_vars => StaleInv'
<1> SUFFICES ASSUME StaleInv, BaseInv, TypeInv, [Next]_vars PROVE StaleInv'
  OBVIOUS
<1>1. ASSUME NEW u \in Users, IssueToken(u)
      PROVE  StaleInv'
  BY <1>1, StaleStutter DEF IssueToken, tables, tree, store
<1>2. ASSUME NEW p \in Procs, Proceed(p) \/ Fail(p)
      PROVE  StaleInv'
  BY <1>2, StaleResolve, StaleResolveFails, StaleStore, StaleDelete, StaleCommit,
     StaleListRoles, StaleListRolesFails, StaleFindUsers, StaleInvalidate,
     StaleInsertRole, StaleUpdateUser, StaleCreateUser, StaleOthers
  DEF Proceed, Fail
<1>3. ASSUME Crash
      PROVE  StaleInv'
  BY <1>3 DEF Crash, StaleInv, Faithful, StaleHasCause, Stale
<1>4. ASSUME UNCHANGED vars
      PROVE  StaleInv'
  BY <1>4, StaleStutter DEF vars, tables, tree, store, ghosts
<1> QED
  BY <1>1, <1>2, <1>3, <1>4, StaleCheck DEF Next, CheckRefused

\* Whatever interleaves and fails, a cached set that differs from what the tables say
\* was resolved for the role of an older token, was disturbed, was passed over by an
\* invalidation that failed, or is about to be cleared by one.
THEOREM StaleCorrect == Spec => []StaleHasCause
<1>1. Spec => []StaleInv
  BY BaseAlways, InitStale, StepStale, PTL DEF Spec
<1> QED
  BY <1>1, PTL DEF StaleInv

-----------------------------------------------------------------------------
(* When the next request does use the permissions of the new role *)

\* The result of a resolution is cached for a role the user does not have any more:
\* the request came with an older token, or was judged across the change.
OldRoleStored == \E p \in Procs : Store(p) /\ req[p].claim # roleOf[req[p].user]

\* The handler that changed the user's role is about to clear his set.
BeingCleared(u) == \E p \in Procs : pc[p] = "sweep" /\ u \in req[p].holders

\* NextRequestUsesNewRole is not inductive: who is being cleared has to be one of the
\* holders, which no step of a sweep drops, and not only below one of its roles.
RoleInv ==
    /\ \A u \in Users : u \in cached /\ origin[u].claim # roleOf[u]
                           => u \in missed \/ BeingCleared(u)
    /\ ~FaultsHappen => missed = {}

LEMMA InitRole == Init => RoleInv
BY DEF Init, RoleInv

\* User u was served the wrong role before, and is no further from being cleared.
StillDue(p, u) ==
    /\ u \in cached /\ origin'[u] = origin[u] /\ roleOf'[u] = roleOf[u]
    /\ u \in missed => u \in missed'
    /\ pc[p] = "sweep" /\ u \in req[p].holders => BeingCleared(u)'

\* Steps of one request, which leave the sweeps of the others alone.
LEMMA RoleFrame ==
  ASSUME RoleInv, NEW p \in Procs,
         \A q \in Procs \ {p} : pc'[q] = pc[q] /\ req'[q].holders = req[q].holders,
         \A u \in Users : u \in cached' /\ origin'[u].claim # roleOf'[u]
             => u \in missed' \/ BeingCleared(u)' \/ StillDue(p, u),
         ~FaultsHappen => missed' \subseteq missed
  PROVE  RoleInv'
<1>1. ASSUME NEW u \in Users, u \in cached', origin'[u].claim # roleOf'[u]
      PROVE  u \in missed' \/ BeingCleared(u)'
  <2> SUFFICES ASSUME StillDue(p, u) PROVE u \in missed' \/ BeingCleared(u)'
    BY <1>1
  <2>1. u \in missed \/ BeingCleared(u)
    BY <1>1 DEF StillDue, RoleInv
  <2>2. ASSUME NEW q \in Procs, pc[q] = "sweep", u \in req[q].holders
        PROVE  BeingCleared(u)'
    BY <2>2 DEF StillDue, BeingCleared
  <2> QED
    BY <2>1, <2>2 DEF StillDue, BeingCleared
<1>2. ~FaultsHappen => missed' = {}
  BY DEF RoleInv
<1> QED
  BY <1>1, <1>2 DEF RoleInv

\* ... and which are no part of a sweep and leave the cache and the roles alone.
LEMMA RoleQuiet ==
  ASSUME RoleInv, NEW p \in Procs, pc[p] # "sweep",
         \A q \in Procs \ {p} : pc'[q] = pc[q] /\ req'[q].holders = req[q].holders,
         UNCHANGED <<roleOf, cached, origin>>, missed \subseteq missed',
         ~FaultsHappen => missed' \subseteq missed
  PROVE  RoleInv'
<1>1. \A u \in Users : u \in cached' => StillDue(p, u)
  BY DEF StillDue
<1> QED
  BY <1>1, RoleFrame

LEMMA RoleStutter ==
  ASSUME RoleInv, UNCHANGED <<roleOf, cached, origin, missed, pc, req>>
  PROVE  RoleInv'
BY DEF RoleInv, BeingCleared

\* The role a set is stored for is the role the user has.
LEMMA RoleStore ==
  ASSUME RoleInv, TypeInv, NEW p \in Procs, Store(p), ~OldRoleStored
  PROVE  RoleInv'
<1>1. /\ Alone(p) /\ pc[p] = "store" /\ req[p].user \in Users
      /\ req[p].claim = roleOf[req[p].user]
  BY StoreFacts DEF OldRoleStored
<1>2. /\ roleOf' = roleOf
      /\ origin'[req[p].user].claim = req[p].claim
      /\ cached' = cached \cup {req[p].user} /\ missed' = missed \ {req[p].user}
      /\ \A u \in Users \ {req[p].user} : origin'[u] = origin[u]
  BY <1>1 DEF Store, tables, TypeInv, TypeOK
<1>3. ASSUME NEW u \in Users, u \in cached', origin'[u].claim # roleOf'[u]
      PROVE  StillDue(p, u)
  BY <1>1, <1>2, <1>3 DEF StillDue
<1> QED
  BY <1>1, <1>2, <1>3, RoleFrame DEF Alone

LEMMA RoleInvalidate ==
  ASSUME RoleInv, TypeInv, NEW p \in Procs, Invalidate(p)
  PROVE  RoleInv'
<1>1. PICK v \in req[p].holders :
         /\ cached' = cached \ {v} /\ missed' = missed \ {v}
         /\ origin' = [origin EXCEPT ![v] = NoOrigin]
         /\ Sweep(p, req[p].roles, req[p].holders \ {v})
  BY DEF Invalidate
<1>2. roleOf' = roleOf
  BY DEF Invalidate, tables
<1>3. /\ Alone(p)
      /\ \/ pc'[p] = "idle" /\ req[p].holders \ {v} = {}
         \/ pc'[p] = "sweep" /\ req'[p].holders = req[p].holders \ {v}
  BY <1>1, SweepFacts
<1>4. ASSUME NEW u \in Users, u \in cached'
      PROVE  StillDue(p, u)
  <2>1. u # v /\ u \in cached /\ origin'[u] = origin[u] /\ (u \in missed => u \in missed')
    BY <1>1, <1>4 DEF TypeInv, TypeOK
  <2>2. u \in req[p].holders => BeingCleared(u)'
    BY <1>3, <2>1 DEF BeingCleared
  <2> QED
    BY <1>2, <2>1, <2>2 DEF StillDue
<1> QED
  BY <1>1, <1>3, <1>4, RoleFrame DEF Alone

\* The next role is looked up once the holders of the one before are cleared.
LEMMA RoleFindUsers ==
  ASSUME RoleInv, TypeInv, NEW p \in Procs, FindUsersWithRole(p) \/ FindUsersFails(p)
  PROVE  RoleInv'
<1>1. /\ UNCHANGED <<roleOf, cached, origin>> /\ req[p].holders = {}
      /\ missed \subseteq missed' /\ (~FaultsHappen => missed' = missed)
  BY DEF FindUsersWithRole, FindUsersFails, tables, store, ghosts
<1>2. \E roles, holders : Sweep(p, roles, holders)
  BY DEF FindUsersWithRole, FindUsersFails
<1>3. Alone(p)
  BY <1>2, SweepFacts
<1>4. \A u \in Users : u \in cached' => StillDue(p, u)
  BY <1>1 DEF StillDue
<1> QED
  BY <1>1, <1>3, <1>4, RoleFrame DEF Alone

LEMMA RoleListRoles ==
  ASSUME RoleInv, TypeInv, NEW p \in Procs, ListRoles(p) \/ ListRolesFails(p)
  PROVE  RoleInv'
<1>1. /\ UNCHANGED <<roleOf, cached, origin>> /\ pc[p] # "sweep"
      /\ missed \subseteq missed' /\ (~FaultsHappen => missed' = missed)
  BY DEF ListRoles, ListRolesFails, tables, store, ghosts
<1>2. \E roles, holders : Sweep(p, roles, holders)
  BY DEF ListRoles, ListRolesFails
<1>3. Alone(p)
  BY <1>2, SweepFacts
<1> QED
  BY <1>1, <1>3, RoleQuiet DEF Alone

LEMMA RoleCommit ==
  ASSUME RoleInv, TypeInv, NEW p \in Procs, NEW r \in RoleIds, NEW S \in Given,
         UpdateRole(p, r, S) \/ UpdateRoleUnanswered(p, r, S)
  PROVE  RoleInv'
<1>1. /\ pc[p] # "sweep" /\ UNCHANGED <<roleOf, cached, origin>>
      /\ \A q \in Procs \ {p} : pc'[q] = pc[q] /\ req'[q].holders = req[q].holders
  BY CommitFacts DEF SameBut, store
<1>2. missed \subseteq missed' /\ (~FaultsHappen => missed' = missed)
  BY DEF UpdateRole, UpdateRoleUnanswered
<1> QED
  BY <1>1, <1>2, RoleQuiet

\* The user whose role is written is to be cleared, or was passed over.
LEMMA RoleUpdateUser ==
  ASSUME RoleInv, TypeInv, NEW p \in Procs, UpdateUser(p) \/ UpdateUserUnanswered(p)
  PROVE  RoleInv'
<1>1. PICK t \in Users : t = req[p].target
  BY DEF UpdateUser, UpdateUserUnanswered, TypeInv, RequestsOK
<1>2. /\ UNCHANGED <<cached, origin>> /\ pc[p] = "setRole"
      /\ \A u \in Users \ {t} : roleOf'[u] = roleOf[u]
  BY <1>1 DEF UpdateUser, UpdateUserUnanswered, SetRole, store, TypeInv, TypeOK
<1>3. /\ Alone(p) /\ missed \subseteq missed' /\ (~FaultsHappen => missed' = missed)
      /\ t \in cached => BeingCleared(t)' \/ t \in missed'
  <2>1. CASE UpdateUser(p)
    <3>1. Sweep(p, {}, {t}) /\ missed' = missed
      BY <1>1, <2>1 DEF UpdateUser
    <3>2. Alone(p) /\ pc'[p] = "sweep" /\ req'[p].holders = {t}
      BY <3>1, SweepFacts
    <3> QED
      BY <3>1, <3>2 DEF BeingCleared
  <2>2. CASE UpdateUserUnanswered(p)
    BY <1>1, <2>2, FinishFacts DEF UpdateUserUnanswered
  <2> QED
    BY <2>1, <2>2
<1>4. \A u \in Users : u \in cached' => u \in missed' \/ BeingCleared(u)' \/ StillDue(p, u)
  BY <1>2, <1>3 DEF StillDue
<1> QED
  BY <1>3, <1>4, RoleFrame DEF Alone

LEMMA RoleCreateUser ==
  ASSUME RoleInv, BaseInv, TypeInv, NEW p \in Procs, NEW t \in Users, CreateUser(p, t)
  PROVE  RoleInv'
<1>1. /\ UNCHANGED <<cached, origin, missed>> /\ pc[p] = "insertUser" /\ t \notin cached
      /\ \A u \in Users \ {t} : roleOf'[u] = roleOf[u]
  BY DEF CreateUser, SetRole, store, BaseInv, TypeInv, TypeOK
<1>2. Alone(p)
  BY FinishFacts DEF CreateUser
<1>3. \A u \in Users : u \in cached' => StillDue(p, u)
  BY <1>1 DEF StillDue
<1> QED
  BY <1>1, <1>2, <1>3, RoleFrame DEF Alone

\* Requests that come in, resolve, refuse, judge, create roles or serve keys.
LEMMA RoleOthers ==
  ASSUME RoleInv, TypeInv, NEW p \in Procs,
         \/ \E u \in Users, c \in RoleIds, call \in Calls :
               CheckCached(p, u, c, call) \/ CheckUncached(p, u, c, call)
         \/ Resolve(p) \/ ResolveFails(p)
         \/ \E above \in RoleIds \cup {NoRole} : InsertRole(p, above)
         \/ \E t \in Users \cup {NoUser}, r \in RoleIds :
               CheckRank(p, t, r) \/ CheckRankFails(p, t, r)
         \/ CreateKey(p) \/ (\E k \in Users : RevokeKey(p, k)) \/ NoEffect(p)
  PROVE  RoleInv'
<1>1. Alone(p)
  <2>1. CASE \E u \in Users, c \in RoleIds, call \in Calls :
                CheckCached(p, u, c, call) \/ CheckUncached(p, u, c, call)
    BY <2>1, CheckFacts DEF Begun
  <2>2. CASE Resolve(p) \/ ResolveFails(p)
    BY <2>2, ResolveFacts, ResolveFailsFacts
  <2>3. CASE (\E t, r, doubtful : Give(p, t, r, doubtful)) \/ Finish(p)
    BY <2>3, GiveFacts, FinishFacts
  <2> QED
    BY <2>1, <2>2, <2>3
    DEF CheckRank, CheckRankFails, InsertRole, CreateKey, RevokeKey, NoEffect
<1>2. UNCHANGED <<roleOf, cached, origin, missed>> /\ pc[p] # "sweep"
  BY DEF CheckCached, CheckUncached, Arrive, Resolve, ResolveFails, InsertRole, CheckRank,
         CheckRankFails, Give, CreateKey, RevokeKey, NoEffect, Endpoints, Administration,
         tables, store, ghosts
<1> QED
  BY <1>1, <1>2, RoleQuiet DEF Alone

LEMMA RoleDelete ==
  ASSUME RoleInv, TypeInv, NEW p \in Procs, NEW r \in RoleIds, DeletePermissions(p, r)
  PROVE  RoleInv'
<1>1. Alone(p) /\ pc[p] # "sweep" /\ UNCHANGED <<roleOf, cached, origin, missed>>
  BY DeleteFacts DEF Alone, tables, store, ghosts
<1> QED
  BY <1>1, RoleQuiet DEF Alone

LEMMA StepRole ==
  ASSUME RoleInv, BaseInv, TypeInv, [Next]_vars, [~OldRoleStored]_vars
  PROVE  RoleInv'
<1>1. ASSUME NEW u \in Users, IssueToken(u)
      PROVE  RoleInv'
  BY <1>1, RoleStutter DEF IssueToken, tables, store
<1>2. CASE UNCHANGED vars
  BY <1>2, RoleStutter DEF vars, tables, store, ghosts
<1>3. ASSUME NEW p \in Procs, Store(p)
      PROVE  RoleInv'
  BY <1>2, <1>3, RoleStore
<1>4. ASSUME NEW p \in Procs, Proceed(p) \/ Fail(p)
      PROVE  RoleInv'
  BY <1>3, <1>4, RoleDelete, RoleCommit, RoleListRoles, RoleFindUsers,
     RoleInvalidate, RoleUpdateUser, RoleCreateUser, RoleOthers
  DEF Proceed, Fail
<1>5. ASSUME Crash
      PROVE  RoleInv'
  BY <1>5 DEF Crash, RoleInv
<1> QED
  BY <1>1, <1>2, <1>4, <1>5, RoleOthers DEF Next, CheckRefused

\* The promise of user_service.go:62, that the next request uses the permissions of the
\* new role, is kept where no statement fails and no resolution for a role the user has
\* no longer is stored: a token that outlives the change of the role, or a check that
\* runs across it, is all that breaks it.
THEOREM NewRoleCorrect ==
  Spec /\ [][~OldRoleStored]_vars => [](~FaultsHappen => NextRequestUsesNewRole)
<1>1. RoleInv => (~FaultsHappen => NextRequestUsesNewRole)
  BY DEF RoleInv, NextRequestUsesNewRole, BeingCleared, WillReach
<1>2. RoleInv /\ BaseInv /\ TypeInv /\ [Next]_vars /\ [~OldRoleStored]_vars => RoleInv'
  BY StepRole
<1> QED
  BY <1>1, <1>2, BaseAlways, InitRole, PTL DEF Spec

-----------------------------------------------------------------------------
(* When a cached set is never stale for good *)

\* The result of a resolution is cached although a query of it failed, or a role it had
\* read was changed before it was stored.
DisturbedStored == \E p \in Procs : Store(p) /\ req[p].disturbed

\* A cached set that is not what the tables say is about to be cleared.
CacheFollowsTables ==
    \A u \in Users : Stale(u) => \E p \in Procs : WillReach(p, u)

Undisturbed == \A u \in Users : u \in cached => ~origin[u].disturbed

LEMMA StepUndisturbed ==
  ASSUME Undisturbed, TypeInv, [Next]_vars, [~DisturbedStored]_vars
  PROVE  Undisturbed'
<1>1. CASE UNCHANGED <<cached, origin>>
  BY <1>1 DEF Undisturbed
<1>2. ASSUME NEW p \in Procs, Store(p)
      PROVE  Undisturbed'
  <2> DEFINE v == req[p].user
  <2>1. /\ cached' = cached \cup {v}
        /\ origin' = [origin EXCEPT ![v] = [claim |-> req[p].claim,
                                            disturbed |-> req[p].disturbed]]
    BY <1>2 DEF Store
  <2>2. CASE UNCHANGED vars
    BY <1>1, <2>2 DEF vars, store, ghosts
  <2>3. CASE ~req[p].disturbed
    BY <2>1, <2>3 DEF Undisturbed, TypeInv, TypeOK
  <2> QED
    BY <1>2, <2>2, <2>3 DEF DisturbedStored
<1>3. ASSUME NEW p \in Procs, Invalidate(p)
      PROVE  Undisturbed'
  <2>1. PICK v \in req[p].holders : /\ cached' = cached \ {v}
                                    /\ origin' = [origin EXCEPT ![v] = NoOrigin]
    BY <1>3 DEF Invalidate
  <2> QED
    BY <2>1 DEF Undisturbed, TypeInv, TypeOK
<1>4. CASE Crash
  BY <1>4 DEF Crash, Undisturbed
<1>5. ASSUME NEW p \in Procs, Proceed(p) \/ Fail(p), ~Store(p), ~Invalidate(p)
      PROVE  UNCHANGED <<cached, origin>>
  <2>1. CASE \E r \in RoleIds : DeletePermissions(p, r)
    BY <2>1 DEF DeletePermissions, store, ghosts
  <2>2. CASE ~\E r \in RoleIds : DeletePermissions(p, r)
    BY <1>5, <2>2
    DEF Proceed, Fail, Resolve, UpdateRole, ListRoles, FindUsersWithRole, InsertRole,
        CheckRank, Give, UpdateUser, SetRole, CreateUser, CreateKey, RevokeKey, NoEffect,
        ResolveFails, UpdateRoleUnanswered, ListRolesFails, FindUsersFails,
        CheckRankFails, UpdateUserUnanswered, store, ghosts
  <2> QED
    BY <2>1, <2>2
<1>6. ASSUME NEW p \in Procs, NEW u \in Users, NEW c \in RoleIds, NEW call \in Calls,
             \/ CheckCached(p, u, c, call) \/ CheckUncached(p, u, c, call)
             \/ CheckRefused(p, u, c, call)
      PROVE  UNCHANGED <<cached, origin>>
  <2>1. CASE Arrive(p, u, c, call)
    BY <2>1 DEF Arrive, store, ghosts
  <2>2. CASE UNCHANGED vars
    BY <2>2 DEF vars, store, ghosts
  <2> QED
    BY <1>6, <2>1, <2>2 DEF CheckCached, CheckUncached, CheckRefused
<1>7. ASSUME NEW u \in Users, IssueToken(u)
      PROVE  UNCHANGED <<cached, origin>>
  BY <1>7 DEF IssueToken, store
<1>8. CASE UNCHANGED vars
  BY <1>1, <1>8 DEF vars, store, ghosts
<1> QED
  BY <1>1, <1>2, <1>3, <1>4, <1>5, <1>6, <1>7, <1>8 DEF Next

\* Two races, and statements that fail, are all that leaves a wrong set in the cache: a
\* resolution for a role the user has no longer, and one across a change of a role it had
\* already read.  Without them what is cached is what the tables say, or the sweep of an
\* UpdateRolePermissions (rbac_service.go:136) or a role change is on its way to it.
THEOREM FreshCorrect ==
  Spec /\ [][~OldRoleStored]_vars /\ [][~DisturbedStored]_vars
      => [](~FaultsHappen => CacheFollowsTables)
<1>1. Init => Undisturbed
  BY DEF Init, Undisturbed
<1>2. RoleInv /\ BaseInv /\ TypeInv /\ [Next]_vars /\ [~OldRoleStored]_vars => RoleInv'
  BY StepRole
<1>3. Undisturbed /\ TypeInv /\ [Next]_vars /\ [~DisturbedStored]_vars => Undisturbed'
  BY StepUndisturbed
<1>4. StaleHasCause /\ RoleInv /\ Undisturbed => (~FaultsHappen => CacheFollowsTables)
  <2> SUFFICES ASSUME StaleHasCause, RoleInv, Undisturbed, ~FaultsHappen,
                      NEW u \in Users, Stale(u)
               PROVE  \E p \in Procs : WillReach(p, u)
    BY DEF CacheFollowsTables
  <2>1. u \in cached /\ u \notin missed /\ ~origin[u].disturbed
    BY DEF Stale, Undisturbed, RoleInv
  <2>2. CASE origin[u].claim # roleOf[u]
    BY <2>1, <2>2 DEF RoleInv, BeingCleared, WillReach
  <2>3. CASE origin[u].claim = roleOf[u]
    BY <2>1, <2>3 DEF StaleHasCause, Excused
  <2> QED
    BY <2>2, <2>3
<1> QED
  BY <1>1, <1>2, <1>3, <1>4, StaleCorrect, BaseAlways, InitRole, PTL DEF Spec
=============================================================================
