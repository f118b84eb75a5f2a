------------------------------ MODULE RolesProofs ------------------------------
(* Facts about the tree of roles, for any number of roles and permissions: what *)
(* lies above a role, and that a role created below changes nothing of it.      *)
EXTENDS Roles, FiniteSetTheorems, TLAPS

\* What the foreign key and the order of the ids make of parent_id.
Forest(above) ==
    /\ above \in [RoleIds -> RoleIds \cup {NoRole}]
    /\ \A x \in RoleIds : above[x] < x

LEMMA AncestorsBelow ==
  ASSUME NEW above, NEW r
  PROVE  AncestorsIn(above, r) \subseteq 1 .. r
BY DEF AncestorsIn

LEMMA AncestorsOfNone ==
  ASSUME NEW above
  PROVE  AncestorsIn(above, NoRole) = {}
BY DEF AncestorsIn, NoRole

LEMMA AncestorsSelf ==
  ASSUME NEW above, NEW r \in RoleIds
  PROVE  r \in AncestorsIn(above, r)
BY MaxRolesAssumption DEF AncestorsIn, RoleIds

\* The parent of an ancestor is an ancestor.
LEMMA AncestorsUp ==
  ASSUME NEW above, Forest(above), NEW r \in RoleIds,
         NEW x \in AncestorsIn(above, r), above[x] # NoRole
  PROVE  above[x] \in AncestorsIn(above, r)
<1>1. x \in 1 .. r /\ x \in RoleIds
  BY MaxRolesAssumption, AncestorsBelow DEF RoleIds
<1>2. above[x] \in 1 .. r
  BY <1>1, MaxRolesAssumption DEF Forest, RoleIds, NoRole
<1>3. ASSUME NEW S \in SUBSET (1 .. r), r \in S, UpwardClosed(above, S)
      PROVE  above[x] \in S
  <2>1. x \in S
    BY <1>3 DEF AncestorsIn
  <2> QED
    BY <1>3, <2>1 DEF UpwardClosed
<1> QED
  BY <1>2, <1>3 DEF AncestorsIn

LEMMA AncestorsTransitive ==
  ASSUME NEW above, Forest(above), NEW r \in RoleIds, NEW x \in AncestorsIn(above, r)
  PROVE  AncestorsIn(above, x) \subseteq AncestorsIn(above, r)
<1>1. x \in 1 .. r /\ r \in Nat
  BY MaxRolesAssumption, AncestorsBelow DEF RoleIds
<1> SUFFICES ASSUME NEW y \in AncestorsIn(above, x),
                    NEW S \in SUBSET (1 .. r), r \in S, UpwardClosed(above, S)
             PROVE  y \in S
  <2>1. AncestorsIn(above, x) \subseteq 1 .. r
    BY <1>1, AncestorsBelow
  <2> QED
    BY <2>1 DEF AncestorsIn
<1> DEFINE T == S \cap (1 .. x)
<1>2. x \in T
  BY <1>1 DEF AncestorsIn
<1>3. UpwardClosed(above, T)
  <2> SUFFICES ASSUME NEW z \in T, above[z] # NoRole PROVE above[z] \in T
    BY DEF UpwardClosed
  <2>1. above[z] \in S /\ z \in RoleIds
    BY <1>1, MaxRolesAssumption DEF UpwardClosed, RoleIds
  <2>2. above[z] \in Nat \ {0} /\ above[z] < z
    BY <2>1, MaxRolesAssumption DEF Forest, RoleIds, NoRole
  <2> QED
    BY <1>1, <2>1, <2>2
<1>4. T \in SUBSET (1 .. x)
  OBVIOUS
<1> QED
  BY <1>2, <1>3, <1>4 DEF AncestorsIn

\* The definition unfolded once: this is how resolveInheritedPerms walks.
LEMMA AncestorsStep ==
  ASSUME NEW above, Forest(above), NEW r \in RoleIds
  PROVE  /\ AncestorsIn(above, r) = {r} \cup AncestorsIn(above, above[r])
         /\ r \notin AncestorsIn(above, above[r])
<1> DEFINE T == {r} \cup AncestorsIn(above, above[r])
<1>1. above[r] \in 0 .. r - 1 /\ r \in Nat \ {0}
  BY MaxRolesAssumption DEF Forest, RoleIds, NoRole
<1>2. AncestorsIn(above, above[r]) \subseteq 1 .. r - 1
  BY <1>1, AncestorsBelow
<1>3. T \subseteq AncestorsIn(above, r)
  <2>1. CASE above[r] = NoRole
    BY <2>1, AncestorsOfNone, AncestorsSelf
  <2>2. CASE above[r] # NoRole
    <3>1. above[r] \in AncestorsIn(above, r)
      BY <2>2, AncestorsSelf, AncestorsUp
    <3> QED
      BY <3>1, AncestorsSelf, AncestorsTransitive
  <2> QED
    BY <2>1, <2>2
<1>4. UpwardClosed(above, T)
  <2> SUFFICES ASSUME NEW x \in T, above[x] # NoRole PROVE above[x] \in T
    BY DEF UpwardClosed
  <2>1. CASE x = r
    <3>1. above[r] \in RoleIds
      BY <2>1 DEF Forest
    <3> QED
      BY <2>1, <3>1, AncestorsSelf
  <2>2. CASE x \in AncestorsIn(above, above[r])
    <3>1. above[r] # NoRole
      BY <2>2, AncestorsOfNone
    <3>2. above[r] \in RoleIds
      BY <3>1 DEF Forest
    <3> QED
      BY <2>2, <3>2, AncestorsUp
  <2> QED
    BY <2>1, <2>2
<1>5. T \in SUBSET (1 .. r)
  BY <1>1, <1>2
<1>6. AncestorsIn(above, r) \subseteq T
  BY <1>4, <1>5 DEF AncestorsIn
<1> QED
  BY <1>1, <1>2, <1>3, <1>6

\* Only the rows up to r matter for what is above r.
LEMMA AncestorsSame ==
  ASSUME NEW above, NEW other, NEW r \in Nat, \A x \in 1 .. r : other[x] = above[x]
  PROVE  AncestorsIn(other, r) = AncestorsIn(above, r)
<1>1. \A S \in SUBSET (1 .. r) : UpwardClosed(other, S) <=> UpwardClosed(above, S)
  BY DEF UpwardClosed
<1> QED
  BY <1>1 DEF AncestorsIn

LEMMA RankIsNumber ==
  ASSUME NEW above, NEW r \in Nat
  PROVE  RankIn(above, r) \in Int
<1>1. IsFiniteSet(1 .. r)
  BY FS_Interval
<1>2. IsFiniteSet(AncestorsIn(above, r))
  BY <1>1, AncestorsBelow, FS_Subset
<1>3. Cardinality(AncestorsIn(above, r)) \in Nat
  BY <1>2, FS_CardinalityType
<1> QED
  BY <1>3 DEF RankIn

\* CreateRole changes nothing for the roles that exist.
LEMMA CreateRoleFrame ==
  ASSUME RolesTypeOK, NEW above, CreateRole(above), NEW r \in Existing \cup {NoRole}
  PROVE  /\ Ancestors(r)' = Ancestors(r)
         /\ Effective(r)' = Effective(r)
         /\ RoleRank(r)' = RoleRank(r)
<1>1. r \in Nat /\ \A x \in 1 .. r : parent'[x] = parent[x]
  BY DEF CreateRole, RolesTypeOK, Existing, NoRole
<1>2. AncestorsIn(parent', r) = AncestorsIn(parent, r)
  BY <1>1, AncestorsSame
<1>3. direct' = direct
  BY DEF CreateRole
<1> QED
  BY <1>2, <1>3 DEF Ancestors, Effective, RoleRank, RankIn
=============================================================================
