-------------------------------- MODULE Roles --------------------------------
(***************************************************************************)
(* The roles and role_permissions tables, and what RBACService computes    *)
(* from them.  A role inherits from its parent; a row of roles is never    *)
(* changed or deleted, and a parent has to exist before its child, so the  *)
(* table is a forest that only grows at its leaves.                        *)
(***************************************************************************)
EXTENDS Integers, FiniteSets

CONSTANTS
    Perms,       \* the permissions the migration registers
    MaxRoles     \* bound: rows the roles table may reach

ASSUME MaxRolesAssumption == MaxRoles \in Nat

VARIABLES
    lastRole,    \* the last id the table's BIGSERIAL handed to a row
    parent,      \* parent_id, NoRole for NULL
    direct       \* role_permissions: what each role has of its own

tree == <<lastRole, parent>>

RoleIds == 1 .. MaxRoles
NoRole == 0

Existing == 1 .. lastRole

RolesTypeOK ==
    /\ lastRole \in 0 .. MaxRoles
    /\ parent \in [RoleIds -> RoleIds \cup {NoRole}]
    /\ direct \in [RoleIds -> SUBSET Perms]

\* In the tree above: the role, its parent, and so on up to the root.  They are the
\* least set that holds r and, with a role, its parent; no id in it is above r.
UpwardClosed(above, S) == \A x \in S : above[x] \in S \cup {NoRole}
AncestorsIn(above, r) ==
    {x \in 1 .. r :
       \A S \in SUBSET (1 .. r) : r \in S /\ UpwardClosed(above, S) => x \in S}

Ancestors(r) == AncestorsIn(parent, r)

\* What resolveInheritedPerms returns when nothing moves while it runs.
Effective(r) == UNION {direct[x] : x \in Ancestors(r)}

\* The number of steps from r to the root.
RankIn(above, r) == Cardinality(AncestorsIn(above, r)) - 1
RoleRank(r) == RankIn(parent, r)

\* Mutant: the role and its children, but not theirs.
collectDescendantRoles_Children(r) == {r} \cup {x \in Existing : parent[x] = r}

\* The roles whose holders inherit from r, r among them.
collectDescendantRoles(r) == {x \in Existing : r \in Ancestors(x)}

\* INSERT INTO roles: the new id is above all others, the parent is there.
CreateRole(above) ==
    /\ lastRole < MaxRoles
    /\ above \in Existing \cup {NoRole}
    /\ lastRole' = lastRole + 1
    /\ parent' = [parent EXCEPT ![lastRole + 1] = above]
    /\ UNCHANGED direct

\* The one transaction of the program, at its COMMIT, under READ COMMITTED: of the rows it
\* finds, those inserted since its DELETE began (late) were invisible to it and stay; an
\* INSERT that meets one of them fails, and the transaction with it.
SavePermissions(r, S, late) ==
    /\ r \in Existing
    /\ S \cap direct[r] \cap late = {}
    /\ direct' = [direct EXCEPT ![r] = S \cup (@ \cap late)]
    /\ UNCHANGED tree
=============================================================================
