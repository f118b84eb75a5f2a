------------------------------ MODULE MCAccess ------------------------------
(* Instances of Access for TLC. *)
EXTENDS Access, TLC

CONSTANTS admin, analyst, newcomer, manage, key

\* viewer, analyst and admin, each above the one before.
Chain == <<NoRole, 1, 2>>
OnlyAdminManages == <<{}, {}, {manage}>>
AnalystHasKey == <<{}, {key}, {manage}>>
Staff == [u \in Users |-> CASE u = admin -> 3 [] u = analyst -> 2 [] OTHER -> NoRole]
AllOrNothing == {{}, Perms}
Interchangeable == Permutations(Procs)
=============================================================================
