------------------------------- MODULE MCAuth -------------------------------
(* Instances of Auth for TLC. *)
EXTENDS Auth, TLC

SessionCalls == {"login", "refresh", "logoutAll", "changePassword"}
AccountCalls == {"login", "badLogin", "refresh", "logout", "adminUpdate"}

\* Users and requests are interchangeable: no definition tells one from another.
Interchangeable == Permutations(Users) \cup Permutations(Procs)
=============================================================================
