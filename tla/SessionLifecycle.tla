--------------------------- MODULE SessionLifecycle ---------------------------
(***************************************************************************)
(* What a session promises to those who rely on it, without the statements *)
(* that bring it about: it is opened once, for one user, from credentials  *)
(* or from a session of the same user that is dead by then; it becomes     *)
(* usable once; and nothing brings it back after it was revoked.  Sessions *)
(* are opened one at a time, from the placeholder to the token.            *)
(*                                                                         *)
(* Auth implements it; see Lifecycle there for the mapping.                *)
(***************************************************************************)
CONSTANTS
    Ids,       \* sessions there may ever be
    Owners,    \* users
    NoOwner,   \* owner of a session not opened yet
    None       \* parent of a session opened by a login

VARIABLES
    status,    \* of each session
    owner,     \* its user
    parent     \* the session it was opened from

vars == <<status, owner, parent>>

Init ==
    /\ status = [s \in Ids |-> "free"]
    /\ owner = [s \in Ids |-> NoOwner]
    /\ parent = [s \in Ids |-> None]

\* A login, or a refresh that redeemed p, begins a session.
Open(s, u, p) ==
    /\ status[s] = "free"
    /\ \A t \in Ids : status[t] # "opening"
    /\ p # None => status[p] = "dead" /\ owner[p] = u
    /\ status' = [status EXCEPT ![s] = "opening"]
    /\ owner' = [owner EXCEPT ![s] = u]
    /\ parent' = [parent EXCEPT ![s] = p]

\* Its token goes to the client.
Publish(s) ==
    /\ status[s] = "opening"
    /\ status' = [status EXCEPT ![s] = "live"]
    /\ UNCHANGED <<owner, parent>>

\* Sessions of one user are revoked together.
Revoke(u, S) ==
    /\ \A s \in S : status[s] \in {"opening", "live"} /\ owner[s] = u
    /\ status' = [s \in Ids |-> IF s \in S THEN "dead" ELSE status[s]]
    /\ UNCHANGED <<owner, parent>>

Next ==
    \/ \E s \in Ids, u \in Owners, p \in Ids \cup {None} : Open(s, u, p)
    \/ \E s \in Ids : Publish(s)
    \/ \E u \in Owners, S \in SUBSET Ids : Revoke(u, S)

Spec == Init /\ [][Next]_vars
=============================================================================
