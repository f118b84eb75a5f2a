------------------------------- MODULE ApiKeys -------------------------------
(***************************************************************************)
(* The api_keys table as the routes of the server use it: a key is created *)
(* for its owner and revoked by its owner.  APIKeyAuth is on no route, so  *)
(* nothing authenticates with a key.                                       *)
(*                                                                         *)
(* Bound: one key for each owner, by whom it is named.                     *)
(***************************************************************************)
CONSTANT Users

VARIABLE keys    \* is_active of each owner's key

KeyStates == {"none", "active", "revoked"}

KeysTypeOK == keys \in [Users -> KeyStates]

Init == keys = [u \in Users |-> "none"]

Create(owner) ==
    /\ keys[owner] = "none"
    /\ keys' = [keys EXCEPT ![owner] = "active"]

\* UPDATE ... WHERE id = k AND owner_id = owner: another owner's key is not found.
Revoke(k, owner) ==
    /\ k = owner
    /\ keys[k] # "none"
    /\ keys' = [keys EXCEPT ![k] = "revoked"]
=============================================================================
