----------------------------- MODULE AlertDrafts -----------------------------
(***************************************************************************)
(* What concurrent writers of alerts promise about the status of an alert: *)
(* each reads it, drafts the status it will write, by a legal move from    *)
(* the one it read, and writes its draft later, whatever the alert has     *)
(* become in the meantime.  Drafts may be dropped, never changed.          *)
(*                                                                         *)
(* Alerts implements it; see Drafts there for the mapping.                 *)
(***************************************************************************)
CONSTANTS
    Ids,          \* alerts
    Statuses,     \* what an alert can be, but for
    Absent,       \* before it is created, and among them
    New,          \* right after
    Moves         \* the legal moves: pairs of statuses

VARIABLES
    status,   \* of each alert
    drafts    \* what the writers are about to write

vars == <<status, drafts>>

Init ==
    /\ status = [a \in Ids |-> Absent]
    /\ drafts = {}

Create(a) ==
    /\ status[a] = Absent
    /\ status' = [status EXCEPT ![a] = New]
    /\ UNCHANGED drafts

LegalDrafts ==
    {d \in [alert: Ids, to: Statuses] :
        /\ status[d.alert] # Absent
        /\ d.to = status[d.alert] \/ <<status[d.alert], d.to>> \in Moves}

\* Alerts are read, or drafts dropped.
Draft ==
    /\ drafts' \subseteq drafts \cup LegalDrafts
    /\ UNCHANGED status

\* The draft goes, unless another writer has the same.
Write(d) ==
    /\ d \in drafts
    /\ status' = [status EXCEPT ![d.alert] = d.to]
    /\ drafts' \subseteq drafts

Next ==
    \/ \E a \in Ids : Create(a)
    \/ Draft
    \/ \E d \in drafts : Write(d)

Spec == Init /\ [][Next]_vars
=============================================================================
