------------------------------ MODULE AuditTrail ------------------------------
(***************************************************************************)
(* What the audit log promises to those who call Log: entries wait in line *)
(* in the order of the calls, and each in its turn becomes a row or is     *)
(* discarded; it is refused only when the line is full or closed.  Rows    *)
(* stay.  The line is lost as a whole when the process dies, and empty     *)
(* when it opens again.                                                    *)
(*                                                                         *)
(* Audit implements it; see Trail there for the mapping.                   *)
(***************************************************************************)
EXTENDS Naturals, Sequences

CONSTANT Capacity   \* entries the line has room for, beside the one in hand

VARIABLES
    trail,      \* entries recorded, oldest first
    pending,    \* entries on their way
    submitted,  \* calls of Log so far: the number of the last entry
    open        \* whether the line takes entries

vars == <<trail, pending, submitted, open>>

Init ==
    /\ trail = <<>>
    /\ pending = <<>>
    /\ submitted = 0
    /\ open = TRUE

Submit ==
    /\ open
    /\ Len(pending) <= Capacity
    /\ submitted' = submitted + 1
    /\ pending' = Append(pending, submitted + 1)
    /\ UNCHANGED <<trail, open>>

Refuse ==
    /\ open => Len(pending) >= Capacity
    /\ submitted' = submitted + 1
    /\ UNCHANGED <<trail, pending, open>>

Record ==
    /\ pending # <<>>
    /\ trail' = Append(trail, Head(pending))
    /\ pending' = Tail(pending)
    /\ UNCHANGED <<submitted, open>>

Discard ==
    /\ pending # <<>>
    /\ pending' = Tail(pending)
    /\ UNCHANGED <<trail, submitted, open>>

Close == open /\ open' = FALSE /\ UNCHANGED <<trail, pending, submitted>>

\* Possibly in the middle of a call.
Die ==
    /\ open' = FALSE
    /\ pending' = <<>>
    /\ submitted' \in {submitted, submitted + 1}
    /\ UNCHANGED trail

Reopen ==
    /\ ~open /\ pending = <<>>
    /\ open' = TRUE
    /\ UNCHANGED <<trail, pending, submitted>>

Next == Submit \/ Refuse \/ Record \/ Discard \/ Close \/ Die \/ Reopen

Steps == Init /\ [][Next]_vars

\* The line moves.
Spec == Steps /\ WF_vars(Record \/ Discard)
=============================================================================
