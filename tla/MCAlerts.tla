------------------------------ MODULE MCAlerts ------------------------------
(* Instances of Alerts for TLC. *)
EXTENDS Alerts

Short == [s \in Severities |-> 1]
High == {Critical - 1}
Worst == {Critical}
Moves == {Processing, Resolved, Closed}
=============================================================================
