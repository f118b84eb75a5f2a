---------------------------- MODULE AlertsProofs ----------------------------
(* Proofs about Alerts, for every value of its constants: any number of     *)
(* alerts, requests and assignees, with and without failures.               *)
EXTENDS Alerts, TLAPS

-----------------------------------------------------------------------------
(* Rows and copies of rows *)

LEMMA StatusTypes ==
  /\ New \in Statuses /\ Assigned \in Statuses /\ Escalated \in Statuses
  /\ Resolved \in Statuses /\ Closed \in Statuses
BY DEF Statuses, New, Assigned, Escalated, Resolved, Closed

LEMMA NoRowType == NoRow \in Row
BY LimitsAssumption DEF NoRow, Row, Severities, Statuses, Absent

LEMMA NoJobType == NoJob \in Job
BY NoRowType DEF NoJob, Job

\* What a request makes of the row it read is a row.
LEMMA UpdatedRowType ==
  ASSUME NEW r \in Row, NEW severity \in {NotGiven} \cup AskedSeverities,
         NEW wanted \in {NotGiven} \cup AskedStatuses, NEW who \in {Nobody} \cup Staff
  PROVE  ApplyStatus(ApplyAssignee(ApplySeverity(r, severity), who), wanted) \in Row
<1>1. ApplySeverity(r, severity) \in Row
  <2>1. CASE severity = NotGiven
    BY <2>1 DEF ApplySeverity
  <2>2. CASE severity \in AskedSeverities
    <3>1. severity \in Severities
      BY <2>2, ClientsAssumption
    <3> QED
      BY <3>1 DEF ApplySeverity, Row
  <2> QED
    BY <2>1, <2>2
<1>2. ASSUME NEW q \in Row PROVE ApplyAssignee(q, who) \in Row
  BY StatusTypes DEF ApplyAssignee, Row
<1>3. ASSUME NEW q \in Row PROVE ApplyStatus(q, wanted) \in Row
  BY ClientsAssumption DEF ApplyStatus, Row, Statuses
<1> QED
  BY <1>1, <1>2, <1>3

LEMMA EscalatedRowType == ASSUME NEW r \in Row PROVE EscalatedRow(r) \in Row
<1> DEFINE count == IF r.count < EscalationLimit THEN r.count + 1 ELSE EscalationLimit
<1>1. count \in 0 .. EscalationLimit
  BY LimitsAssumption DEF Row
<1>2. (IF r.severity < Critical THEN r.severity + 1 ELSE r.severity) \in Severities
  BY DEF Row, Severities, Critical
<1>3. (IF count >= EscalationLimit /\ r.assignee = Nobody THEN Escalated
       ELSE r.status) \in {Absent} \cup Statuses
  BY DEF Row, Statuses, Escalated
<1> QED
  BY <1>1, <1>2, <1>3 DEF EscalatedRow, Row

LEMMA SelectedType == ASSUME NEW r \in Row PROVE Selected(r) \in Row
BY NoRowType DEF Selected, Row

LEMMA OutdatedType ==
  ASSUME job \in [Procs -> Job], NEW a
  PROVE  Outdated(a) \in [Procs -> Job]
BY DEF Outdated, Job

\* A copy that is not stale after a write of alert a is one of another alert, untouched.
LEMMA NotOutdated ==
  ASSUME TypeOK, NEW a, NEW p \in Procs, ~Outdated(a)[p].stale
  PROVE  Outdated(a)[p] = job[p] /\ job[p].alert # a /\ ~job[p].stale
<1> DEFINE b == job[p].stale \/ job[p].alert = a
<1>1. job[p] \in Job
  BY DEF TypeOK
<1>2. Outdated(a)[p] = [job[p] EXCEPT !.stale = b]
  BY DEF Outdated
<1> HIDE DEF b
<1>3. Outdated(a)[p].stale = b
  BY <1>1, <1>2 DEF Job
<1>4. ~b
  BY <1>3
<1>5. job[p].alert # a /\ ~job[p].stale
  BY <1>4 DEF b
<1>6. [job[p] EXCEPT !.stale = b] = job[p]
  <2>1. b = FALSE /\ job[p].stale = FALSE
    BY <1>1, <1>4, <1>5 DEF b, Job
  <2> QED
    BY <1>1, <2>1 DEF Job
<1> QED
  BY <1>2, <1>5, <1>6

-----------------------------------------------------------------------------
(* Type correctness *)

LEMMA InitType == Init => TypeOK
BY NoRowType, NoJobType, TimesAssumption, LimitsAssumption DEF Init, TypeOK

LEMMA StepType == TypeOK /\ [Next]_vars => TypeOK'
<1> SUFFICES ASSUME TypeOK, [Next]_vars PROVE TypeOK'
  OBVIOUS
<1> USE NoRowType, NoJobType
<1>1. ASSUME NEW a \in AlertIds, NEW severity \in NewSeverities, Create(a, severity)
      PROVE TypeOK'
  <2>1. severity \in Severities /\ now + SLATicks[severity] \in Nat
    BY ClientsAssumption, TimesAssumption DEF TypeOK
  <2>2. [NoRow EXCEPT !.severity = severity, !.status = New] \in Row
    BY <2>1, StatusTypes DEF Row
  <2> QED
    BY <1>1, <2>1, <2>2 DEF Create, TypeOK, checker
<1>2. ASSUME NEW p \in Procs, NEW a \in AlertIds, NEW r \in Row, Prepare(p, a, r)
      PROVE TypeOK'
  <2>1. [alert |-> a, row |-> r, stale |-> FALSE] \in Job
    BY DEF Job
  <2> QED
    BY <1>2, <2>1, LimitsAssumption DEF Prepare, TypeOK, table, checker
<1>3. ASSUME NEW p \in Procs, Arrive(p)
      PROVE TypeOK'
  <2>1. ASSUME NEW a \in AlertIds, NEW severity \in {NotGiven} \cup AskedSeverities,
               NEW wanted \in {NotGiven} \cup AskedStatuses,
               NEW who \in {Nobody} \cup Staff, UpdateRead(p, a, severity, wanted, who)
        PROVE TypeOK'
    BY <1>2, <2>1, UpdatedRowType DEF UpdateRead, TypeOK
  <2>2. ASSUME NEW a \in AlertIds, NEW who \in Staff, AssignRead(p, a, who)
        PROVE TypeOK'
    <3>1. [rows[a] EXCEPT !.assignee = who, !.status = Assigned] \in Row
      BY StatusTypes DEF TypeOK, Row
    <3> QED
      BY <1>2, <2>2, <3>1 DEF AssignRead
  <2>3. CASE RefusedRequest(p)
    BY <2>3 DEF RefusedRequest, TypeOK, vars, table, checker
  <2> QED
    BY <1>3, <2>1, <2>2, <2>3 DEF Arrive
<1>4. ASSUME NEW p \in Procs, WriteBack(p)
      PROVE TypeOK'
  <2>1. job[p].alert \in AlertIds /\ job[p].row \in Row
    BY <1>4 DEF WriteBack, TypeOK, Job
  <2> QED
    BY <1>4, <2>1, OutdatedType DEF WriteBack, TypeOK
<1>5. ASSUME NEW p \in Procs, WriteFails(p)
      PROVE TypeOK'
  BY <1>5 DEF WriteFails, TypeOK, table, checker
<1>6. CASE MarkBreaches
  <2>1. ASSUME NEW a \in AlertIds
        PROVE [rows[a] EXCEPT !.breached = @ \/ Breaching(a)] \in Row
    BY DEF TypeOK, Row
  <2> QED
    BY <1>6, <2>1 DEF MarkBreaches, TypeOK
<1>7. CASE FindTargets
  BY <1>7, SelectedType DEF FindTargets, TypeOK, table
<1>8. ASSUME NEW a \in AlertIds, Escalate(a)
      PROVE TypeOK'
  BY <1>8, EscalatedRowType, OutdatedType DEF Escalate, DropTarget, TypeOK
<1>9. ASSUME NEW a \in AlertIds, EscalateFails(a)
      PROVE TypeOK'
  BY <1>9 DEF EscalateFails, DropTarget, TypeOK, table
<1>10. CASE FindFails
  BY <1>10 DEF FindFails, OpenBreaches, TypeOK, table
<1>11. CASE Crash
  BY <1>11 DEF Crash, OpenBreaches, TypeOK, table
<1>12. CASE Tick
  BY <1>12, TimesAssumption DEF Tick, TypeOK, table, checker
<1>13. CASE UNCHANGED vars
  BY <1>13 DEF TypeOK, vars, table, checker
<1> QED
  BY <1>1, <1>3, <1>4, <1>5, <1>6, <1>7, <1>8, <1>9, <1>10, <1>11, <1>12, <1>13
  DEF Next, FinishCheck

\* Every value the table, the requests and the checker hold has its type: the
\* severity an escalation raises stays within the scale, for instance.
THEOREM TypeCorrect == Spec => []TypeOK
BY InitType, StepType, PTL DEF Spec

-----------------------------------------------------------------------------
(* Status and timestamps *)

\* What ClosedAtCoherent and ResolvedHasTimestamp say of one row.
Coherent(r) ==
    /\ r.closedAt <=> r.status = Closed
    /\ r.status = Resolved => r.resolvedAt

\* The two are inductive only together with the rows still to be written: every
\* request's copy is coherent, and no copy of the checker, in which the two
\* timestamps are missing, has a status that would need one.
CoherenceInv ==
    /\ \A a \in AlertIds : Coherent(rows[a])
    /\ \A p \in Procs : Coherent(job[p].row)
    /\ \A a \in AlertIds : ~Settled(targets[a]) /\ ~targets[a].closedAt

LEMMA NoRowCoherent == Coherent(NoRow) /\ ~Settled(NoRow) /\ ~NoRow.closedAt
BY DEF Coherent, Settled, NoRow, Absent, Closed, Resolved

\* An open row stays coherent under the fields of a request.
LEMMA UpdatedRowCoherent ==
  ASSUME NEW r \in Row, Coherent(r), r.status # Closed,
         NEW severity, NEW wanted \in {NotGiven} \cup AskedStatuses, NEW who
  PROVE  Coherent(ApplyStatus(ApplyAssignee(ApplySeverity(r, severity), who), wanted))
<1> DEFINE q == ApplySeverity(r, severity)
           t == ApplyAssignee(q, who)
<1>1. /\ q.status = r.status /\ q.closedAt = r.closedAt
      /\ q.resolvedAt = r.resolvedAt /\ q.assignee = r.assignee
      /\ q = [q EXCEPT !.status = q.status]
      /\ DOMAIN q = DOMAIN r
  BY DEF ApplySeverity, Row
<1>2. /\ t.status \in {q.status, Assigned} /\ t.closedAt = q.closedAt
      /\ t.resolvedAt = q.resolvedAt /\ DOMAIN t = DOMAIN q
  BY <1>1 DEF ApplyAssignee, Row
<1>3. Coherent(t) /\ t.status # Closed
  BY <1>1, <1>2 DEF Coherent, Assigned, Resolved, Closed
<1>4. "status" \in DOMAIN t /\ "resolvedAt" \in DOMAIN t /\ "closedAt" \in DOMAIN t
  BY <1>1, <1>2 DEF Row
<1> HIDE DEF t
<1>5. Coherent(ApplyStatus(t, wanted))
  BY <1>3, <1>4 DEF ApplyStatus, Coherent, NotGiven, Resolved, Closed
<1> QED
  BY <1>5 DEF t

\* An unsettled copy without closed_at is coherent, and escalating it leaves it so.
LEMMA EscalatedRowCoherent ==
  ASSUME NEW r \in Row, ~Settled(r), ~r.closedAt
  PROVE  Coherent(EscalatedRow(r))
BY DEF EscalatedRow, Coherent, Settled, Row, Resolved, Closed, Escalated

LEMMA InitCoherence == Init => CoherenceInv
BY NoRowCoherent DEF Init, CoherenceInv, NoJob

\* Starting a request, ending one, and marking copies stale change no copy.
LEMMA OutdatedCopies ==
  ASSUME job \in [Procs -> Job], NEW a
  PROVE  \A p \in Procs : /\ Outdated(a)[p].row = job[p].row
                          /\ Outdated(a)[p].alert = job[p].alert
BY DEF Outdated, Job

LEMMA StepCoherence == TypeOK /\ CoherenceInv /\ [Next]_vars => CoherenceInv'
<1> SUFFICES ASSUME TypeOK, CoherenceInv, [Next]_vars PROVE CoherenceInv'
  OBVIOUS
<1> USE NoRowCoherent
<1>1. ASSUME NEW a \in AlertIds, NEW severity \in NewSeverities, Create(a, severity)
      PROVE CoherenceInv'
  <2>1. Coherent([NoRow EXCEPT !.severity = severity, !.status = New])
    BY DEF Coherent, NoRow, New, Resolved, Closed
  <2> QED
    BY <1>1, <2>1 DEF Create, CoherenceInv, TypeOK, checker
<1>2. ASSUME NEW p \in Procs, NEW a, NEW r, Coherent(r), Prepare(p, a, r)
      PROVE CoherenceInv'
  BY <1>2 DEF Prepare, CoherenceInv, TypeOK, table, checker
<1>3. ASSUME NEW p \in Procs, Arrive(p)
      PROVE CoherenceInv'
  <2>1. ASSUME NEW a \in AlertIds, NEW severity \in {NotGiven} \cup AskedSeverities,
               NEW wanted \in {NotGiven} \cup AskedStatuses,
               NEW who \in {Nobody} \cup Staff, UpdateRead(p, a, severity, wanted, who)
        PROVE CoherenceInv'
    <3>1. rows[a] \in Row /\ Coherent(rows[a]) /\ rows[a].status # Closed
      BY <2>1 DEF TypeOK, CoherenceInv, UpdateRead
    <3> QED
      BY <1>2, <2>1, <3>1, UpdatedRowCoherent DEF UpdateRead
  <2>2. ASSUME NEW a \in AlertIds, NEW who \in Staff, AssignRead(p, a, who)
        PROVE CoherenceInv'
    <3>1. Coherent([rows[a] EXCEPT !.assignee = who, !.status = Assigned])
      BY <2>2 DEF AssignRead, CoherenceInv, Coherent, TypeOK, Row, Assigned, Resolved,
                  Closed
    <3> QED
      BY <1>2, <2>2, <3>1 DEF AssignRead
  <2>3. CASE RefusedRequest(p)
    BY <2>3 DEF RefusedRequest, CoherenceInv, vars, table, checker
  <2> QED
    BY <1>3, <2>1, <2>2, <2>3 DEF Arrive
<1>4. ASSUME NEW p \in Procs, WriteBack(p)
      PROVE CoherenceInv'
  <2>1. \A a \in AlertIds : Coherent(rows'[a])
    BY <1>4 DEF WriteBack, CoherenceInv, TypeOK
  <2>2. \A q \in Procs : job'[q].row \in {NoRow, job[q].row}
    BY <1>4, OutdatedCopies, OutdatedType DEF WriteBack, TypeOK, NoJob
  <2> QED
    BY <1>4, <2>1, <2>2 DEF WriteBack, CoherenceInv
<1>5. ASSUME NEW p \in Procs, WriteFails(p)
      PROVE CoherenceInv'
  BY <1>5 DEF WriteFails, CoherenceInv, NoJob, TypeOK, table, checker
<1>6. CASE MarkBreaches
  BY <1>6 DEF MarkBreaches, CoherenceInv, Coherent, TypeOK, Row
<1>7. CASE FindTargets
  <2>1. ASSUME NEW a \in AlertIds
        PROVE ~Settled(Selected(rows[a])) /\ ~Selected(rows[a]).closedAt
    BY DEF Selected, OpenBreach, Settled, TypeOK, Row
  <2> QED
    BY <1>7, <2>1 DEF FindTargets, CoherenceInv, TypeOK, table
<1>8. ASSUME NEW a \in AlertIds, Escalate(a)
      PROVE CoherenceInv'
  <2>1. \A b \in AlertIds : Coherent(rows'[b])
    BY <1>8, EscalatedRowCoherent DEF Escalate, CoherenceInv, TypeOK
  <2>2. \A q \in Procs : job'[q].row = job[q].row
    BY <1>8, OutdatedCopies DEF Escalate, TypeOK
  <2>3. \A b \in AlertIds : targets'[b] \in {NoRow, targets[b]}
    BY <1>8 DEF Escalate, DropTarget, TypeOK
  <2> QED
    BY <2>1, <2>2, <2>3 DEF CoherenceInv
<1>9. ASSUME NEW a \in AlertIds, EscalateFails(a)
      PROVE CoherenceInv'
  BY <1>9 DEF EscalateFails, DropTarget, CoherenceInv, TypeOK, table
<1>10. CASE FindFails
  BY <1>10 DEF FindFails, CoherenceInv, table
<1>11. CASE Crash
  BY <1>11 DEF Crash, CoherenceInv, NoJob, table
<1>12. CASE Tick
  BY <1>12 DEF Tick, CoherenceInv, table, checker
<1>13. CASE UNCHANGED vars
  BY <1>13 DEF CoherenceInv, vars, table, checker
<1> QED
  BY <1>1, <1>3, <1>4, <1>5, <1>6, <1>7, <1>8, <1>9, <1>10, <1>11, <1>12, <1>13
  DEF Next, FinishCheck

\* Whatever order requests and the checker write in, and however old the row they
\* write, an alert has a closed_at exactly while it is closed.
THEOREM ClosedAtCorrect == Spec => []ClosedAtCoherent
<1>1. CoherenceInv => ClosedAtCoherent
  BY DEF CoherenceInv, Coherent, ClosedAtCoherent
<1> QED
  BY <1>1, InitType, StepType, InitCoherence, StepCoherence, PTL DEF Spec

\* A resolved alert has a resolved_at, though the checker writes alerts back
\* without one: what it writes back was not resolved when it read it.
THEOREM ResolvedAtCorrect == Spec => []ResolvedHasTimestamp
<1>1. CoherenceInv => ResolvedHasTimestamp
  BY DEF CoherenceInv, Coherent, ResolvedHasTimestamp
<1> QED
  BY <1>1, InitType, StepType, InitCoherence, StepCoherence, PTL DEF Spec

-----------------------------------------------------------------------------
(* Breaches and deadlines *)

\* BreachedIsOverdue is inductive together with the copies: a copy says breached
\* only of an alert that is overdue, and it exists, so that no Create gives it
\* another deadline; the copies of the checker never say breached.
BreachInv ==
    /\ BreachedIsOverdue
    /\ \A p \in Procs : job[p].alert # NoAlert =>
          /\ Exists(job[p].alert)
          /\ job[p].row.status # Absent
          /\ job[p].row.breached => Overdue(job[p].alert)
    /\ \A a \in AlertIds :
          /\ ~targets[a].breached
          /\ targets[a] # NoRow => targets[a].status # Absent

LEMMA NoRowUnbreached == ~NoRow.breached /\ NoJob.alert = NoAlert
BY DEF NoRow, NoJob

\* An existing row stays one, and turns breached by no field of a request.
LEMMA UpdatedRowUnbreached ==
  ASSUME NEW r \in Row, r.status # Absent,
         NEW severity, NEW wanted \in {NotGiven} \cup AskedStatuses, NEW who
  PROVE  LET t == ApplyStatus(ApplyAssignee(ApplySeverity(r, severity), who), wanted)
         IN  t.status # Absent /\ (t.breached => r.breached)
<1> DEFINE q == ApplySeverity(r, severity)
           u == ApplyAssignee(q, who)
<1>1. /\ q.status = r.status
      /\ q.breached => r.breached
      /\ DOMAIN q = DOMAIN r
  BY DEF ApplySeverity, Row
<1>2. u.status # Absent /\ u.breached = q.breached /\ DOMAIN u = DOMAIN q
  BY <1>1 DEF ApplyAssignee, Row, Assigned, Absent
<1>3. "status" \in DOMAIN u /\ "breached" \in DOMAIN u
  BY <1>1, <1>2 DEF Row
<1>4. wanted # NotGiven => wanted # Absent
  BY DEF NotGiven, Absent
<1> HIDE DEF u
<1>5. /\ ApplyStatus(u, wanted).status # Absent
      /\ ApplyStatus(u, wanted).breached = u.breached
  BY <1>2, <1>3, <1>4 DEF ApplyStatus
<1> QED
  BY <1>1, <1>2, <1>5 DEF u

LEMMA EscalatedRowUnbreached ==
  ASSUME NEW r \in Row, r.status # Absent
  PROVE  EscalatedRow(r).status # Absent /\ EscalatedRow(r).breached = r.breached
BY DEF EscalatedRow, Row, Escalated, Absent

LEMMA InitBreach == Init => BreachInv
BY NoRowUnbreached DEF Init, BreachInv, BreachedIsOverdue

LEMMA StepBreach == TypeOK /\ BreachInv /\ [Next]_vars => BreachInv'
<1> SUFFICES ASSUME TypeOK, BreachInv, [Next]_vars PROVE BreachInv'
  OBVIOUS
<1> USE NoRowUnbreached, NamesAssumption
<1>1. ASSUME NEW a \in AlertIds, NEW severity \in NewSeverities, Create(a, severity)
      PROVE BreachInv'
  <2> DEFINE r == [NoRow EXCEPT !.severity = severity, !.status = New]
  <2>1. r.status # Absent /\ ~r.breached
    BY DEF NoRow, New, Absent
  <2>2. /\ rows'[a] = r
        /\ \A b \in AlertIds \ {a} : rows'[b] = rows[b] /\ deadline'[b] = deadline[b]
    BY <1>1 DEF Create, TypeOK
  <2>3. \A p \in Procs : job[p].alert # NoAlert => job[p].alert \in AlertIds \ {a}
    BY <1>1 DEF Create, BreachInv, TypeOK, Job
  <2>4. UNCHANGED <<now, job, targets>>
    BY <1>1 DEF Create, checker
  <2> HIDE DEF r
  <2> QED
    BY <2>1, <2>2, <2>3, <2>4 DEF BreachInv, BreachedIsOverdue, Exists, Overdue
<1>2. ASSUME NEW p \in Procs, NEW a \in AlertIds, NEW r, Exists(a), r.status # Absent,
             r.breached => rows[a].breached, Prepare(p, a, r)
      PROVE BreachInv'
  <2>1. r.breached => Overdue(a)
    BY <1>2 DEF BreachInv, BreachedIsOverdue
  <2>2. UNCHANGED <<rows, deadline, now, targets>>
    BY <1>2 DEF Prepare, table, checker
  <2>3. \A q \in Procs : job'[q] = IF q = p THEN [alert |-> a, row |-> r, stale |-> FALSE]
                                            ELSE job[q]
    BY <1>2 DEF Prepare, TypeOK
  <2> QED
    BY <1>2, <2>1, <2>2, <2>3 DEF BreachInv, BreachedIsOverdue, Exists, Overdue
<1>3. ASSUME NEW p \in Procs, Arrive(p)
      PROVE BreachInv'
  <2>1. ASSUME NEW a \in AlertIds, NEW severity \in {NotGiven} \cup AskedSeverities,
               NEW wanted \in {NotGiven} \cup AskedStatuses,
               NEW who \in {Nobody} \cup Staff, UpdateRead(p, a, severity, wanted, who)
        PROVE BreachInv'
    <3>1. rows[a] \in Row /\ Exists(a) /\ rows[a].status # Absent
      BY <2>1 DEF TypeOK, UpdateRead, Exists
    <3> QED
      BY <1>2, <2>1, <3>1, UpdatedRowUnbreached DEF UpdateRead
  <2>2. ASSUME NEW a \in AlertIds, NEW who \in Staff, AssignRead(p, a, who)
        PROVE BreachInv'
    <3> DEFINE r == [rows[a] EXCEPT !.assignee = who, !.status = Assigned]
    <3>1. r.status # Absent /\ (r.breached => rows[a].breached)
      BY DEF TypeOK, Row, Assigned, Absent
    <3> HIDE DEF r
    <3>2. Exists(a) /\ Prepare(p, a, r)
      BY <2>2 DEF AssignRead, r
    <3> QED
      BY <1>2, <3>1, <3>2
  <2>3. CASE RefusedRequest(p)
    BY <2>3 DEF RefusedRequest, BreachInv, BreachedIsOverdue, Exists, Overdue, vars,
                table, checker
  <2> QED
    BY <1>3, <2>1, <2>2, <2>3 DEF Arrive
<1>4. ASSUME NEW p \in Procs, WriteBack(p)
      PROVE BreachInv'
  <2> DEFINE a == job[p].alert
  <2>1. /\ a \in AlertIds /\ Exists(a) /\ job[p].row.status # Absent
        /\ job[p].row.breached => Overdue(a)
    BY <1>4 DEF WriteBack, BreachInv, TypeOK, Job
  <2>2. /\ rows'[a] = job[p].row
        /\ \A b \in AlertIds \ {a} : rows'[b] = rows[b]
        /\ UNCHANGED <<deadline, now, targets>>
    BY <1>4, <2>1 DEF WriteBack, TypeOK
  <2>3. /\ job'[p] = NoJob
        /\ \A q \in Procs \ {p} : job'[q].alert = job[q].alert /\ job'[q].row = job[q].row
    BY <1>4, OutdatedCopies, OutdatedType DEF WriteBack, TypeOK
  <2>4. \A b \in AlertIds : Exists(b) => Exists(b)'
    BY <2>1, <2>2 DEF Exists
  <2>5. \A q \in Procs : job[q].alert # NoAlert => job[q].alert \in AlertIds
    BY DEF TypeOK, Job
  <2> HIDE DEF a
  <2>6. BreachedIsOverdue'
    BY <2>1, <2>2 DEF BreachInv, BreachedIsOverdue, Overdue
  <2>7. ASSUME NEW q \in Procs, job'[q].alert # NoAlert
        PROVE /\ Exists(job[q].alert)' /\ job'[q].row.status # Absent
              /\ job'[q].row.breached => Overdue(job[q].alert)'
              /\ job'[q].alert = job[q].alert
    BY <2>2, <2>3, <2>4, <2>5, <2>7 DEF BreachInv, Overdue
  <2> QED
    BY <2>2, <2>6, <2>7 DEF BreachInv, Exists, Overdue
<1>5. ASSUME NEW p \in Procs, WriteFails(p)
      PROVE BreachInv'
  BY <1>5 DEF WriteFails, BreachInv, BreachedIsOverdue, Exists, Overdue, TypeOK, table,
              checker
<1>6. CASE MarkBreaches
  <2>1. \A a \in AlertIds : /\ rows'[a].status = rows[a].status
                            /\ rows'[a].breached => rows[a].breached \/ Breaching(a)
    BY <1>6 DEF MarkBreaches, TypeOK, Row
  <2>2. \A q \in Procs : job[q].alert # NoAlert => job[q].alert \in AlertIds
    BY DEF TypeOK, Job
  <2>3. UNCHANGED <<deadline, now, job, targets>>
    BY <1>6 DEF MarkBreaches
  <2>4. \A a \in AlertIds : (Exists(a)' <=> Exists(a)) /\ (Overdue(a)' <=> Overdue(a))
    BY <2>1, <2>3 DEF Exists, Overdue
  <2>5. BreachedIsOverdue'
    BY <2>1, <2>4 DEF BreachInv, BreachedIsOverdue, Breaching
  <2> QED
    BY <2>2, <2>3, <2>4, <2>5 DEF BreachInv
<1>7. CASE FindTargets
  <2>1. ASSUME NEW a \in AlertIds
        PROVE /\ ~Selected(rows[a]).breached
              /\ Selected(rows[a]) # NoRow => Selected(rows[a]).status # Absent
    BY DEF Selected, OpenBreach, TypeOK, Row
  <2> QED
    BY <1>7, <2>1
    DEF FindTargets, BreachInv, BreachedIsOverdue, Exists, Overdue, TypeOK, table
<1>8. ASSUME NEW a \in AlertIds, Escalate(a)
      PROVE BreachInv'
  <2>1. rows'[a].status # Absent /\ ~rows'[a].breached
    BY <1>8, EscalatedRowUnbreached DEF Escalate, IsNext, BreachInv, TypeOK
  <2>2. /\ \A b \in AlertIds \ {a} : rows'[b] = rows[b]
        /\ UNCHANGED <<deadline, now>>
        /\ \A q \in Procs : job'[q].alert = job[q].alert /\ job'[q].row = job[q].row
        /\ \A b \in AlertIds : targets'[b] \in {NoRow, targets[b]}
    BY <1>8, OutdatedCopies DEF Escalate, DropTarget, TypeOK
  <2>3. \A q \in Procs : job[q].alert # NoAlert => job[q].alert \in AlertIds
    BY DEF TypeOK, Job
  <2> QED
    BY <2>1, <2>2, <2>3 DEF BreachInv, BreachedIsOverdue, Exists, Overdue
<1>9. ASSUME NEW a \in AlertIds, EscalateFails(a)
      PROVE BreachInv'
  <2>1. \A b \in AlertIds : targets'[b] \in {NoRow, targets[b]}
    BY <1>9 DEF EscalateFails, DropTarget, TypeOK
  <2> QED
    BY <1>9, <2>1 DEF EscalateFails, BreachInv, BreachedIsOverdue, Exists, Overdue, table
<1>10. CASE FindFails
  BY <1>10 DEF FindFails, BreachInv, BreachedIsOverdue, Exists, Overdue, table
<1>11. CASE Crash
  BY <1>11 DEF Crash, BreachInv, BreachedIsOverdue, Exists, Overdue, table
<1>12. CASE Tick
  <2>1. \A a : Overdue(a) /\ deadline[a] \in Nat => Overdue(a)'
    BY <1>12 DEF Tick, Overdue, TypeOK, table
  <2>2. \A q \in Procs : job[q].alert # NoAlert => job[q].alert \in AlertIds
    BY DEF TypeOK, Job
  <2> QED
    BY <1>12, <2>1, <2>2
    DEF Tick, BreachInv, BreachedIsOverdue, Exists, TypeOK, table, checker
<1>13. CASE UNCHANGED vars
  BY <1>13 DEF BreachInv, BreachedIsOverdue, Exists, Overdue, vars, table, checker
<1> QED
  BY <1>1, <1>3, <1>4, <1>5, <1>6, <1>7, <1>8, <1>9, <1>10, <1>11, <1>12, <1>13
  DEF Next, FinishCheck

\* No write, however old the row it carries, leaves sla_breached set on an alert
\* whose deadline is ahead.
THEOREM BreachCorrect == Spec => []BreachedIsOverdue
<1>1. BreachInv => BreachedIsOverdue
  BY DEF BreachInv
<1> QED
  BY <1>1, InitType, StepType, InitBreach, StepBreach, PTL DEF Spec

-----------------------------------------------------------------------------
(* The life cycle *)

Moves(from, to) == from # Absent /\ (to = from \/ <<from, to>> \in Lifecycle)

\* A copy that nobody has overtaken leads along the life cycle from where the row
\* still is: a request's as it stands, a target once it is escalated.
FreshCopies ==
    \A p \in Procs :
        /\ job[p].alert # NoAlert
        /\ ~job[p].stale
        => Moves(rows[job[p].alert].status, job[p].row.status)
FreshTargets ==
    \A a \in AlertIds :
        /\ targets[a] # NoRow
        /\ a \notin outdated
        => /\ targets[a].status = rows[a].status
           /\ rows[a].status # Absent
           /\ ~Settled(rows[a])
FreshInv == FreshCopies /\ FreshTargets

LEMMA UpdatedRowMoves ==
  ASSUME NEW r \in Row, r.status \notin {Absent, Closed},
         NEW severity \in {NotGiven} \cup AskedSeverities,
         NEW wanted \in {NotGiven} \cup AskedStatuses, NEW who \in {Nobody} \cup Staff,
         Allowed(r.status, wanted)
  PROVE  Moves(r.status,
               ApplyStatus(ApplyAssignee(ApplySeverity(r, severity), who), wanted).status)
<1> DEFINE q == ApplyAssignee(ApplySeverity(r, severity), who)
<1>1. ApplySeverity(r, severity) \in Row /\ ApplySeverity(r, severity).status = r.status
  BY ClientsAssumption DEF ApplySeverity, Row, Severities, NotGiven
<1>2. ASSUME NEW s \in Row
      PROVE /\ ApplyAssignee(s, who) \in Row
            /\ ApplyAssignee(s, who).status
                   \in {s.status} \cup (IF s.status = New THEN {Assigned} ELSE {})
  BY StatusTypes DEF ApplyAssignee, Row
<1>3. q \in Row /\ q.status \in {r.status} \cup (IF r.status = New THEN {Assigned} ELSE {})
  BY <1>1, <1>2
<1>4. <<New, Assigned>> \in Lifecycle
  BY DEF Lifecycle, ValidTransitions
<1>5. CASE wanted = NotGiven
  BY <1>3, <1>4, <1>5 DEF ApplyStatus, Moves
<1>6. CASE wanted # NotGiven
  <2>1. ApplyStatus(q, wanted).status = wanted
    BY <1>3, <1>6 DEF ApplyStatus, Row
  <2>2. wanted = r.status \/ <<r.status, wanted>> \in Lifecycle
    BY <1>6 DEF Allowed, Lifecycle
  <2> QED
    BY <2>1, <2>2 DEF Moves
<1> QED
  BY <1>5, <1>6

\* Raising the severity clears the mark, and nothing a request asks for sets it.
LEMMA UpdatedRowMark ==
  ASSUME NEW r \in Row, NEW severity \in {NotGiven} \cup AskedSeverities,
         NEW wanted \in {NotGiven} \cup AskedStatuses, NEW who \in {Nobody} \cup Staff,
         ApplyStatus(ApplyAssignee(ApplySeverity(r, severity), who), wanted).breached
  PROVE  r.breached
<1>1. /\ ApplySeverity(r, severity) \in Row
      /\ ApplySeverity(r, severity).breached => r.breached
  BY ClientsAssumption DEF ApplySeverity, Row, Severities, NotGiven
<1>2. ASSUME NEW q \in Row
      PROVE  /\ ApplyAssignee(q, who) \in Row
             /\ ApplyAssignee(q, who).breached => q.breached
  BY StatusTypes DEF ApplyAssignee, Row
<1>3. ASSUME NEW q \in Row
      PROVE  ApplyStatus(q, wanted).breached => q.breached
  BY ClientsAssumption DEF ApplyStatus, Row, Statuses
<1> QED
  BY <1>1, <1>2, <1>3

\* A request that is not refused prepares a legal move from the row it reads.
LEMMA ArrivePrepares ==
  ASSUME TypeOK, NEW p \in Procs, Arrive(p)
  PROVE  \/ RefusedRequest(p)
         \/ \E a \in AlertIds, r \in Row :
               /\ Prepare(p, a, r)
               /\ Moves(rows[a].status, r.status)
               /\ r.breached => rows[a].breached
<1>1. ASSUME NEW a \in AlertIds, NEW severity \in {NotGiven} \cup AskedSeverities,
             NEW wanted \in {NotGiven} \cup AskedStatuses,
             NEW who \in {Nobody} \cup Staff, UpdateRead(p, a, severity, wanted, who)
      PROVE  \E r \in Row : /\ Prepare(p, a, r)
                            /\ Moves(rows[a].status, r.status)
                            /\ r.breached => rows[a].breached
  <2> DEFINE r == ApplyStatus(ApplyAssignee(ApplySeverity(rows[a], severity), who), wanted)
  <2>1. /\ rows[a] \in Row /\ rows[a].status \notin {Absent, Closed}
        /\ Allowed(rows[a].status, wanted) /\ Prepare(p, a, r)
    BY <1>1 DEF TypeOK, UpdateRead, Exists
  <2>2. /\ r \in Row /\ Moves(rows[a].status, r.status)
        /\ r.breached => rows[a].breached
    BY <2>1, UpdatedRowType, UpdatedRowMoves, UpdatedRowMark
  <2> QED
    BY <2>1, <2>2
<1>2. ASSUME NEW a \in AlertIds, NEW who \in Staff, AssignRead(p, a, who)
      PROVE  \E r \in Row : /\ Prepare(p, a, r)
                            /\ Moves(rows[a].status, r.status)
                            /\ r.breached => rows[a].breached
  <2> DEFINE r == [rows[a] EXCEPT !.assignee = who, !.status = Assigned]
  <2>1. /\ rows[a] \in Row /\ rows[a].status \in Statuses \ {Closed}
        /\ rows[a].status # Absent /\ Prepare(p, a, r)
    BY <1>2 DEF TypeOK, AssignRead, Exists, Row
  <2>2. r \in Row /\ r.status = Assigned /\ r.breached = rows[a].breached
    BY <2>1, StatusTypes DEF Row
  <2>3. <<rows[a].status, Assigned>> \in Lifecycle
    BY <2>1 DEF Lifecycle
  <2> QED
    BY <2>1, <2>2, <2>3 DEF Moves
<1> QED
  BY <1>1, <1>2 DEF Arrive

LEMMA EscalatedRowMoves ==
  ASSUME NEW r \in Row, r.status # Absent, ~Settled(r)
  PROVE  Moves(r.status, EscalatedRow(r).status)
<1>1. EscalatedRow(r).status \in {r.status, Escalated}
  BY DEF EscalatedRow, Row
<1>2. <<r.status, Escalated>> \in Lifecycle
  BY DEF Lifecycle, Row, Settled
<1> QED
  BY <1>1, <1>2 DEF Moves

LEMMA InitFresh == Init => FreshInv
BY DEF Init, FreshInv, FreshCopies, FreshTargets, NoJob

\* Statuses stay, and copies go or become stale: nothing new has to be shown.
LEMMA FrameFresh ==
  ASSUME TypeOK, FreshInv,
         \A a \in AlertIds : rows'[a].status = rows[a].status,
         \A p \in Procs : job'[p] \in {NoJob, job[p]},
         \A a \in AlertIds : targets'[a] \in {NoRow, targets[a]},
         \/ outdated' = outdated
         \/ targets' = [a \in AlertIds |-> NoRow]
  PROVE  FreshInv'
<1>1. \A p \in Procs : job[p].alert # NoAlert => job[p].alert \in AlertIds
  BY DEF TypeOK, Job
<1>2. FreshCopies'
  BY <1>1 DEF FreshInv, FreshCopies, NoJob
<1>3. FreshTargets'
  BY DEF FreshInv, FreshTargets, Settled
<1> QED
  BY <1>2, <1>3 DEF FreshInv

\* Alert a is written: the copies of it that stay are stale.
LEMMA WriteFresh ==
  ASSUME TypeOK, FreshInv, NEW a \in AlertIds,
         \A b \in AlertIds \ {a} : rows'[b] = rows[b],
         \A p \in Procs : job'[p] \in {NoJob, Outdated(a)[p]},
         \/ targets'[a] = NoRow
         \/ a \in outdated',
         \A b \in AlertIds \ {a} : targets'[b] = targets[b],
         outdated \subseteq outdated'
  PROVE  FreshInv'
<1>1. ASSUME NEW p \in Procs, job'[p].alert # NoAlert, ~job'[p].stale
      PROVE  Moves(rows'[job'[p].alert].status, job'[p].row.status)
  <2>1. job'[p] = Outdated(a)[p]
    BY <1>1 DEF NoJob
  <2>2. /\ job[p].alert = job'[p].alert /\ job[p].row = job'[p].row
        /\ ~job[p].stale /\ job[p].alert # a
    BY <1>1, <2>1, NotOutdated
  <2>3. job[p].alert \in AlertIds \ {a}
    BY <1>1, <2>2 DEF TypeOK, Job
  <2> QED
    BY <1>1, <2>2, <2>3 DEF FreshInv, FreshCopies
<1>2. FreshTargets'
  BY DEF FreshInv, FreshTargets, Settled
<1> QED
  BY <1>1, <1>2 DEF FreshInv, FreshCopies

LEMMA StepFresh == TypeOK /\ FreshInv /\ [Next]_vars => FreshInv'
<1> SUFFICES ASSUME TypeOK, FreshInv, [Next]_vars PROVE FreshInv'
  OBVIOUS
<1>1. ASSUME NEW a \in AlertIds, NEW severity \in NewSeverities, Create(a, severity)
      PROVE FreshInv'
  <2>1. /\ \A b \in AlertIds \ {a} : rows'[b] = rows[b]
        /\ rows[a].status = Absent
        /\ UNCHANGED <<job, targets, outdated>>
    BY <1>1 DEF Create, Exists, TypeOK, checker
  <2>2. FreshCopies'
    BY <2>1 DEF FreshInv, FreshCopies, Moves, TypeOK, Job
  <2>3. FreshTargets'
    BY <2>1 DEF FreshInv, FreshTargets, Settled
  <2> QED
    BY <2>2, <2>3 DEF FreshInv
<1>2. ASSUME NEW p \in Procs, NEW a \in AlertIds, NEW r \in Row, Prepare(p, a, r),
             Moves(rows[a].status, r.status)
      PROVE FreshInv'
  <2>1. /\ UNCHANGED <<rows, targets, outdated>>
        /\ job'[p].alert = a /\ job'[p].row = r
        /\ \A q \in Procs \ {p} : job'[q] = job[q]
    BY <1>2 DEF Prepare, TypeOK, table, checker
  <2>2. FreshCopies'
    BY <1>2, <2>1 DEF FreshInv, FreshCopies
  <2>3. FreshTargets'
    BY <2>1 DEF FreshInv, FreshTargets, Settled
  <2> QED
    BY <2>2, <2>3 DEF FreshInv
<1>3. ASSUME NEW p \in Procs, Arrive(p)
      PROVE FreshInv'
  <2>1. CASE RefusedRequest(p)
    BY <2>1, FrameFresh DEF RefusedRequest, vars, table, checker
  <2> QED
    BY <1>2, <1>3, <2>1, ArrivePrepares
<1>4. ASSUME NEW p \in Procs, WriteBack(p)
      PROVE FreshInv'
  <2> DEFINE a == job[p].alert
  <2>1. a \in AlertIds
    BY <1>4 DEF WriteBack, TypeOK, Job
  <2>2. /\ \A b \in AlertIds \ {a} : rows'[b] = rows[b]
        /\ a \in outdated' /\ outdated \subseteq outdated' /\ targets' = targets
    BY <1>4, <2>1 DEF WriteBack, TypeOK
  <2>3. \A q \in Procs : job'[q] \in {NoJob, Outdated(a)[q]}
    BY <1>4, <2>1, OutdatedType DEF WriteBack, TypeOK
  <2> HIDE DEF a
  <2> QED
    BY <2>1, <2>2, <2>3, WriteFresh
<1>5. ASSUME NEW p \in Procs, WriteFails(p)
      PROVE FreshInv'
  <2>1. \A q \in Procs : job'[q] \in {NoJob, job[q]}
    BY <1>5 DEF WriteFails, TypeOK
  <2> QED
    BY <1>5, <2>1, FrameFresh DEF WriteFails, table, checker
<1>6. CASE MarkBreaches
  <2>1. \A a \in AlertIds : rows'[a].status = rows[a].status
    BY <1>6 DEF MarkBreaches, TypeOK, Row
  <2> QED
    BY <1>6, <2>1, FrameFresh DEF MarkBreaches
<1>7. CASE FindTargets
  <2>1. UNCHANGED <<rows, job>>
    BY <1>7 DEF FindTargets, table
  <2>2. ASSUME NEW a \in AlertIds, targets'[a] # NoRow
        PROVE  /\ targets'[a].status = rows[a].status
               /\ rows[a].status # Absent /\ ~Settled(rows[a])
    <3>1. rows[a] \in Row /\ targets'[a] = Selected(rows[a])
      BY <1>7 DEF FindTargets, TypeOK
    <3> QED
      BY <2>2, <3>1 DEF Selected, OpenBreach, Row
  <2>3. FreshTargets'
    BY <2>1, <2>2 DEF FreshTargets, Settled
  <2>4. FreshCopies'
    BY <2>1 DEF FreshInv, FreshCopies
  <2> QED
    BY <2>3, <2>4 DEF FreshInv
<1>8. ASSUME NEW a \in AlertIds, Escalate(a)
      PROVE FreshInv'
  <2>1. /\ \A b \in AlertIds \ {a} : rows'[b] = rows[b]
        /\ \A q \in Procs : job'[q] = Outdated(a)[q]
        /\ targets'[a] = NoRow
        /\ \A b \in AlertIds \ {a} : targets'[b] = targets[b]
        /\ outdated' = outdated
    BY <1>8 DEF Escalate, DropTarget, TypeOK
  <2> QED
    BY <2>1, WriteFresh
<1>9. ASSUME NEW a \in AlertIds, EscalateFails(a)
      PROVE FreshInv'
  <2>1. \A b \in AlertIds : targets'[b] \in {NoRow, targets[b]}
    BY <1>9 DEF EscalateFails, DropTarget, TypeOK
  <2> QED
    BY <1>9, <2>1, FrameFresh DEF EscalateFails, table
<1>10. CASE FindFails
  BY <1>10, FrameFresh DEF FindFails, table
<1>11. CASE Crash
  BY <1>11, FrameFresh DEF Crash, table
<1>12. CASE Tick \/ UNCHANGED vars
  BY <1>12, FrameFresh DEF Tick, vars, table, checker
<1> QED
  BY <1>1, <1>3, <1>4, <1>5, <1>6, <1>7, <1>8, <1>9, <1>10, <1>11, <1>12
  DEF Next, FinishCheck

\* Of all the writers of alerts, only those whose copy of the row was overtaken take
\* an alert off its life cycle, out of Closed for instance.
THEOREM LifecycleCorrect == Spec => FreshWritesFollowLifecycle
<1> DEFINE OffTrack(a) == /\ rows[a].status \notin {Absent, rows'[a].status}
                          /\ <<rows[a].status, rows'[a].status>> \notin Lifecycle
           Overtaken(a) == \/ \E p \in Procs : job[p].stale /\ job[p].alert = a /\ WriteBack(p)
                           \/ a \in outdated /\ Escalate(a)
           Followed == \A a \in AlertIds : OffTrack(a) => Overtaken(a)
<1>1. TypeOK /\ FreshInv /\ [Next]_vars => [Followed]_vars
  <2> SUFFICES ASSUME TypeOK, FreshInv, [Next]_vars, NEW a \in AlertIds, OffTrack(a)
               PROVE  Overtaken(a)
    OBVIOUS
  <2>1. ASSUME NEW b \in AlertIds, NEW severity \in NewSeverities, Create(b, severity)
        PROVE FALSE
    BY <2>1 DEF Create, Exists, TypeOK
  <2>2. ASSUME NEW p \in Procs, WriteBack(p)
        PROVE Overtaken(a)
    <3>1. job[p].alert = a /\ rows'[a].status = job[p].row.status
      BY <2>2 DEF WriteBack, TypeOK
    <3>2. CASE job[p].stale
      BY <2>2, <3>1, <3>2
    <3>3. CASE ~job[p].stale
      BY <2>2, <3>1, <3>3 DEF WriteBack, FreshInv, FreshCopies, Moves
    <3> QED
      BY <3>2, <3>3
  <2>3. ASSUME NEW b \in AlertIds, Escalate(b)
        PROVE Overtaken(a)
    <3>1. a = b /\ rows'[a].status = EscalatedRow(targets[a]).status /\ targets[a] # NoRow
      BY <2>3 DEF Escalate, IsNext, TypeOK
    <3>2. CASE a \in outdated
      BY <2>3, <3>1, <3>2
    <3>3. CASE a \notin outdated
      <4>1. /\ targets[a] \in Row /\ targets[a].status = rows[a].status
            /\ targets[a].status # Absent /\ ~Settled(targets[a])
        BY <3>1, <3>3 DEF FreshInv, FreshTargets, Settled, TypeOK
      <4> QED
        BY <3>1, <4>1, EscalatedRowMoves DEF Moves
    <3> QED
      BY <3>2, <3>3
  <2>4. CASE MarkBreaches
    BY <2>4 DEF MarkBreaches, TypeOK, Row
  <2>5. CASE UNCHANGED rows
    BY <2>5
  <2>6. ASSUME NEW p \in Procs, Arrive(p)
        PROVE UNCHANGED rows
    BY <2>6 DEF Arrive, UpdateRead, AssignRead, Prepare, RefusedRequest, vars, table
  <2>7. ASSUME \/ \E p \in Procs : WriteFails(p)
               \/ FindTargets \/ FindFails \/ Crash \/ Tick \/ UNCHANGED vars
               \/ \E b \in AlertIds : EscalateFails(b)
        PROVE UNCHANGED rows
    BY <2>7 DEF WriteFails, FindTargets, FindFails, Crash, Tick, EscalateFails, vars, table
  <2> QED
    BY <2>1, <2>2, <2>3, <2>4, <2>5, <2>6, <2>7 DEF Next, FinishCheck
<1> QED
  BY <1>1, InitType, StepType, InitFresh, StepFresh, PTL DEF Spec, FreshWritesFollowLifecycle

\* Overtaken writes are all that breaks the promise that a closed alert cannot be
\* modified (alert_service.go:14): as long as nobody writes a copy that is out of date,
\* failures and crashes notwithstanding, a closed alert stays closed.
OvertakenWrite ==
    \/ \E p \in Procs : job[p].stale /\ WriteBack(p)
    \/ \E a \in outdated : Escalate(a)

THEOREM ClosedCorrect == Spec /\ [][~OvertakenWrite]_vars => ClosedStaysClosed
<1> DEFINE Followed ==
             \A a \in AlertIds :
               /\ rows[a].status \notin {Absent, rows'[a].status}
               /\ <<rows[a].status, rows'[a].status>> \notin Lifecycle
               => \/ \E p \in Procs : job[p].stale /\ job[p].alert = a /\ WriteBack(p)
                  \/ a \in outdated /\ Escalate(a)
           Kept == \A a \in AlertIds : rows[a].status = Closed => rows'[a].status = Closed
<1>1. Followed /\ ~OvertakenWrite => Kept
  <2> SUFFICES ASSUME Followed, ~OvertakenWrite, NEW a \in AlertIds,
                      rows[a].status = Closed, rows'[a].status # Closed
               PROVE  FALSE
    OBVIOUS
  <2>1. <<Closed, rows'[a].status>> \notin Lifecycle
    BY DEF Lifecycle, ValidTransitions, New, Assigned, Processing, Resolved, Closed, Escalated
  <2> QED
    BY <2>1 DEF OvertakenWrite, Closed, Absent
<1>2. UNCHANGED vars => Kept
  BY DEF vars, table
<1> QED
  BY <1>1, <1>2, LifecycleCorrect, PTL DEF FreshWritesFollowLifecycle, ClosedStaysClosed

-----------------------------------------------------------------------------
(* Breaches that slip from the checker *)

\* A request whose copy is not overtaken carries no mark that the row has not.
MarkedCopies ==
    \A p \in Procs :
        /\ job[p].alert # NoAlert
        /\ ~job[p].stale
        /\ job[p].row.breached
        => rows[job[p].alert].breached

\* Marks stay where a copy stays that is not stale.
LEMMA FrameMarked ==
  ASSUME TypeOK, MarkedCopies,
         \A p \in Procs :
            \/ job'[p].alert = NoAlert \/ job'[p].stale
            \/ /\ job'[p] = job[p]
               /\ rows[job[p].alert].breached => rows'[job[p].alert].breached
  PROVE  MarkedCopies'
BY DEF MarkedCopies

LEMMA StepMarked == TypeOK /\ FreshInv /\ MarkedCopies /\ [Next]_vars => MarkedCopies'
<1> SUFFICES ASSUME TypeOK, FreshInv, MarkedCopies, [Next]_vars PROVE MarkedCopies'
  OBVIOUS
<1>0. \A p \in Procs : job[p].alert # NoAlert => job[p].alert \in AlertIds
  BY DEF TypeOK, Job
<1>1. ASSUME NEW a \in AlertIds, NEW severity \in NewSeverities, Create(a, severity)
      PROVE MarkedCopies'
  <2>1. UNCHANGED job /\ \A b \in AlertIds \ {a} : rows'[b] = rows[b]
    BY <1>1 DEF Create, TypeOK
  <2>2. \A p \in Procs : job[p].alert = a => job[p].alert = NoAlert \/ job[p].stale
    BY <1>1 DEF Create, Exists, FreshInv, FreshCopies, Moves
  <2> QED
    BY <1>0, <2>1, <2>2, FrameMarked
<1>2. ASSUME NEW p \in Procs, Arrive(p)
      PROVE MarkedCopies'
  <2>1. CASE RefusedRequest(p)
    BY <2>1, FrameMarked DEF RefusedRequest, vars, table
  <2>2. ASSUME NEW a \in AlertIds, NEW r \in Row, Prepare(p, a, r),
               r.breached => rows[a].breached
        PROVE  MarkedCopies'
    <3>1. /\ UNCHANGED rows /\ job'[p].alert = a /\ job'[p].row = r
          /\ \A q \in Procs \ {p} : job'[q] = job[q]
      BY <2>2 DEF Prepare, TypeOK, table
    <3> QED
      BY <2>2, <3>1 DEF MarkedCopies
  <2> QED
    BY <1>2, <2>1, <2>2, ArrivePrepares
<1>3. ASSUME NEW a \in AlertIds, \A b \in AlertIds \ {a} : rows'[b] = rows[b],
             \A p \in Procs : job'[p] \in {NoJob, Outdated(a)[p]}
      PROVE MarkedCopies'
  <2>1. ASSUME NEW p \in Procs, job'[p].alert # NoAlert, ~job'[p].stale
        PROVE  job'[p] = job[p] /\ job[p].alert \in AlertIds \ {a}
    <3>1. job'[p] = Outdated(a)[p]
      BY <1>3, <2>1 DEF NoJob
    <3> QED
      BY <1>0, <2>1, <3>1, NotOutdated
  <2> QED
    BY <1>3, <2>1, FrameMarked
<1>4. ASSUME NEW p \in Procs, WriteBack(p)
      PROVE MarkedCopies'
  <2>1. job[p].alert \in AlertIds /\ rows' = [rows EXCEPT ![job[p].alert] = job[p].row]
    BY <1>0, <1>4 DEF WriteBack
  <2>2. \A q \in Procs : job'[q] \in {NoJob, Outdated(job[p].alert)[q]}
    BY <1>4, <2>1, OutdatedType DEF WriteBack, TypeOK
  <2>3. \A b \in AlertIds \ {job[p].alert} : rows'[b] = rows[b]
    BY <2>1 DEF TypeOK
  <2> QED
    BY <1>3, <2>1, <2>2, <2>3
<1>5. ASSUME NEW a \in AlertIds, Escalate(a)
      PROVE MarkedCopies'
  <2>1. /\ \A b \in AlertIds \ {a} : rows'[b] = rows[b]
        /\ \A q \in Procs : job'[q] = Outdated(a)[q]
    BY <1>5 DEF Escalate, TypeOK
  <2> QED
    BY <1>3, <2>1
<1>6. CASE MarkBreaches
  <2>1. UNCHANGED job /\ \A a \in AlertIds : rows[a].breached => rows'[a].breached
    BY <1>6 DEF MarkBreaches, TypeOK, Row
  <2> QED
    BY <1>0, <2>1, FrameMarked
<1>7. ASSUME NEW p \in Procs, WriteFails(p)
      PROVE MarkedCopies'
  <2>1. UNCHANGED rows /\ \A q \in Procs : job'[q] \in {NoJob, job[q]}
    BY <1>7 DEF WriteFails, TypeOK, table
  <2> QED
    BY <2>1, FrameMarked DEF NoJob
<1>8. CASE FindTargets \/ FindFails \/ Crash \/ Tick \/ UNCHANGED vars
           \/ \E a \in AlertIds : EscalateFails(a)
  <2>1. UNCHANGED rows /\ \A q \in Procs : job'[q] \in {NoJob, job[q]}
    BY <1>8 DEF FindTargets, FindFails, Crash, Tick, EscalateFails, vars, table
  <2> QED
    BY <2>1, FrameMarked DEF NoJob
<1> QED
  BY <1>1, <1>2, <1>4, <1>5, <1>6, <1>7, <1>8 DEF Next, FinishCheck

\* A breach nobody escalates any more was lost to a failure, to an overtaken write, or
\* to a request that took up a resolved alert again.
THEOREM LossCorrect == Spec => LossHasCause
<1> DEFINE Cause(a) ==
             \/ FindFails \/ Crash \/ EscalateFails(a)
             \/ \E p \in Procs : /\ WriteBack(p)
                                 /\ job[p].alert = a
                                 /\ job[p].stale \/ rows[a].status = Resolved
           Justified == \A a \in lost' \ lost : Cause(a)
<1>1. TypeOK /\ FreshInv /\ MarkedCopies /\ [Next]_vars => Justified
  <2> SUFFICES ASSUME TypeOK, FreshInv, MarkedCopies, [Next]_vars, NEW a \in lost' \ lost
               PROVE  Cause(a)
    OBVIOUS
  <2>1. ASSUME NEW p \in Procs, WriteBack(p), ~job[p].stale
        PROVE  job[p].alert = a /\ rows[a].status = Resolved
    <3> DEFINE r == job[p].row
    <3>1. /\ job[p].alert = a /\ a \in AlertIds
          /\ OpenBreach(r) /\ ~OpenBreach(rows[a])
      BY <2>1 DEF WriteBack, TypeOK, Job
    <3>2. Moves(rows[a].status, r.status) /\ (r.breached => rows[a].breached)
      BY <2>1, <3>1 DEF WriteBack, FreshInv, FreshCopies, MarkedCopies
    <3>3. rows[a].status \in {Resolved, Closed}
      BY <3>1, <3>2 DEF OpenBreach, Settled, Moves
    <3>4. rows[a].status # Closed
      BY <3>1, <3>2
      DEF OpenBreach, Settled, Moves, Lifecycle, ValidTransitions, New, Assigned,
          Processing, Resolved, Closed, Escalated
    <3> QED
      BY <3>1, <3>3, <3>4
  <2>2. ASSUME NEW p \in Procs, WriteBack(p), job[p].stale
        PROVE  job[p].alert = a
    BY <2>2 DEF WriteBack
  <2>3. ASSUME NEW b \in AlertIds, EscalateFails(b)
        PROVE  a = b
    BY <2>3 DEF EscalateFails
  <2>4. ASSUME \/ \E b \in AlertIds, severity \in NewSeverities : Create(b, severity)
               \/ \E p \in Procs : Arrive(p) \/ WriteFails(p)
               \/ MarkBreaches \/ FinishCheck \/ Tick \/ UNCHANGED vars
        PROVE  lost' \subseteq lost
    BY <2>4
    DEF Create, Arrive, UpdateRead, AssignRead, Prepare, RefusedRequest, WriteFails,
        MarkBreaches, FinishCheck, FindTargets, Escalate, Tick, vars
  <2> QED
    BY <2>1, <2>2, <2>3, <2>4 DEF Next
<1>2. Init => MarkedCopies
  BY DEF Init, MarkedCopies, NoJob
<1> QED
  BY <1>1, <1>2, InitType, StepType, InitFresh, StepFresh, StepMarked, PTL
  DEF Spec, LossHasCause

-----------------------------------------------------------------------------
(* Alerts implements AlertDrafts *)

AllDrafts == {Draft(job[p].alert, job[p].row) :
                 p \in {q \in Procs : job[q].alert # NoAlert}}
             \cup {Draft(a, EscalatedRow(targets[a])) :
                 a \in {b \in AlertIds : targets[b] # NoRow}}

\* Copies of rows go or stay: no new draft.
LEMMA KeptDrafts ==
  ASSUME \A p \in Procs : job'[p].alert # NoAlert => /\ job'[p].alert = job[p].alert
                                                     /\ job'[p].row = job[p].row,
         \A a \in AlertIds : targets'[a] \in {NoRow, targets[a]}
  PROVE  AllDrafts' \subseteq AllDrafts
BY DEF AllDrafts, Draft

\* The copy a legal move leads to is a legal draft.
LEMMA MovesAreLegal ==
  ASSUME NEW r \in Row, NEW a \in AlertIds, rows[a] \in Row, Moves(rows[a].status, r.status)
  PROVE  Draft(a, r) \in Drafts!LegalDrafts
<1>1. r.status \in Statuses
  BY DEF Moves, Lifecycle, ValidTransitions, Row, Statuses, Absent, New, Assigned,
         Processing, Resolved, Closed, Escalated
<1> QED
  BY <1>1 DEF Drafts!LegalDrafts, Draft, Moves

LEMMA DraftStep ==
  ASSUME TypeOK, \A a \in AlertIds : rows'[a].status = rows[a].status,
         AllDrafts' \subseteq AllDrafts \cup Drafts!LegalDrafts
  PROVE  Drafts!Next
<1>1. Drafts!Draft
  BY DEF Drafts!Draft, AllDrafts
<1> QED
  BY <1>1 DEF Drafts!Next

\* A copy is written: the status becomes what was drafted.
LEMMA WriteStep ==
  ASSUME TypeOK, NEW a \in AlertIds, NEW r, Draft(a, r) \in AllDrafts,
         rows' = [rows EXCEPT ![a] = r], AllDrafts' \subseteq AllDrafts
  PROVE  Drafts!Next
<1>1. [b \in AlertIds |-> rows'[b].status]
         = [[b \in AlertIds |-> rows[b].status] EXCEPT ![Draft(a, r).alert] = Draft(a, r).to]
  BY DEF Draft, TypeOK
<1>2. Drafts!Write(Draft(a, r))
  BY <1>1 DEF Drafts!Write, AllDrafts
<1> QED
  BY <1>2 DEF Drafts!Next, AllDrafts

LEMMA InitDrafts == Init => Drafts!Init
<1> SUFFICES ASSUME Init PROVE Drafts!Init
  OBVIOUS
<1>1. \A a \in AlertIds : rows[a].status = Absent /\ targets[a] = NoRow
  BY DEF Init, NoRow
<1>2. \A p \in Procs : job[p].alert = NoAlert
  BY DEF Init, NoJob
<1> QED
  BY <1>1, <1>2 DEF Drafts!Init

LEMMA StepDrafts ==
  ASSUME TypeOK, [Next]_vars
  PROVE  [Drafts!Next]_(Drafts!vars)
<1>1. ASSUME NEW a \in AlertIds, NEW severity \in NewSeverities, Create(a, severity)
      PROVE  Drafts!Next
  <2>1. [b \in AlertIds |-> rows'[b].status]
           = [[b \in AlertIds |-> rows[b].status] EXCEPT ![a] = New]
    <3>1. rows'[a].status = New /\ \A b \in AlertIds \ {a} : rows'[b] = rows[b]
      BY <1>1 DEF Create, NoRow, TypeOK
    <3> QED
      BY <3>1
  <2>2. rows[a].status = Absent /\ UNCHANGED <<job, targets>>
    BY <1>1 DEF Create, Exists, checker
  <2>3. Drafts!Create(a)
    BY <2>1, <2>2 DEF Drafts!Create
  <2> QED
    BY <2>3 DEF Drafts!Next
<1>2. ASSUME NEW p \in Procs, Arrive(p)
      PROVE  Drafts!Next
  <2>1. CASE RefusedRequest(p)
    BY <2>1, KeptDrafts, DraftStep DEF RefusedRequest, vars, table, checker
  <2>2. ASSUME NEW a \in AlertIds, NEW r \in Row, Prepare(p, a, r),
               Moves(rows[a].status, r.status)
        PROVE  Drafts!Next
    <3>1. /\ UNCHANGED <<rows, targets>> /\ job'[p].alert = a /\ job'[p].row = r
          /\ \A q \in Procs \ {p} : job'[q] = job[q]
      BY <2>2 DEF Prepare, TypeOK, table, checker
    <3>2. Draft(a, r) \in Drafts!LegalDrafts
      BY <2>2, MovesAreLegal DEF TypeOK
    <3>3. AllDrafts' \subseteq AllDrafts \cup {Draft(a, r)}
      BY <3>1 DEF AllDrafts, Draft
    <3> QED
      BY <3>1, <3>2, <3>3, DraftStep
  <2> QED
    BY <1>2, <2>1, <2>2, ArrivePrepares
<1>3. ASSUME NEW p \in Procs, WriteBack(p)
      PROVE  Drafts!Next
  <2>1. /\ job[p].alert \in AlertIds /\ job[p].alert # NoAlert
        /\ rows' = [rows EXCEPT ![job[p].alert] = job[p].row] /\ UNCHANGED targets
    BY <1>3 DEF WriteBack, TypeOK, Job
  <2>2. \A q \in Procs : job'[q].alert # NoAlert => /\ job'[q].alert = job[q].alert
                                                    /\ job'[q].row = job[q].row
    BY <1>3, OutdatedCopies, OutdatedType DEF WriteBack, TypeOK, NoJob
  <2>3. Draft(job[p].alert, job[p].row) \in AllDrafts
    BY <2>1 DEF AllDrafts
  <2> QED
    BY <2>1, <2>2, <2>3, KeptDrafts, WriteStep
<1>4. ASSUME NEW a \in AlertIds, Escalate(a)
      PROVE  Drafts!Next
  <2>1. /\ rows' = [rows EXCEPT ![a] = EscalatedRow(targets[a])] /\ targets[a] # NoRow
        /\ \A b \in AlertIds : targets'[b] \in {NoRow, targets[b]}
    BY <1>4 DEF Escalate, IsNext, DropTarget, TypeOK
  <2>2. \A q \in Procs : /\ job'[q].alert = job[q].alert
                         /\ job'[q].row = job[q].row
    BY <1>4, OutdatedCopies DEF Escalate, TypeOK
  <2>3. Draft(a, EscalatedRow(targets[a])) \in AllDrafts
    BY <2>1 DEF AllDrafts
  <2> QED
    BY <2>1, <2>2, <2>3, KeptDrafts, WriteStep
<1>5. CASE FindTargets
  <2>1. UNCHANGED <<rows, job>>
    BY <1>5 DEF FindTargets, table
  <2>2. ASSUME NEW a \in AlertIds, targets'[a] # NoRow
        PROVE  Draft(a, EscalatedRow(targets'[a])) \in Drafts!LegalDrafts
    <3>1. rows[a] \in Row /\ targets'[a] = Selected(rows[a]) /\ targets'[a] \in Row
      BY <1>5, SelectedType DEF FindTargets, TypeOK
    <3>2. /\ targets'[a].status = rows[a].status
          /\ rows[a].status # Absent /\ ~Settled(targets'[a])
      BY <2>2, <3>1 DEF Selected, OpenBreach, Settled, Row
    <3>3. /\ EscalatedRow(targets'[a]) \in Row
          /\ Moves(rows[a].status, EscalatedRow(targets'[a]).status)
      BY <3>1, <3>2, EscalatedRowType, EscalatedRowMoves
    <3> QED
      BY <3>1, <3>3, MovesAreLegal
  <2>3. AllDrafts' \subseteq AllDrafts \cup Drafts!LegalDrafts
    BY <2>1, <2>2 DEF AllDrafts
  <2> QED
    BY <2>1, <2>3, DraftStep
<1>6. CASE MarkBreaches
  <2>1. UNCHANGED <<job, targets>> /\ \A a \in AlertIds : rows'[a].status = rows[a].status
    BY <1>6 DEF MarkBreaches, TypeOK, Row
  <2> QED
    BY <2>1, KeptDrafts, DraftStep
<1>7. ASSUME \/ \E p \in Procs : WriteFails(p)
             \/ \E a \in AlertIds : EscalateFails(a)
             \/ FindFails \/ Crash \/ Tick \/ UNCHANGED vars
      PROVE  Drafts!Next
  <2>1. /\ UNCHANGED rows
        /\ \A q \in Procs : job'[q] \in {NoJob, job[q]}
        /\ \A a \in AlertIds : targets'[a] \in {NoRow, targets[a]}
    BY <1>7 DEF WriteFails, EscalateFails, DropTarget, FindFails, Crash, Tick, TypeOK,
                vars, table, checker
  <2> QED
    BY <2>1, KeptDrafts, DraftStep DEF NoJob
<1> QED
  BY <1>1, <1>2, <1>3, <1>4, <1>5, <1>6, <1>7 DEF Next, FinishCheck

\* Every statement of a request and of the checker drafts legal moves, writes one of the
\* drafts, or leaves statuses and drafts alone.
THEOREM DraftsCorrect == Spec => DraftsImplemented
<1>1. Spec => [][Drafts!Next]_(Drafts!vars)
  BY InitType, StepType, StepDrafts, PTL DEF Spec
<1> QED
  BY <1>1, InitDrafts, PTL DEF Spec, DraftsImplemented, Drafts!Spec

-----------------------------------------------------------------------------
(* The checker's loop *)

\* The checker is in its loop exactly while it holds targets, and then one of them is
\* the next: whatever requests write and whichever UPDATE fails, it is never stuck.
CheckerReady ==
    /\ step = "escalate" <=> \E a \in AlertIds : targets[a] # NoRow
    /\ step = "escalate" => \E a \in AlertIds : IsNext(a)

LoopInv == step = "escalate" <=> \E a \in AlertIds : targets[a] # NoRow

\* Among rows there is one of highest severity.
LEMMA MostSevere ==
  ASSUME TypeOK, step = "escalate", NEW a \in AlertIds, targets[a] # NoRow
  PROVE  \E b \in AlertIds : IsNext(b)
<1> DEFINE Has(n) == \E b \in AlertIds : targets[b] # NoRow /\ targets[b].severity = n
<1>1. \A b \in AlertIds : targets[b].severity \in {1, 2, 3, 4, 5}
  BY DEF TypeOK, Row, Severities
<1>2. PICK n \in {1, 2, 3, 4, 5} : Has(n) /\ \A m \in {1, 2, 3, 4, 5} : Has(m) => m <= n
  <2>1. Has(1) \/ Has(2) \/ Has(3) \/ Has(4) \/ Has(5)
    BY <1>1
  <2> HIDE DEF Has
  <2> QED
    BY <2>1
<1> QED
  BY <1>1, <1>2 DEF IsNext

LEMMA StepLoop == TypeOK /\ LoopInv /\ [Next]_vars => LoopInv'
<1> SUFFICES ASSUME TypeOK, LoopInv, [Next]_vars PROVE LoopInv'
  OBVIOUS
<1>1. CASE MarkBreaches
  BY <1>1 DEF MarkBreaches, LoopInv
<1>2. CASE FindTargets
  BY <1>2 DEF FindTargets, LoopInv
<1>3. ASSUME NEW a \in AlertIds, Escalate(a) \/ EscalateFails(a)
      PROVE  LoopInv'
  <2>1. DropTarget(a)
    BY <1>3 DEF Escalate, EscalateFails
  <2>2. targets'[a] = NoRow /\ \A b \in AlertIds \ {a} : targets'[b] = targets[b]
    BY <2>1 DEF DropTarget, TypeOK
  <2> QED
    BY <2>1, <2>2 DEF DropTarget, LoopInv
<1>4. CASE FindFails
  BY <1>4 DEF FindFails, LoopInv
<1>5. CASE Crash
  BY <1>5 DEF Crash, LoopInv
<1>6. CASE \/ \E a \in AlertIds, severity \in NewSeverities : Create(a, severity)
           \/ \E p \in Procs : Arrive(p) \/ WriteBack(p) \/ WriteFails(p)
           \/ Tick \/ UNCHANGED vars
  BY <1>6
  DEF Create, Arrive, UpdateRead, AssignRead, Prepare, RefusedRequest, WriteBack,
      WriteFails, Tick, LoopInv, vars, checker
<1> QED
  BY <1>1, <1>2, <1>3, <1>4, <1>5, <1>6 DEF Next, FinishCheck

\* A check in its loop always has an alert to go on with, and a checker out of its loop
\* holds none back.
THEOREM CheckerCorrect == Spec => []CheckerReady
<1>1. Init => LoopInv
  BY DEF Init, LoopInv
<1>2. TypeOK /\ LoopInv => CheckerReady
  BY MostSevere DEF LoopInv, CheckerReady
<1> QED
  BY <1>1, <1>2, InitType, StepType, StepLoop, PTL DEF Spec

\* A check works its list off: it never grows under it, nothing but an escalation (or a
\* crash) touches what is on it, and every turn of the loop makes it shorter, for any
\* number of alerts and whatever requests write meanwhile.
THEOREM CheckCorrect == Spec => CheckAdvances
<1> DEFINE Advance == /\ Waiting # {} => Waiting' \subseteq Waiting
                      /\ \A a \in Waiting : \/ targets'[a] = targets[a]
                                            \/ Escalate(a) \/ EscalateFails(a) \/ Crash
                      /\ step = "escalate" /\ FinishCheck => Waiting' # Waiting
<1>1. ASSUME TypeOK, LoopInv, NEW a \in AlertIds, Escalate(a) \/ EscalateFails(a)
      PROVE  Advance
  <2>1. a \in Waiting /\ DropTarget(a)
    BY <1>1 DEF Escalate, EscalateFails, IsNext, Waiting
  <2>2. targets'[a] = NoRow /\ \A b \in AlertIds \ {a} : targets'[b] = targets[b]
    BY <1>1, <2>1 DEF DropTarget, TypeOK
  <2>3. Waiting' = Waiting \ {a}
    BY <2>2 DEF Waiting
  <2> HIDE DEF Waiting
  <2>4. \A b \in Waiting : b = a \/ targets'[b] = targets[b]
    BY <2>2 DEF Waiting
  <2> QED
    BY <1>1, <2>1, <2>3, <2>4
<1>2. ASSUME TypeOK, LoopInv, step # "escalate"
      PROVE  Advance
  BY <1>2 DEF LoopInv, Waiting
<1>3. ASSUME UNCHANGED targets, ~FinishCheck
      PROVE  Advance
  BY <1>3 DEF Waiting
<1>4. ASSUME Crash, ~FinishCheck
      PROVE  Advance
  BY <1>4 DEF Crash, Waiting
<1>5. ASSUME TypeOK, LoopInv, [Next]_vars
      PROVE  [Advance]_vars
  <2>1. SUFFICES ASSUME step = "escalate",
                        ~ \E a \in AlertIds : Escalate(a) \/ EscalateFails(a)
                 PROVE  [Advance]_vars
    BY <1>1, <1>2, <1>5
  <2>2. ~FinishCheck
    BY <2>1 DEF FinishCheck, FindTargets
  <2>3. CASE Crash
    BY <1>4, <2>2, <2>3
  <2>4. CASE UNCHANGED targets
    BY <1>3, <2>2, <2>4
  <2>5. UNCHANGED targets \/ Crash
    BY <1>5, <2>1, <2>2
    DEF Next, Create, Arrive, UpdateRead, AssignRead, Prepare, RefusedRequest, WriteBack,
        WriteFails, MarkBreaches, FindFails, Tick, vars, checker
  <2> QED
    BY <2>3, <2>4, <2>5
<1>6. TypeOK /\ LoopInv /\ [Next]_vars => [Advance]_vars
  BY <1>5
<1>7. Init => LoopInv
  BY DEF Init, LoopInv
<1> QED
  BY <1>6, <1>7, InitType, StepType, StepLoop, PTL DEF Spec, CheckAdvances
=============================================================================
