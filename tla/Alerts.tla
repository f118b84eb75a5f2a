------------------------------- MODULE Alerts -------------------------------
(***************************************************************************)
(* The life of a security alert: AlertService and the SLA checker over the *)
(* security_alerts table.                                                  *)
(*                                                                         *)
(* Update and Assign read the whole row, change the copy and write every   *)
(* column of it back but sla_deadline: a read and a write, with no         *)
(* transaction and no version check around them.  The SLA checker is one   *)
(* goroutine that marks overdue alerts, reads the marked ones and writes   *)
(* each back.  One action is one statement.                                *)
(*                                                                         *)
(* The handlers' own reads decide whether this caller may ask (permission, *)
(* row filter, probation); some caller always may, so they admit every     *)
(* request modelled here and are no action.  Comments and the audit        *)
(* records the handlers hand over do not touch the table.                  *)
(***************************************************************************)
EXTENDS Integers, FiniteSets

CONSTANTS
    AlertIds,         \* ids of alerts
    NoAlert,          \* "no alert": a request goroutine that is idle
    Staff,            \* users an alert can be assigned to, all enabled
    Nobody,           \* assignee_id IS NULL; in a request, field not given
    Procs,            \* request goroutines
    SLATicks,         \* SLADuration: time to resolve, by severity
    NewSeverities,    \* severities the clients of this instance create alerts with
    AskedSeverities,  \* severities they name in updates
    AskedStatuses,    \* statuses they name in updates
    FaultsHappen,     \* whether statements fail and the process crashes
    EscalationLimit,  \* escalations after which the status changes, 3 in the code
    MaxWrites,        \* bound: updates and assignments the clients ask for
    MaxTime           \* bound: last instant of the clock

Severities == 1 .. 5
Critical == 5

New == 1
Assigned == 2
Processing == 3
Resolved == 4
Closed == 5
Escalated == 6
Statuses == 1 .. 6
Absent == 0          \* no such row; as a request's status, field not given
NotGiven == 0

ASSUME NamesAssumption == NoAlert \notin AlertIds /\ Nobody \notin Staff
ASSUME TimesAssumption == SLATicks \in [Severities -> Nat \ {0}] /\ MaxTime \in Nat
ASSUME LimitsAssumption == EscalationLimit \in Nat \ {0} /\ MaxWrites \in Nat
ASSUME ClientsAssumption ==
    /\ NewSeverities \subseteq Severities
    /\ AskedSeverities \subseteq Severities
    /\ AskedStatuses \subseteq Statuses
    /\ FaultsHappen \in BOOLEAN

VARIABLES
    rows,      \* the table, without sla_deadline
    deadline,  \* its sla_deadline column
    now,       \* NOW()
    asked,     \* updates and assignments so far, counted for the bound
    job,       \* per request: the alert it will write and its copy of the row
    step,      \* the statement the SLA checker executes next
    targets,   \* the checker's copies of the rows still to escalate
    outdated,  \* ghost: alerts written since the checker read them
    lost       \* ghost: alerts whose breach no check is bound to come across

table == <<rows, deadline>>
checker == <<step, targets, outdated>>
vars == <<table, now, asked, job, checker, lost>>

\* Only escalation_count >= 3 matters: the count saturates there.
Row == [severity: Severities, status: {Absent} \cup Statuses,
        assignee: Staff \cup {Nobody}, breached: BOOLEAN,
        count: 0 .. EscalationLimit, resolvedAt: BOOLEAN, closedAt: BOOLEAN]

NoRow == [severity |-> 1, status |-> Absent, assignee |-> Nobody, breached |-> FALSE,
          count |-> 0, resolvedAt |-> FALSE, closedAt |-> FALSE]

\* stale (ghost): the alert was written since the request read it.
Job == [alert: AlertIds \cup {NoAlert}, row: Row, stale: BOOLEAN]
NoJob == [alert |-> NoAlert, row |-> NoRow, stale |-> FALSE]

TypeOK ==
    /\ rows \in [AlertIds -> Row]
    /\ deadline \in [AlertIds -> Nat]
    /\ now \in 0 .. MaxTime
    /\ asked \in 0 .. MaxWrites
    /\ job \in [Procs -> Job]
    /\ step \in {"idle", "find", "escalate"}
    /\ targets \in [AlertIds -> Row]
    /\ outdated \subseteq AlertIds
    /\ lost \subseteq AlertIds

Exists(a) == rows[a].status # Absent
Settled(r) == r.status \in {Resolved, Closed}

\* A breach the checker is expected to escalate.
OpenBreach(r) == r.status # Absent /\ r.breached /\ ~Settled(r)

Overdue(a) == deadline[a] < now

Init ==
    /\ rows = [a \in AlertIds |-> NoRow]
    /\ deadline = [a \in AlertIds |-> 0]
    /\ now = 0
    /\ asked = 0
    /\ job = [p \in Procs |-> NoJob]
    /\ step = "idle"
    /\ targets = [a \in AlertIds |-> NoRow]
    /\ outdated = {}
    /\ lost = {}

-----------------------------------------------------------------------------
(* Requests *)

Create(a, severity) ==
    /\ ~Exists(a)
    /\ rows' = [rows EXCEPT ![a] = [NoRow EXCEPT !.severity = severity,
                                                 !.status = New]]
    /\ deadline' = [deadline EXCEPT ![a] = now + SLATicks[severity]]
    /\ UNCHANGED <<now, asked, job, checker, lost>>

ValidTransitions ==
    {<<New, Assigned>>, <<New, Closed>>,
     <<Assigned, Processing>>, <<Assigned, Closed>>,
     <<Processing, Resolved>>, <<Processing, Escalated>>, <<Processing, Closed>>,
     <<Resolved, Closed>>, <<Resolved, Processing>>,
     <<Escalated, Assigned>>, <<Escalated, Closed>>}

\* Mutant: looks the move up the wrong way round.
Allowed_Reversed(status, wanted) ==
    wanted \in {NotGiven, status} \/ <<wanted, status>> \in ValidTransitions

\* The request may take the alert from the status read to the one wanted.
Allowed(status, wanted) ==
    wanted \in {NotGiven, status} \/ <<status, wanted>> \in ValidTransitions

\* Mutant: sets the mark that a raised severity clears.
ApplySeverity_Marks(r, severity) ==
    IF severity = NotGiven THEN r
    ELSE [r EXCEPT !.severity = severity,
                   !.breached = @ \/ severity > r.severity]

\* The copy after the request's fields.  Raising the severity also recomputes
\* SLADeadline in the copy, which the write leaves out.
ApplySeverity(r, severity) ==
    IF severity = NotGiven THEN r
    ELSE [r EXCEPT !.severity = severity,
                   !.breached = @ /\ severity <= r.severity]

ApplyAssignee(r, who) ==
    IF who = Nobody THEN r
    ELSE [r EXCEPT !.assignee = who,
                   !.status = IF @ = New THEN Assigned ELSE @]

\* Mutant: leaves closed_at to be filled in later.
ApplyStatus_NoClosedAt(r, wanted) ==
    IF wanted = NotGiven THEN r
    ELSE [r EXCEPT !.status = wanted,
                   !.resolvedAt = @ \/ wanted = Resolved]

ApplyStatus(r, wanted) ==
    IF wanted = NotGiven THEN r
    ELSE [r EXCEPT !.status = wanted,
                   !.resolvedAt = @ \/ wanted = Resolved,
                   !.closedAt = @ \/ wanted = Closed]

\* An idle goroutine reads alert a and prepares row r to write back.
Prepare(p, a, r) ==
    /\ job[p] = NoJob
    /\ asked < MaxWrites
    /\ asked' = asked + 1
    /\ job' = [job EXCEPT ![p] = [alert |-> a, row |-> r, stale |-> FALSE]]
    /\ UNCHANGED <<table, now, checker, lost>>

UpdateRead(p, a, severity, wanted, who) ==
    /\ Exists(a)
    /\ rows[a].status # Closed
    /\ Allowed(rows[a].status, wanted)
    /\ Prepare(p, a, ApplyStatus(ApplyAssignee(ApplySeverity(rows[a], severity),
                                               who), wanted))

\* Mutant: forgets that a closed alert takes no change.
AssignRead_Reopens(p, a, who) ==
    /\ Exists(a)
    /\ Prepare(p, a, [rows[a] EXCEPT !.assignee = who, !.status = Assigned])

\* Assigning an alert does not consult the table of transitions.
AssignRead(p, a, who) ==
    /\ Exists(a)
    /\ rows[a].status # Closed
    /\ Prepare(p, a, [rows[a] EXCEPT !.assignee = who, !.status = Assigned])

\* Ghost: every copy of alert a read before this write is now out of date.
Outdated(a) == [p \in Procs |-> [job[p] EXCEPT !.stale = @ \/ job[p].alert = a]]

\* A request refused on what it read: no such alert, a closed one, a transition
\* the table does not list, a disabled assignee.  It has written nothing.
RefusedRequest(p) == job[p] = NoJob /\ UNCHANGED vars

\* AlertRepository.Update for the request's copy of the row.  It may bring back a
\* breach, which no check is bound to mark again.
WriteBack(p) ==
    LET a == job[p].alert
        r == job[p].row
    IN  /\ a # NoAlert
        /\ rows' = [rows EXCEPT ![a] = r]
        /\ job' = [Outdated(a) EXCEPT ![p] = NoJob]
        /\ outdated' = outdated \cup {a}
        /\ lost' = IF OpenBreach(r) /\ ~OpenBreach(rows[a]) THEN lost \cup {a}
                                                            ELSE lost
        /\ UNCHANGED <<deadline, now, asked, step, targets>>

\* The write fails: the request ends with an error.
WriteFails(p) ==
    /\ FaultsHappen
    /\ job[p] # NoJob
    /\ job' = [job EXCEPT ![p] = NoJob]
    /\ UNCHANGED <<table, now, asked, checker, lost>>

-----------------------------------------------------------------------------
(* The SLA checker: RunSLACheck, called by one ticker goroutine *)

\* Mutant: also marks an alert in its last instant.
Breaching_Early(a) ==
    Exists(a) /\ deadline[a] <= now /\ ~rows[a].breached /\ ~Settled(rows[a])

Breaching(a) == Exists(a) /\ Overdue(a) /\ ~rows[a].breached /\ ~Settled(rows[a])

\* Mutant: begins although the check before is not done.
MarkBreaches_Overlaps ==
    /\ \E a \in AlertIds : Breaching(a)
    /\ rows' = [a \in AlertIds |-> [rows[a] EXCEPT !.breached = @ \/ Breaching(a)]]
    /\ step' = "find"
    /\ UNCHANGED <<deadline, now, asked, job, targets, outdated, lost>>

\* CheckAndMarkSLABreaches.  A check that marks nothing returns at once, even if
\* breaches marked earlier are still waiting.
MarkBreaches ==
    /\ step = "idle"
    /\ \E a \in AlertIds : Breaching(a)
    /\ rows' = [a \in AlertIds |-> [rows[a] EXCEPT !.breached = @ \/ Breaching(a)]]
    /\ step' = "find"
    /\ UNCHANGED <<deadline, now, asked, job, targets, outdated, lost>>

\* Mutant: leaves out the closed alerts only.
Selected_ClosedOnly(r) == IF r.breached /\ r.status \notin {Absent, Closed}
                          THEN [r EXCEPT !.breached = FALSE, !.resolvedAt = FALSE,
                                         !.closedAt = FALSE]
                          ELSE NoRow

\* FindSLABreachedUnnotified does not select sla_breached, resolved_at and
\* closed_at: in the copies they have their zero values.
Selected(r) == IF OpenBreach(r)
               THEN [r EXCEPT !.breached = FALSE, !.resolvedAt = FALSE,
                              !.closedAt = FALSE]
               ELSE NoRow

\* Mutant: reads the alerts marked that are assigned to somebody.
FindTargets_AssignedOnly ==
    /\ step = "find"
    /\ targets' = [a \in AlertIds |-> IF rows[a].assignee # Nobody
                                      THEN Selected(rows[a]) ELSE NoRow]
    /\ step' = IF \E a \in AlertIds : targets'[a] # NoRow THEN "escalate"
                                                         ELSE "idle"
    /\ outdated' = {}
    /\ UNCHANGED <<table, now, asked, job, lost>>

FindTargets ==
    /\ step = "find"
    /\ targets' = [a \in AlertIds |-> Selected(rows[a])]
    /\ step' = IF \E a \in AlertIds : Selected(rows[a]) # NoRow THEN "escalate"
                                                                ELSE "idle"
    /\ outdated' = {}
    /\ UNCHANGED <<table, now, asked, job, lost>>

\* Mutant: raises the most severe alerts further.
EscalatedRow_NoCap(r) ==
    [r EXCEPT !.count = IF @ < EscalationLimit THEN @ + 1 ELSE EscalationLimit,
              !.severity = @ + 1]

\* One severity up, one escalation more; at the limit, an alert nobody has taken
\* becomes Escalated.
EscalatedRow(r) ==
    LET count == IF r.count < EscalationLimit THEN r.count + 1 ELSE EscalationLimit
    IN  [r EXCEPT !.count = count,
                  !.severity = IF @ < Critical THEN @ + 1 ELSE @,
                  !.status = IF count >= EscalationLimit /\ r.assignee = Nobody
                             THEN Escalated ELSE @]

\* The checker is done with target a and takes the next one, if any.
DropTarget(a) ==
    /\ targets' = [targets EXCEPT ![a] = NoRow]
    /\ step' = IF \E b \in AlertIds \ {a} : targets[b] # NoRow THEN "escalate"
                                                               ELSE "idle"

\* The rows come ORDER BY severity DESC.
IsNext(a) ==
    /\ step = "escalate"
    /\ targets[a] # NoRow
    /\ \A b \in AlertIds : targets[b] # NoRow
                              => targets[b].severity <= targets[a].severity

Escalate(a) ==
    /\ IsNext(a)
    /\ rows' = [rows EXCEPT ![a] = EscalatedRow(targets[a])]
    /\ job' = Outdated(a)
    /\ lost' = lost \ {a}
    /\ DropTarget(a)
    /\ UNCHANGED <<deadline, now, asked, outdated>>

\* escalate ignores the error of its UPDATE and goes on to the next alert.
EscalateFails(a) ==
    /\ FaultsHappen
    /\ IsNext(a)
    /\ DropTarget(a)
    /\ lost' = IF OpenBreach(rows[a]) THEN lost \cup {a} ELSE lost
    /\ UNCHANGED <<table, now, asked, job, outdated>>

OpenBreaches == {a \in AlertIds : OpenBreach(rows[a])}

\* The query fails: the check returns, the marks stay.
FindFails ==
    /\ FaultsHappen
    /\ step = "find"
    /\ step' = "idle"
    /\ lost' = lost \cup OpenBreaches
    /\ UNCHANGED <<table, now, asked, job, targets, outdated>>

\* The process dies and restarts.
Crash ==
    /\ FaultsHappen
    /\ step # "idle" \/ \E p \in Procs : job[p] # NoJob
    /\ job' = [p \in Procs |-> NoJob]
    /\ step' = "idle"
    /\ targets' = [a \in AlertIds |-> NoRow]
    /\ outdated' = {}
    /\ lost' = IF step = "idle" THEN lost ELSE lost \cup OpenBreaches
    /\ UNCHANGED <<table, now, asked>>

Tick ==
    /\ now < MaxTime
    /\ now' = now + 1
    /\ UNCHANGED <<table, asked, job, checker, lost>>

-----------------------------------------------------------------------------
Arrive(p) ==
    \/ \E a \in AlertIds, severity \in {NotGiven} \cup AskedSeverities,
          wanted \in {NotGiven} \cup AskedStatuses, who \in {Nobody} \cup Staff :
             UpdateRead(p, a, severity, wanted, who)
    \/ \E a \in AlertIds, who \in Staff : AssignRead(p, a, who)
    \/ RefusedRequest(p)

\* The rest of a check that has marked something.
FinishCheck == FindTargets \/ \E a \in AlertIds : Escalate(a)

Next ==
    \/ \E a \in AlertIds, severity \in NewSeverities : Create(a, severity)
    \/ \E p \in Procs : Arrive(p)
    \/ \E p \in Procs : WriteBack(p)
    \/ \E p \in Procs : WriteFails(p)
    \/ MarkBreaches
    \/ FinishCheck
    \/ FindFails
    \/ \E a \in AlertIds : EscalateFails(a)
    \/ Crash
    \/ Tick

Spec == Init /\ [][Next]_vars

\* The ticker keeps calling RunSLACheck, and a check that has begun goes on.
FairSpec == Spec /\ WF_vars(MarkBreaches) /\ WF_vars(FinishCheck)

-----------------------------------------------------------------------------
(* Properties *)

\* An alert has a closed_at exactly while it is closed: status and closed_at are
\* always written together, so that no race between writers separates them.
ClosedAtCoherent ==
    \A a \in AlertIds : rows[a].closedAt <=> rows[a].status = Closed

\* A resolved alert says when it was resolved, though the SLA checker writes rows
\* back without that column.
ResolvedHasTimestamp ==
    \A a \in AlertIds : rows[a].status = Resolved => rows[a].resolvedAt

\* sla_breached is never set on an alert whose deadline is ahead, whichever old
\* copy of the row was written last.
BreachedIsOverdue == \A a \in AlertIds : rows[a].breached => Overdue(a)

\* What Update, Assign and the checker do to the status of the row they read.
Lifecycle ==
    ValidTransitions
        \cup {<<s, Assigned>> : s \in Statuses \ {Closed}}
        \cup {<<s, Escalated>> : s \in Statuses \ {Resolved, Closed}}

\* A write that no other write overtook moves the alert along the life cycle; in
\* particular it never takes it out of Closed.
FreshWritesFollowLifecycle ==
    [][\A a \in AlertIds :
         /\ rows[a].status \notin {Absent, rows'[a].status}
         /\ <<rows[a].status, rows'[a].status>> \notin Lifecycle
         => \/ \E p \in Procs : job[p].stale /\ job[p].alert = a /\ WriteBack(p)
            \/ a \in outdated /\ Escalate(a)]_vars

Draft(a, r) == [alert |-> a, to |-> r.status]

\* The copies of requests, and those of the checker as it will write them.
Drafts == INSTANCE AlertDrafts
            WITH Ids <- AlertIds, Moves <- Lifecycle,
                 status <- [a \in AlertIds |-> rows[a].status],
                 drafts <- {Draft(job[p].alert, job[p].row) :
                               p \in {q \in Procs : job[q].alert # NoAlert}}
                           \cup {Draft(a, EscalatedRow(targets[a])) :
                               a \in {b \in AlertIds : targets[b] # NoRow}}

\* Overtaken or not, a write carries a legal move from a status the alert had when it
\* was read: races mix up statuses, but never make one that the life cycle lacks.
DraftsImplemented == Drafts!Spec

\* A breach slips from the checker only where a statement failed, where a write was
\* overtaken, or where a request takes up a resolved alert again.
LossHasCause ==
    [][\A a \in lost' \ lost :
         \/ FindFails \/ Crash \/ EscalateFails(a)
         \/ \E p \in Procs : /\ WriteBack(p)
                             /\ job[p].alert = a
                             /\ job[p].stale \/ rows[a].status = Resolved]_vars

\* The alerts that the check under way has yet to escalate.
Waiting == {a \in AlertIds : targets[a] # NoRow}

\* A check comes to its end: whatever requests write meanwhile, its list never grows, no
\* alert leaves it, or has its copy replaced, but by being escalated (or failing to be),
\* and each turn of the loop of RunSLACheck (alert_service.go:199) makes it shorter.
CheckAdvances ==
    [][/\ Waiting # {} => Waiting' \subseteq Waiting
       /\ \A a \in Waiting : \/ targets'[a] = targets[a]
                             \/ Escalate(a) \/ EscalateFails(a) \/ Crash
       /\ step = "escalate" /\ FinishCheck => Waiting' # Waiting]_vars

\* A breach that was marked gets escalated, unless the alert is settled first, a
\* request wrote the mark back after the fact, or the check failed half way.
BreachEscalatedOrLost ==
    \A a \in AlertIds : OpenBreach(rows[a]) ~> (~OpenBreach(rows[a]) \/ a \in lost)

\* What the source promises (the runs that check these find them violated).

\* alert_service.go:14, "the alert is closed and cannot be modified".
ClosedStaysClosed ==
    [][\A a \in AlertIds :
         rows[a].status = Closed => rows'[a].status = Closed]_vars

\* alert_service.go:181, "check all overdue alerts and run the automatic
\* escalation", the query being alert_repo.go:132, "alerts that breached their SLA
\* and whose escalation is not done yet": a marked alert is escalated or settled.
BreachEscalated == \A a \in AlertIds : OpenBreach(rows[a]) ~> ~OpenBreach(rows[a])
=============================================================================
