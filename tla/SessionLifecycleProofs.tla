------------------------ MODULE SessionLifecycleProofs ------------------------
(* Auth implements SessionLifecycle: for every value of the constants, every *)
(* statement of every handler is one of its steps or leaves sessions, owners *)
(* and parents alone.                                                        *)
EXTENDS AuthProofs

\* A refresh goes on with the row it has read: a session of the user it acts for.
LineageInv ==
    \A p \in Procs :
        req[p].old # NoSession =>
            /\ sessions[req[p].old].token # "none"
            /\ sessions[req[p].old].user = req[p].user

\* No statement deletes a row or gives it to another user.
RowsStay ==
    \A s \in SessionIds :
        sessions[s].token # "none" => /\ sessions'[s].token # "none"
                                      /\ sessions'[s].user = sessions[s].user

LEMMA LineageFrame ==
  ASSUME LineageInv, TypeInv, RowsStay,
         \A p \in Procs : \/ req'[p].old = NoSession
                          \/ req'[p].old = req[p].old /\ req'[p].user = req[p].user
  PROVE  LineageInv'
<1>1. \A p \in Procs : req[p].old \in SessionIds \cup {NoSession}
  BY DEF TypeInv, TypeOK, Request
<1> QED
  BY <1>1 DEF LineageInv, RowsStay

\* What the mapping sees of a state.
LEMMA StatusFacts ==
  ASSUME TypeInv, NEW s \in SessionIds
  PROVE  /\ sessions[s].token \in {"none", "pending", "issued"}
         /\ sessions[s].revoked \in BOOLEAN
         /\ Status(s) = IF sessions[s].token = "none" THEN "free"
                        ELSE IF sessions[s].revoked THEN "dead"
                        ELSE IF sessions[s].token = "pending" THEN "opening" ELSE "live"
<1>1. /\ sessions[s].token \in {"none", "pending", "issued"}
      /\ sessions[s].revoked \in BOOLEAN
  BY DEF TypeInv, TypeOK, SessionRow
<1> QED
  BY <1>1 DEF Status

\* Steps that change none of the columns the mapping looks at.
LEMMA Stutters ==
  ASSUME \A s \in SessionIds : /\ sessions'[s].token = sessions[s].token
                               /\ sessions'[s].revoked = sessions[s].revoked
                               /\ sessions'[s].user = sessions[s].user
                               /\ history'[s].parent = history[s].parent
  PROVE  UNCHANGED Lifecycle!vars
<1>1. \A s \in SessionIds : Status(s)' = Status(s)
  BY DEF Status
<1> QED
  BY <1>1 DEF Lifecycle!vars

\* Revocations of sessions of one user, whatever the columns the mapping ignores.
Revokes(u, S) ==
    /\ u \in Users
    /\ S \in SUBSET SessionIds
    /\ \A s \in S : /\ sessions[s].token # "none"
                    /\ sessions[s].user = u
                    /\ ~sessions[s].revoked
    /\ \A s \in SessionIds :
          /\ sessions'[s].token = sessions[s].token
          /\ sessions'[s].revoked = (sessions[s].revoked \/ s \in S)
          /\ sessions'[s].user = sessions[s].user
          /\ history'[s].parent = history[s].parent

LEMMA RevokeMaps ==
  ASSUME TypeInv, TypeInv', NEW u, NEW S, Revokes(u, S)
  PROVE  Lifecycle!Next
<1> USE DEF Revokes
<1>0. \A s \in SessionIds :
        Status(s)' = IF sessions'[s].token = "none" THEN "free"
                     ELSE IF sessions'[s].revoked THEN "dead"
                     ELSE IF sessions'[s].token = "pending" THEN "opening" ELSE "live"
  BY DEF Status, TypeInv, TypeOK, SessionRow
<1>1. \A s \in SessionIds : Status(s)' = IF s \in S THEN "dead" ELSE Status(s)
  BY StatusFacts, <1>0
<1>2. \A s \in S : Status(s) \in {"opening", "live"} /\ sessions[s].user = u
  BY StatusFacts
<1>3. Lifecycle!Revoke(u, S)
  BY <1>1, <1>2 DEF Lifecycle!Revoke
<1> QED
  BY <1>3 DEF Lifecycle!Next

\* RevokeAllByUser is such a step, and keeps the lineage of the requests.
LEMMA RevokeAllMaps ==
  ASSUME LineageInv, TypeInv, TypeInv', NEW u \in Users, RevokeAllByUser(u),
         \A s \in SessionIds : history'[s].parent = history[s].parent,
         \A p \in Procs : \/ req'[p].old = NoSession
                          \/ req'[p].old = req[p].old /\ req'[p].user = req[p].user
  PROVE  LineageInv' /\ Lifecycle!Next
<1> PICK S \in SUBSET SessionIds : S = {s \in SessionIds : RevokedByAll(s, u)}
  OBVIOUS
<1>1. \A s \in SessionIds : /\ sessions'[s].token = sessions[s].token
                            /\ sessions'[s].revoked = (sessions[s].revoked \/ s \in S)
                            /\ sessions'[s].user = sessions[s].user
  BY RevokeAllFrame DEF TypeInv
<1>2. \A s \in S : sessions[s].token # "none" /\ sessions[s].user = u
                      /\ ~sessions[s].revoked
  BY DEF RevokedByAll
<1>4. LineageInv'
  BY <1>1, LineageFrame DEF RowsStay
<1>5. Lifecycle!Next
  <2>1. Revokes(u, S)
    BY <1>1, <1>2 DEF Revokes
  <2> QED
    BY <2>1, RevokeMaps
<1> QED
  BY <1>4, <1>5

LEMMA InitLifecycle == Init => LineageInv /\ Lifecycle!Init
<1> SUFFICES ASSUME Init PROVE LineageInv /\ Lifecycle!Init
  OBVIOUS
<1>1. LineageInv
  BY DEF Init, LineageInv, Idle
<1>2. \A s \in SessionIds : /\ Status(s) = "free"
                            /\ sessions[s].user = NoUser
                            /\ history[s].parent = NoSession
  BY DEF Init, NoRow, NoOrigin, Status
<1> QED
  BY <1>1, <1>2 DEF Lifecycle!Init

LEMMA StepLifecycle ==
  LineageInv /\ RotationInv /\ TypeInv /\ TypeInv' /\ [Next]_vars
      => LineageInv' /\ [Lifecycle!Next]_(Lifecycle!vars)
<1> SUFFICES ASSUME LineageInv, RotationInv, TypeInv, TypeInv', [Next]_vars
             PROVE  LineageInv' /\ [Lifecycle!Next]_(Lifecycle!vars)
  OBVIOUS
<1> USE BoundsAssumption DEF BoundsAreNatural, NoSession
<1>1. ASSUME UNCHANGED sessions,
             \A s \in SessionIds : history'[s].parent = history[s].parent,
             \A p \in Procs : \/ req'[p].old = NoSession
                              \/ req'[p].old = req[p].old /\ req'[p].user = req[p].user
      PROVE  LineageInv' /\ UNCHANGED Lifecycle!vars
  BY <1>1, LineageFrame, Stutters DEF RowsStay
<1>2. ASSUME NEW p \in Procs, NEW s \in SessionIds, RefreshRead(p, s)
      PROVE  LineageInv' /\ UNCHANGED Lifecycle!vars
  <2>1. UNCHANGED Lifecycle!vars
    BY <1>2, Stutters DEF RefreshRead, tables, ghosts
  <2>2. LineageInv'
    BY <1>2 DEF RefreshRead, Redeemable, Start, LineageInv, TypeInv, TypeOK, tables
  <2> QED
    BY <2>1, <2>2
<1>3. ASSUME NEW p \in Procs, CreateSession(p)
      PROVE  LineageInv' /\ [Lifecycle!Next]_(Lifecycle!vars)
  <2>1. CASE PendingExists
    BY <1>1, <1>3, <2>1
    DEF CreateSession, Finish, Idle, TypeInv, TypeOK, tables, ghosts
  <2>2. CASE ~PendingExists /\ InsertSession(p)
    <3>0. /\ lastId + 1 \in SessionIds
          /\ req[p].user \in Users /\ req[p].old \in SessionIds \cup {NoSession}
      BY <1>3, <2>2
      DEF CreateSession, InsertSession, TypeInv, TypeOK, RequestsOK, Request
    <3> PICK i \in SessionIds, u \in Users, o \in SessionIds \cup {NoSession} :
               i = lastId + 1 /\ u = req[p].user /\ o = req[p].old
      BY <3>0
    <3>1. sessions[i].token = "none"
      BY <2>2 DEF RotationInv, TypeInv, TypeOK, SessionIds
    <3>2. /\ sessions' = [sessions EXCEPT ![i] = NewRow(u)]
          /\ history'[i].parent = o
          /\ \A s \in SessionIds \ {i} : history'[s] = history[s]
      BY <2>2, <3>1 DEF InsertSession, TypeInv, TypeOK
    <3>3. \A q \in Procs : req'[q].old = req[q].old /\ req'[q].user = req[q].user
      BY <2>2 DEF InsertSession, TypeInv, TypeOK, Request
    <3>5. o # NoSession => sessions[o].revoked /\ sessions[o].token # "none"
                              /\ sessions[o].user = u
      BY <1>3 DEF CreateSession, RotationInv, LineageInv
    <3>6. \A s \in SessionIds \ {i} : sessions'[s] = sessions[s]
      BY <3>1, <3>2 DEF TypeInv, TypeOK
    <3>7. /\ sessions'[i].token = "pending" /\ sessions'[i].revoked = FALSE
          /\ sessions'[i].user = u
      BY <3>1, <3>2 DEF NewRow, TypeInv, TypeOK
    <3>8. LineageInv'
      BY <3>1, <3>3, <3>6, LineageFrame DEF RowsStay
    <3>9. Status(i) = "free" /\ Status(i)' = "opening"
          /\ \A s \in SessionIds \ {i} : Status(s)' = Status(s)
      BY <3>1, <3>6, <3>7 DEF Status
    <3>10. \A s \in SessionIds : Status(s) # "opening"
      BY <2>2, StatusFacts DEF PendingExists
    <3>11. o # NoSession => Status(o) = "dead" /\ sessions[o].user = u
      BY <3>5, StatusFacts
    <3>12. Lifecycle!Open(i, u, o)
      <4>1. [s \in SessionIds |-> Status(s)]'
              = [[s \in SessionIds |-> Status(s)] EXCEPT ![i] = "opening"]
        BY <3>9
      <4>2. [s \in SessionIds |-> sessions[s].user]'
              = [[s \in SessionIds |-> sessions[s].user] EXCEPT ![i] = u]
        BY <3>6, <3>7
      <4>3. [s \in SessionIds |-> history[s].parent]'
              = [[s \in SessionIds |-> history[s].parent] EXCEPT ![i] = o]
        BY <3>2
      <4> QED
        BY <3>9, <3>10, <3>11, <4>1, <4>2, <4>3 DEF Lifecycle!Open
    <3>13. Lifecycle!Next
      BY <3>12 DEF Lifecycle!Next
    <3> QED
      BY <3>8, <3>13
  <2> QED
    BY <1>3, <2>1, <2>2 DEF CreateSession
<1>4. ASSUME NEW p \in Procs, UpdateRefreshToken(p)
      PROVE  LineageInv' /\ [Lifecycle!Next]_(Lifecycle!vars)
  <2>0. req[p].new \in SessionIds /\ sessions[req[p].new].token # "none"
    BY <1>4 DEF UpdateRefreshToken, TypeInv, RequestsOK, RowsOK
  <2> PICK i \in SessionIds : i = req[p].new
    BY <2>0
  <2>1. sessions[i].token # "none"
    BY <2>0
  <2>2. /\ sessions'[i].token = "issued" /\ sessions'[i].revoked = sessions[i].revoked
        /\ sessions'[i].user = sessions[i].user
        /\ \A s \in SessionIds \ {i} : sessions'[s] = sessions[s]
        /\ history' = history
    BY <1>4, <2>1 DEF UpdateRefreshToken, TypeInv, TypeOK, SessionRow, ghosts
  <2>3. \A q \in Procs : req'[q].old = NoSession \/ req'[q] = req[q]
    BY <1>4 DEF UpdateRefreshToken, Finish, Idle, TypeInv, TypeOK
  <2>4. LineageInv'
    BY <2>1, <2>2, <2>3, LineageFrame DEF RowsStay
  <2>5. CASE Status(i) = "opening"
    <3>1. Status(i)' = "live" /\ \A s \in SessionIds \ {i} : Status(s)' = Status(s)
      BY <2>1, <2>2, <2>5, StatusFacts DEF Status
    <3>2. Lifecycle!Publish(i)
      BY <2>1, <2>2, <2>5, <3>1 DEF Lifecycle!Publish
    <3> QED
      BY <2>1, <2>4, <3>2 DEF Lifecycle!Next
  <2>6. CASE Status(i) # "opening"
    <3>1. \A s \in SessionIds : Status(s)' = Status(s)
      BY <2>1, <2>2, <2>6, StatusFacts DEF Status
    <3>2. \A s \in SessionIds : /\ sessions'[s].user = sessions[s].user
                                /\ history'[s].parent = history[s].parent
      BY <2>1, <2>2
    <3> QED
      BY <2>4, <3>1, <3>2 DEF Lifecycle!vars
  <2> QED
    BY <2>5, <2>6
<1>5. ASSUME NEW p \in Procs, RevokeOld(p)
      PROVE  LineageInv' /\ [Lifecycle!Next]_(Lifecycle!vars)
  <2>0. req[p].old \in SessionIds
    BY <1>5 DEF RevokeOld, RotationInv, TypeInv, TypeOK, Request
  <2> PICK o \in SessionIds : o = req[p].old
    BY <2>0
  <2>1. sessions[o].token # "none" /\ sessions[o].user \in Users
    BY <1>5 DEF RevokeOld, LineageInv, RotationInv, TypeInv, RequestsOK
  <2>2. /\ sessions'[o] = [sessions[o] EXCEPT !.revoked = TRUE]
        /\ \A s \in SessionIds \ {o} : sessions'[s] = sessions[s]
        /\ req' = req /\ history' = history
    BY <1>5, <2>1 DEF RevokeOld, TypeInv, TypeOK, ghosts
  <2>3. /\ sessions[o] \in SessionRow /\ sessions[o].revoked \in BOOLEAN
    BY <2>1 DEF TypeInv, TypeOK, SessionRow
  <2>4. /\ sessions'[o].token = sessions[o].token /\ sessions'[o].revoked = TRUE
        /\ sessions'[o].user = sessions[o].user
    BY <2>2, <2>3 DEF SessionRow
  <2>5. \A s \in SessionIds : sessions[s].revoked \in BOOLEAN
    BY DEF TypeInv, TypeOK, SessionRow
  <2>6. LineageInv'
    BY <2>1, <2>2, <2>4, LineageFrame DEF RowsStay
  <2> PICK S \in SUBSET SessionIds :
               \A s \in SessionIds : s \in S <=> s = o /\ ~sessions[o].revoked
    <3>1. LET S == IF sessions[o].revoked THEN {} ELSE {o}
          IN  S \in SUBSET SessionIds
                /\ \A s \in SessionIds : s \in S <=> s = o /\ ~sessions[o].revoked
      OBVIOUS
    <3> QED
      BY <3>1
  <2>7. \A s \in SessionIds :
           /\ sessions'[s].token = sessions[s].token
           /\ sessions'[s].revoked = (sessions[s].revoked \/ s \in S)
           /\ sessions'[s].user = sessions[s].user
           /\ history'[s].parent = history[s].parent
    <3>1. \A s \in SessionIds \ {o} : sessions'[s].revoked = (sessions[s].revoked \/ s \in S)
      BY <2>2, <2>5
    <3>2. sessions'[o].revoked = (sessions[o].revoked \/ o \in S)
      BY <2>1, <2>3, <2>4
    <3>3. \A s \in SessionIds : sessions'[s].token = sessions[s].token
                                /\ sessions'[s].user = sessions[s].user
      BY <2>2, <2>4
    <3> QED
      BY <2>2, <3>1, <3>2, <3>3
  <2> PICK u \in Users : u = sessions[o].user
    BY <2>1
  <2>8. \A s \in S : sessions[s].token # "none" /\ sessions[s].user = u
                        /\ ~sessions[s].revoked
    BY <2>1
  <2>9. Lifecycle!Next
    <3>1. Revokes(u, S)
      BY <2>7, <2>8 DEF Revokes
    <3> QED
      BY <3>1, RevokeMaps
  <2> QED
    BY <2>6, <2>9
<1>6. ASSUME NEW p \in Procs, ChangePasswordRevoke(p)
      PROVE  LineageInv' /\ Lifecycle!Next
  <2>1. \A s \in SessionIds : history'[s].parent = history[s].parent
    BY <1>6, RevokingHistories DEF TypeInv
  <2>2. \A q \in Procs : \/ req'[q].old = NoSession
                         \/ req'[q].old = req[q].old /\ req'[q].user = req[q].user
    BY <1>6, ChangePasswordRevokeRequests DEF Idle, TypeInv
  <2>3. RevokeAllByUser(req[p].user) /\ req[p].user \in Users
    BY <1>6 DEF ChangePasswordRevoke, TypeInv, RequestsOK
  <2> QED
    BY <2>1, <2>2, <2>3, RevokeAllMaps
<1>7. ASSUME NEW u \in Users, LogoutAll(u)
      PROVE  LineageInv' /\ Lifecycle!Next
  <2>1. \A s \in SessionIds : history'[s].parent = history[s].parent
    BY <1>7, RevokingHistories DEF TypeInv
  <2>2. \A q \in Procs : req'[q].old = req[q].old /\ req'[q].user = req[q].user
    BY <1>7, LogoutAllRequests DEF TypeInv
  <2> QED
    BY <1>7, <2>1, <2>2, RevokeAllMaps DEF LogoutAll
<1>8. ASSUME NEW p \in Procs, UpdatePassword(p)
      PROVE  LineageInv' /\ UNCHANGED Lifecycle!vars
  <2>1. \A s \in SessionIds : history'[s].parent = history[s].parent
    BY <1>8, RevokingHistories DEF TypeInv
  <2>2. \A q \in Procs : req'[q].old = req[q].old /\ req'[q].user = req[q].user
    BY <1>8, UpdatePasswordRequests DEF TypeInv
  <2> QED
    BY <1>1, <1>8, <2>1, <2>2 DEF UpdatePassword, tables
<1>9. ASSUME NEW p \in Procs,
             \/ \E u \in Users, matches \in BOOLEAN : LoginRead(p, u, matches)
             \/ \E u \in Users : ChangePasswordRead(p, u)
             \/ RecordLoginFailure(p) \/ RecordLoginSuccess(p)
             \/ RefreshUser(p) \/ StatementFails(p)
      PROVE  LineageInv' /\ UNCHANGED Lifecycle!vars
  <2>1. UNCHANGED <<sessions, history>>
    BY <1>9 DEF LoginRead, ChangePasswordRead, RecordLoginFailure, RecordLoginSuccess,
                RefreshUser, StatementFails, LeaveBehind, tables, ghosts
  <2>2. \A q \in Procs : req'[q].old = NoSession \/ req'[q] = req[q]
    BY <1>9 DEF LoginRead, ChangePasswordRead, RecordLoginFailure, RecordLoginSuccess,
                RefreshUser, StatementFails, Start, Finish, Idle, TypeInv, TypeOK
  <2> QED
    BY <1>1, <2>1, <2>2
<1>10. ASSUME Crash
       PROVE  LineageInv' /\ UNCHANGED Lifecycle!vars
  BY <1>1, <1>10 DEF Crash, LeaveBehind, Idle, tables
<1>11. ASSUME \/ \E s \in SessionIds : Logout(s)
              \/ \E u \in Users, field \in {NotGiven} \cup Statuses : AdminUpdate(u, field)
              \/ Tick
              \/ UNCHANGED vars
       PROVE  LineageInv' /\ UNCHANGED Lifecycle!vars
  BY <1>1, <1>11 DEF Logout, ContextSession, AdminUpdate, Tick, vars, tables, ghosts
<1> QED
  BY <1>2, <1>3, <1>4, <1>5, <1>6, <1>7, <1>8, <1>9, <1>10, <1>11
  DEF Next, Arrive, Proceed, RefusedRequest

\* Every behaviour of Auth is, session by session, a behaviour of SessionLifecycle.
THEOREM LifecycleCorrect == Spec => LifecycleImplemented
<1>1. Spec => [](TypeInv /\ RotationInv)
  BY InitType, StepType, InitRotation, StepRotation, PTL DEF Spec
<1>2. Spec => Lifecycle!Init /\ [][Lifecycle!Next]_(Lifecycle!vars)
  BY <1>1, InitLifecycle, StepLifecycle, PTL DEF Spec
<1> QED
  BY <1>2 DEF LifecycleImplemented, Lifecycle!Spec
=============================================================================
