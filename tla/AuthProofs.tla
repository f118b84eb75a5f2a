----------------------------- MODULE AuthProofs -----------------------------
(* Proofs about Auth, for every value of its constants: any number of       *)
(* users, requests and sessions, with and without failures.                 *)
EXTENDS Auth, FiniteSetTheorems, TLAPS

-----------------------------------------------------------------------------
(* The ghosts of a password change and of a logout-all *)

\* OutdateRequests(u) sets one field of the requests, to what it reads here.
LEMMA OutdatedRequest ==
  ASSUME TypeOK, NEW u, NEW q \in Procs
  PROVE  /\ OutdateRequests(u)[q] \in Request
         /\ OutdateRequests(u)[q].user = req[q].user
         /\ OutdateRequests(u)[q].old = req[q].old
         /\ OutdateRequests(u)[q].new = req[q].new
         /\ OutdateRequests(u)[q].overlapped = req[q].overlapped
         /\ OutdateRequests(u)[q].outdated
              = (req[q].outdated \/ (Creating(q) /\ req[q].user = u))
<1> DEFINE b == req[q].outdated \/ (Creating(q) /\ req[q].user = u)
<1>1. req[q] \in Request
  BY DEF TypeOK
<1>2. OutdateRequests(u)[q] = [req[q] EXCEPT !.outdated = b]
  BY DEF OutdateRequests
<1>3. b \in BOOLEAN
  BY <1>1 DEF Request
<1> HIDE DEF b
<1>4. /\ [req[q] EXCEPT !.outdated = b] \in Request
      /\ [req[q] EXCEPT !.outdated = b].user = req[q].user
      /\ [req[q] EXCEPT !.outdated = b].old = req[q].old
      /\ [req[q] EXCEPT !.outdated = b].new = req[q].new
      /\ [req[q] EXCEPT !.outdated = b].overlapped = req[q].overlapped
      /\ [req[q] EXCEPT !.outdated = b].outdated = b
  BY <1>1, <1>3 DEF Request
<1>5. OutdateRequests(u)[q].outdated = b
  BY <1>2, <1>4
<1> QED
  BY <1>2, <1>4, <1>5 DEF b

\* OverlapRequests(u, r) likewise.
LEMMA OverlappedRequest ==
  ASSUME NEW r \in [Procs -> Request], NEW u, NEW q \in Procs
  PROVE  /\ OverlapRequests(u, r)[q] \in Request
         /\ OverlapRequests(u, r)[q].user = r[q].user
         /\ OverlapRequests(u, r)[q].old = r[q].old
         /\ OverlapRequests(u, r)[q].new = r[q].new
         /\ OverlapRequests(u, r)[q].outdated = r[q].outdated
         /\ OverlapRequests(u, r)[q].overlapped
              = (r[q].overlapped \/ (Creating(q) /\ req[q].user = u))
<1> DEFINE b == r[q].overlapped \/ (Creating(q) /\ req[q].user = u)
<1>1. r[q] \in Request
  OBVIOUS
<1>2. OverlapRequests(u, r)[q] = [r[q] EXCEPT !.overlapped = b]
  BY DEF OverlapRequests
<1>3. b \in BOOLEAN
  BY <1>1 DEF Request
<1> HIDE DEF b
<1>4. /\ [r[q] EXCEPT !.overlapped = b] \in Request
      /\ [r[q] EXCEPT !.overlapped = b].user = r[q].user
      /\ [r[q] EXCEPT !.overlapped = b].old = r[q].old
      /\ [r[q] EXCEPT !.overlapped = b].new = r[q].new
      /\ [r[q] EXCEPT !.overlapped = b].outdated = r[q].outdated
      /\ [r[q] EXCEPT !.overlapped = b].overlapped = b
  BY <1>1, <1>3 DEF Request
<1>5. OverlapRequests(u, r)[q].overlapped = b
  BY <1>2, <1>4
<1> QED
  BY <1>2, <1>4, <1>5 DEF b

LEMMA OutdateRequestsMaps ==
  ASSUME TypeOK, NEW u
  PROVE  OutdateRequests(u) \in [Procs -> Request]
<1>1. OutdateRequests(u) = [q \in Procs |-> OutdateRequests(u)[q]]
  BY DEF OutdateRequests
<1> HIDE DEF OutdateRequests
<1> QED
  BY <1>1, OutdatedRequest

LEMMA OverlapRequestsMaps ==
  ASSUME NEW r \in [Procs -> Request], NEW u
  PROVE  OverlapRequests(u, r) \in [Procs -> Request]
<1>1. OverlapRequests(u, r) = [q \in Procs |-> OverlapRequests(u, r)[q]]
  BY DEF OverlapRequests
<1> HIDE DEF OverlapRequests
<1> QED
  BY <1>1, OverlappedRequest

\* What the three steps that revoke or outdate do to the requests.
LEMMA UpdatePasswordRequests ==
  ASSUME TypeOK, NEW p \in Procs, UpdatePassword(p)
  PROVE  /\ req' \in [Procs -> Request]
         /\ \A q \in Procs :
               /\ req'[q].user = req[q].user /\ req'[q].old = req[q].old
               /\ req'[q].new = req[q].new /\ req'[q].overlapped = req[q].overlapped
               /\ req'[q].outdated
                    = (req[q].outdated \/ (Creating(q) /\ req[q].user = req[p].user))
BY OutdatedRequest, OutdateRequestsMaps DEF UpdatePassword

LEMMA ChangePasswordRevokeRequests ==
  ASSUME TypeOK, NEW p \in Procs, ChangePasswordRevoke(p)
  PROVE  /\ req' \in [Procs -> Request] /\ req'[p] = Idle
         /\ \A q \in Procs \ {p} :
               /\ req'[q].user = req[q].user /\ req'[q].old = req[q].old
               /\ req'[q].new = req[q].new /\ req'[q].outdated = req[q].outdated
               /\ req'[q].overlapped
                    = (req[q].overlapped \/ (Creating(q) /\ req[q].user = req[p].user))
<1> DEFINE r == OverlapRequests(req[p].user, req)
<1>1. /\ r \in [Procs -> Request]
      /\ \A q \in Procs :
            /\ r[q].user = req[q].user /\ r[q].old = req[q].old
            /\ r[q].new = req[q].new /\ r[q].outdated = req[q].outdated
            /\ r[q].overlapped
                 = (req[q].overlapped \/ (Creating(q) /\ req[q].user = req[p].user))
  BY OverlappedRequest, OverlapRequestsMaps DEF TypeOK
<1>2. req' = [r EXCEPT ![p] = Idle]
  BY DEF ChangePasswordRevoke
<1>3. Idle \in Request
  BY DEF Idle, Request
<1> HIDE DEF r
<1>4. /\ req' \in [Procs -> Request] /\ req'[p] = Idle
      /\ \A q \in Procs \ {p} : req'[q] = r[q]
  BY <1>1, <1>2, <1>3
<1> QED
  BY <1>1, <1>4

LEMMA LogoutAllRequests ==
  ASSUME TypeOK, NEW u, LogoutAll(u)
  PROVE  /\ req' \in [Procs -> Request]
         /\ \A q \in Procs :
               /\ req'[q].user = req[q].user /\ req'[q].old = req[q].old
               /\ req'[q].new = req[q].new
               /\ req'[q].outdated
                    = (req[q].outdated \/ (Creating(q) /\ req[q].user = u))
               /\ req'[q].overlapped
                    = (req[q].overlapped \/ (Creating(q) /\ req[q].user = u))
<1> DEFINE o == OutdateRequests(u)
<1>1. o \in [Procs -> Request]
  BY OutdateRequestsMaps
<1>2. \A q \in Procs :
        /\ o[q].user = req[q].user /\ o[q].old = req[q].old /\ o[q].new = req[q].new
        /\ o[q].overlapped = req[q].overlapped
        /\ o[q].outdated = (req[q].outdated \/ (Creating(q) /\ req[q].user = u))
  BY OutdatedRequest
<1>3. req' = OverlapRequests(u, o)
  BY DEF LogoutAll
<1> HIDE DEF o
<1>4. /\ req' \in [Procs -> Request]
      /\ \A q \in Procs :
            /\ req'[q].user = o[q].user /\ req'[q].old = o[q].old
            /\ req'[q].new = o[q].new /\ req'[q].outdated = o[q].outdated
            /\ req'[q].overlapped
                 = (o[q].overlapped \/ (Creating(q) /\ req[q].user = u))
  BY <1>1, <1>3, OverlappedRequest, OverlapRequestsMaps
<1> QED
  BY <1>2, <1>4

\* OutdateSessions(u) and OverlapSessions(u, h) set one field of the histories.
LEMMA OutdateSessionsMaps ==
  ASSUME TypeOK, NEW u
  PROVE  /\ OutdateSessions(u) \in [SessionIds -> Origin]
         /\ \A s \in SessionIds : OutdateSessions(u)[s].parent = history[s].parent
<1>1. ASSUME NEW s \in SessionIds
      PROVE  /\ OutdateSessions(u)[s] \in Origin
             /\ OutdateSessions(u)[s].parent = history[s].parent
  <2> DEFINE b == history[s].outdated \/ sessions[s].user = u
  <2>1. history[s] \in Origin
    BY DEF TypeOK
  <2>2. b \in BOOLEAN
    BY <2>1 DEF Origin
  <2>3. OutdateSessions(u)[s] = [history[s] EXCEPT !.outdated = b]
    BY DEF OutdateSessions
  <2> HIDE DEF b
  <2> QED
    BY <2>1, <2>2, <2>3 DEF Origin
<1>2. OutdateSessions(u) = [s \in SessionIds |-> OutdateSessions(u)[s]]
  BY DEF OutdateSessions
<1> HIDE DEF OutdateSessions
<1> QED
  BY <1>1, <1>2

LEMMA OverlapSessionsMaps ==
  ASSUME NEW h \in [SessionIds -> Origin], NEW u
  PROVE  /\ OverlapSessions(u, h) \in [SessionIds -> Origin]
         /\ \A s \in SessionIds : OverlapSessions(u, h)[s].parent = h[s].parent
<1>1. ASSUME NEW s \in SessionIds
      PROVE  /\ OverlapSessions(u, h)[s] \in Origin
             /\ OverlapSessions(u, h)[s].parent = h[s].parent
  <2> DEFINE b == IF sessions[s].user = u THEN sessions[s].expires = now
                                         ELSE h[s].overlapped
  <2>1. h[s] \in Origin
    OBVIOUS
  <2>2. b \in BOOLEAN
    BY <2>1 DEF Origin
  <2>3. OverlapSessions(u, h)[s] = [h[s] EXCEPT !.overlapped = b]
    BY DEF OverlapSessions
  <2> HIDE DEF b
  <2> QED
    BY <2>1, <2>2, <2>3 DEF Origin
<1>2. OverlapSessions(u, h) = [s \in SessionIds |-> OverlapSessions(u, h)[s]]
  BY DEF OverlapSessions
<1> HIDE DEF OverlapSessions
<1> QED
  BY <1>1, <1>2

\* What the three steps do to the histories.
LEMMA RevokingHistories ==
  ASSUME TypeOK,
         \/ \E p \in Procs : UpdatePassword(p) \/ ChangePasswordRevoke(p)
         \/ \E u \in Users : LogoutAll(u)
  PROVE  /\ history' \in [SessionIds -> Origin]
         /\ \A s \in SessionIds : history'[s].parent = history[s].parent
<1>1. history \in [SessionIds -> Origin]
  BY DEF TypeOK
<1>2. CASE \E p \in Procs : UpdatePassword(p)
  BY <1>2, OutdateSessionsMaps DEF UpdatePassword
<1>3. CASE \E p \in Procs : ChangePasswordRevoke(p)
  BY <1>1, <1>3, OverlapSessionsMaps DEF ChangePasswordRevoke
<1>4. ASSUME NEW u \in Users, LogoutAll(u)
      PROVE  /\ history' \in [SessionIds -> Origin]
             /\ \A s \in SessionIds : history'[s].parent = history[s].parent
  <2>1. history' = OverlapSessions(u, OutdateSessions(u))
    BY <1>4 DEF LogoutAll
  <2> QED
    BY <2>1, OutdateSessionsMaps, OverlapSessionsMaps
<1> QED
  BY <1>2, <1>3, <1>4

\* RevokeAllByUser(u) writes one column, of some of the user's rows.
LEMMA RevokeAllFrame ==
  ASSUME TypeOK, NEW u, RevokeAllByUser(u)
  PROVE  /\ sessions' \in [SessionIds -> SessionRow]
         /\ \A s \in SessionIds :
               /\ sessions'[s].user = sessions[s].user
               /\ sessions'[s].token = sessions[s].token
               /\ sessions'[s].expires = sessions[s].expires
               /\ sessions'[s].tokenExpires = sessions[s].tokenExpires
               /\ sessions'[s].revoked = (sessions[s].revoked \/ RevokedByAll(s, u))
<1>1. ASSUME NEW s \in SessionIds
      PROVE  /\ sessions'[s] \in SessionRow
             /\ sessions'[s].user = sessions[s].user
             /\ sessions'[s].token = sessions[s].token
             /\ sessions'[s].expires = sessions[s].expires
             /\ sessions'[s].tokenExpires = sessions[s].tokenExpires
             /\ sessions'[s].revoked = (sessions[s].revoked \/ RevokedByAll(s, u))
  <2> DEFINE b == sessions[s].revoked \/ RevokedByAll(s, u)
  <2>1. sessions[s] \in SessionRow
    BY DEF TypeOK
  <2>2. sessions'[s] = [sessions[s] EXCEPT !.revoked = b]
    BY DEF RevokeAllByUser
  <2>3. b \in BOOLEAN
    BY <2>1 DEF SessionRow
  <2> HIDE DEF b
  <2>4. /\ sessions'[s] \in SessionRow
        /\ sessions'[s].user = sessions[s].user
        /\ sessions'[s].token = sessions[s].token
        /\ sessions'[s].expires = sessions[s].expires
        /\ sessions'[s].tokenExpires = sessions[s].tokenExpires
        /\ sessions'[s].revoked = b
    BY <2>1, <2>2, <2>3 DEF SessionRow
  <2> QED
    BY <2>4 DEF b
<1>2. sessions' = [s \in SessionIds |-> sessions'[s]]
  BY DEF RevokeAllByUser
<1> QED
  BY <1>1, <1>2

-----------------------------------------------------------------------------
(* Type correctness *)

\* TypeOK is not inductive: a step of a request writes the row its req names,
\* so it also matters at which step which field of req is set.
RequestsOK ==
    \A p \in Procs :
        /\ pc[p] # "idle" => req[p].user \in Users
        /\ pc[p] = "backfill" => req[p].new \in SessionIds

RowsOK ==
    /\ \A s \in SessionIds : sessions[s].token # "none" => sessions[s].user \in Users
    /\ \A p \in Procs : pc[p] = "backfill" => sessions[req[p].new].token # "none"

TypeInv == TypeOK /\ RequestsOK /\ RowsOK

LEMMA InitType == Init => TypeInv
BY UsersAssumption, LimitsAssumption, BoundsAssumption
DEF Init, TypeInv, TypeOK, RequestsOK, RowsOK, BoundsAreNatural, UserRow,
    SessionRow, NoRow, Origin, NoOrigin, Request, Idle, Steps, Statuses, Enabled,
    Null, NoSession, SessionIds, Instants

\* The backfill writes the token of one row, and when it expires.
LEMMA BackfilledRow ==
  ASSUME TypeInv, NEW p \in Procs, UpdateRefreshToken(p)
  PROVE  /\ sessions' \in [SessionIds -> SessionRow]
         /\ \A s \in SessionIds :
               /\ sessions'[s].user = sessions[s].user
               /\ sessions'[s].expires = sessions[s].expires
               /\ sessions'[s].revoked = sessions[s].revoked
               /\ sessions'[s].token = IF s = req[p].new THEN "issued"
                                                        ELSE sessions[s].token
<1> DEFINE i == req[p].new
<1>1. i \in SessionIds /\ sessions[i] \in SessionRow
  BY DEF UpdateRefreshToken, TypeInv, TypeOK, RequestsOK
<1>2. now + SessionTicks \in Instants
  BY LimitsAssumption, BoundsAssumption DEF TypeInv, TypeOK, Instants, BoundsAreNatural
<1>3. PICK e \in Instants : e = now + SessionTicks
  BY <1>2
<1> DEFINE row == [sessions[i] EXCEPT !.token = "issued", !.tokenExpires = e]
<1>4. /\ row \in SessionRow /\ row.user = sessions[i].user
      /\ row.expires = sessions[i].expires /\ row.revoked = sessions[i].revoked
      /\ row.token = "issued"
  BY <1>1 DEF SessionRow
<1>5. sessions' = [sessions EXCEPT ![i] = row]
  BY <1>1, <1>3 DEF UpdateRefreshToken, TypeInv, TypeOK
<1> HIDE DEF row
<1>6. sessions \in [SessionIds -> SessionRow]
  BY DEF TypeInv, TypeOK
<1> QED
  BY <1>1, <1>4, <1>5, <1>6

\* What a handler that returns does to the requests.
LEMMA FinishType ==
  ASSUME TypeInv, NEW p \in Procs, Finish(p)
  PROVE  /\ pc' \in [Procs -> Steps] /\ req' \in [Procs -> Request] /\ RequestsOK'
         /\ sessions' = sessions => RowsOK'
<1>1. pc' \in [Procs -> Steps] /\ req' \in [Procs -> Request]
  BY DEF Finish, Goto, TypeInv, TypeOK, Request, Idle, Steps
<1>2. ASSUME NEW q \in Procs
      PROVE /\ pc'[q] # "idle" => req'[q].user \in Users
            /\ pc'[q] = "backfill" => req'[q].new \in SessionIds
  <2>1. CASE q = p
    BY <2>1 DEF Finish, Goto, TypeInv, TypeOK
  <2>2. CASE q # p
    BY <2>2 DEF Finish, Goto, TypeInv, TypeOK, RequestsOK
  <2> QED
    BY <2>1, <2>2
<1>3. ASSUME NEW q \in Procs, pc'[q] = "backfill"
      PROVE pc[q] = "backfill" /\ req'[q].new = req[q].new
  BY <1>3 DEF Finish, Goto, TypeInv, TypeOK
<1>4. ASSUME sessions' = sessions
      PROVE  RowsOK'
  BY <1>3, <1>4 DEF TypeInv, RowsOK
<1> QED
  BY <1>1, <1>2, <1>4 DEF RequestsOK

LEMMA StepType == TypeInv /\ [Next]_vars => TypeInv'
<1> SUFFICES ASSUME TypeInv, [Next]_vars PROVE TypeInv'
  OBVIOUS
<1> USE UsersAssumption, LimitsAssumption, BoundsAssumption
    DEF BoundsAreNatural, NoSession, Null
<1>1. ASSUME NEW p \in Procs, NEW u \in Users, NEW matches \in BOOLEAN,
             LoginRead(p, u, matches)
      PROVE TypeInv'
  BY <1>1 DEF TypeInv, TypeOK, RequestsOK, RowsOK, LoginRead, Start, Goto, Request,
              Idle, Steps, tables, ghosts
<1>2. ASSUME NEW p \in Procs, NEW s \in SessionIds, RefreshRead(p, s)
      PROVE TypeInv'
  BY <1>2 DEF TypeInv, TypeOK, RequestsOK, RowsOK, RefreshRead, Redeemable, Start,
              Goto, Request, SessionRow, Origin, Steps, tables, ghosts
<1>3. ASSUME NEW p \in Procs, NEW u \in Users, ChangePasswordRead(p, u)
      PROVE TypeInv'
  BY <1>3 DEF TypeInv, TypeOK, RequestsOK, RowsOK, ChangePasswordRead, Start, Goto,
              Request, Idle, Steps, tables, ghosts
<1>4. ASSUME NEW p \in Procs, RecordLoginFailure(p)
      PROVE TypeInv'
  BY <1>4 DEF TypeInv, TypeOK, RequestsOK, RowsOK, RecordLoginFailure, Finish, Goto,
              UserRow, Statuses, Locked, Instants, Request, Idle, Steps, ghosts
<1>5. ASSUME NEW p \in Procs, RecordLoginSuccess(p)
      PROVE TypeInv'
  BY <1>5 DEF TypeInv, TypeOK, RequestsOK, RowsOK, RecordLoginSuccess, Goto,
              UserRow, Statuses, Enabled, Instants, Steps, ghosts
<1>6. ASSUME NEW p \in Procs, CreateSession(p)
      PROVE TypeInv'
  <2>1. CASE PendingExists
    BY <1>6, <2>1, FinishType
    DEF CreateSession, TypeInv, TypeOK, tables, ghosts
  <2>2. CASE InsertSession(p)
    <3>1. NewRow(req[p].user) \in SessionRow
      BY <1>6 DEF CreateSession, NewRow, SessionRow, TypeInv, TypeOK, Request, Instants
    <3>2. [parent |-> req[p].old, outdated |-> req[p].outdated,
           overlapped |-> req[p].overlapped] \in Origin
      BY DEF TypeInv, TypeOK, Request, Origin
    <3> DEFINE i == lastId + 1
    <3>4. i \in SessionIds /\ i \in 0 .. MaxSessions
      BY <2>2 DEF InsertSession, SessionIds
    <3>5. /\ sessions' \in [SessionIds -> SessionRow]
          /\ history' \in [SessionIds -> Origin]
          /\ lastId' \in 0 .. MaxSessions
      BY <2>2, <3>1, <3>2, <3>4 DEF InsertSession, TypeInv, TypeOK
    <3>6. pc' \in [Procs -> Steps] /\ req' \in [Procs -> Request]
      BY <2>2, <3>4 DEF InsertSession, Goto, TypeInv, TypeOK, Request, Steps
    <3>7. RequestsOK'
      BY <1>6, <2>2, <3>4
      DEF CreateSession, InsertSession, Goto, TypeInv, TypeOK, RequestsOK, Request
    <3>8. /\ sessions'[i].user \in Users /\ sessions'[i].token = "pending"
          /\ \A s \in SessionIds \ {i} : sessions'[s] = sessions[s]
      BY <1>6, <2>2, <3>4
      DEF CreateSession, InsertSession, NewRow, TypeInv, TypeOK, RequestsOK
    <3>9. \A q \in Procs : pc'[q] = "backfill" => \/ req'[q].new = i
                                                 \/ /\ pc[q] = "backfill"
                                                    /\ req'[q].new = req[q].new
      BY <2>2, <3>4 DEF InsertSession, Goto, TypeInv, TypeOK, Request
    <3>10. RowsOK'
      BY <3>8, <3>9 DEF TypeInv, RequestsOK, RowsOK
    <3> QED
      BY <2>2, <3>5, <3>6, <3>7, <3>10 DEF InsertSession, TypeInv, TypeOK
  <2> QED
    BY <1>6, <2>1, <2>2 DEF CreateSession
<1>7. ASSUME NEW p \in Procs, UpdateRefreshToken(p)
      PROVE TypeInv'
  <2>1. \A q \in Procs : pc'[q] = "backfill"
                            => pc[q] = "backfill" /\ req'[q].new = req[q].new
    BY <1>7 DEF UpdateRefreshToken, Finish, Goto, TypeInv, TypeOK
  <2>2. /\ req[p].new \in SessionIds /\ sessions[req[p].new].token # "none"
        /\ \A q \in Procs : pc[q] = "backfill" => req[q].new \in SessionIds
    BY <1>7 DEF UpdateRefreshToken, TypeInv, RequestsOK, RowsOK
  <2>3. \A s \in SessionIds : /\ sessions'[s].user = sessions[s].user
                              /\ sessions'[s].token # "none" <=> sessions[s].token # "none"
    BY <1>7, <2>2, BackfilledRow
  <2>4. RowsOK'
    BY <2>1, <2>2, <2>3 DEF TypeInv, RowsOK
  <2> QED
    BY <1>7, <2>4, BackfilledRow, FinishType DEF TypeInv, TypeOK, UpdateRefreshToken, ghosts
<1>8. ASSUME NEW p \in Procs, RefreshUser(p)
      PROVE TypeInv'
  <2>1. CASE Finish(p)
    BY <1>8, <2>1, FinishType DEF RefreshUser, TypeInv, TypeOK, tables, ghosts
  <2>2. CASE Goto(p, "revokeOld") /\ UNCHANGED req
    BY <1>8, <2>2 DEF RefreshUser, TypeInv, TypeOK, RequestsOK, RowsOK, Goto, Steps,
                      tables, ghosts
  <2> QED
    BY <1>8, <2>1, <2>2 DEF RefreshUser
<1>9. ASSUME NEW p \in Procs, RevokeOld(p)
      PROVE TypeInv'
  <2>a. ASSUME NEW s \in SessionIds
        PROVE  /\ sessions'[s] \in SessionRow
               /\ sessions'[s].user = sessions[s].user
               /\ sessions'[s].token = sessions[s].token
    <3>1. sessions'[s] = sessions[s] \/ sessions'[s] = [sessions[s] EXCEPT !.revoked = TRUE]
      BY <1>9 DEF TypeInv, TypeOK, RevokeOld
    <3>2. sessions[s] \in SessionRow
      BY DEF TypeInv, TypeOK
    <3> QED
      BY <3>1, <3>2 DEF SessionRow
  <2>b. sessions' = [s \in SessionIds |-> sessions'[s]]
    BY <1>9 DEF TypeInv, TypeOK, RevokeOld
  <2>1. sessions' \in [SessionIds -> SessionRow] /\ RowsOK'
    <3>1. \A q \in Procs : pc'[q] = "backfill" => pc[q] = "backfill" /\ req' = req
      BY <1>9 DEF RevokeOld, Goto, TypeInv, TypeOK
    <3> QED
      BY <2>a, <2>b, <3>1 DEF TypeInv, RequestsOK, RowsOK
  <2>2. pc' \in [Procs -> Steps] /\ RequestsOK'
    BY <1>9 DEF TypeInv, TypeOK, RequestsOK, RevokeOld, Goto, Steps
  <2> QED
    BY <1>9, <2>1, <2>2 DEF TypeInv, TypeOK, RevokeOld, ghosts
<1>10. ASSUME NEW p \in Procs, UpdatePassword(p)
       PROVE TypeInv'
  <2>1. history' \in [SessionIds -> Origin]
    BY <1>10, RevokingHistories DEF TypeInv
  <2>2. req' \in [Procs -> Request] /\ \A q \in Procs :
          req'[q].user = req[q].user /\ req'[q].new = req[q].new
    BY <1>10, UpdatePasswordRequests DEF TypeInv
  <2> QED
    BY <1>10, <2>1, <2>2 DEF UpdatePassword, TypeInv, TypeOK, RequestsOK, RowsOK, Goto,
              Steps, tables
<1>11. ASSUME NEW u \in Users, RevokeAllByUser(u)
       PROVE /\ sessions' \in [SessionIds -> SessionRow]
             /\ \A s \in SessionIds : /\ sessions'[s].user = sessions[s].user
                                      /\ sessions'[s].token = sessions[s].token
  BY <1>11, RevokeAllFrame DEF TypeInv
<1>12. ASSUME NEW p \in Procs, ChangePasswordRevoke(p)
       PROVE TypeInv'
  <2>1. history' \in [SessionIds -> Origin]
    BY <1>12, RevokingHistories DEF TypeInv
  <2>2. req' \in [Procs -> Request] /\ req'[p] = Idle /\ \A q \in Procs \ {p} :
          req'[q].user = req[q].user /\ req'[q].new = req[q].new
    BY <1>12, ChangePasswordRevokeRequests DEF TypeInv
  <2>3. RevokeAllByUser(req[p].user) /\ req[p].user \in Users
    BY <1>12 DEF ChangePasswordRevoke, TypeInv, RequestsOK
  <2>4. /\ pc' \in [Procs -> Steps] /\ pc'[p] = "idle"
        /\ \A q \in Procs \ {p} : pc'[q] = pc[q]
    BY <1>12 DEF ChangePasswordRevoke, Goto, TypeInv, TypeOK, Steps
  <2>5. RequestsOK' /\ RowsOK'
    BY <2>2, <2>3, <2>4, <1>11 DEF TypeInv, RequestsOK, RowsOK
  <2> QED
    BY <1>12, <2>1, <2>2, <2>3, <2>4, <2>5, <1>11 DEF ChangePasswordRevoke, TypeInv, TypeOK
<1>13. ASSUME NEW u \in Users, LogoutAll(u)
       PROVE TypeInv'
  <2>1. history' \in [SessionIds -> Origin]
    BY <1>13, RevokingHistories DEF TypeInv
  <2>2. req' \in [Procs -> Request] /\ \A q \in Procs :
          req'[q].user = req[q].user /\ req'[q].new = req[q].new
    BY <1>13, LogoutAllRequests DEF TypeInv
  <2> QED
    BY <1>13, <2>1, <2>2, <1>11 DEF LogoutAll, TypeInv, TypeOK, RequestsOK, RowsOK
<1>14. ASSUME NEW s \in SessionIds, Logout(s)
       PROVE TypeInv'
  BY <1>14 DEF Logout, ContextSession, ghosts, TypeInv, TypeOK, RequestsOK, RowsOK
<1>15. ASSUME NEW u \in Users, NEW field \in {NotGiven} \cup Statuses,
              AdminUpdate(u, field)
       PROVE TypeInv'
  <2>1. WrittenStatus(field) \in Statuses
    BY DEF WrittenStatus, Statuses, Disabled
  <2> QED
    BY <1>15, <2>1 DEF AdminUpdate, TypeInv, TypeOK, RequestsOK, RowsOK, UserRow, ghosts
<1>16. ASSUME NEW p \in Procs, StatementFails(p)
       PROVE TypeInv'
  <2>1. abandoned' \subseteq SessionIds /\ halted' \subseteq Users
    BY <1>16 DEF StatementFails, LeaveBehind, TypeInv, TypeOK, RequestsOK
  <2>2. CASE Finish(p)
    BY <1>16, <2>1, <2>2, FinishType
    DEF StatementFails, LeaveBehind, TypeInv, TypeOK, tables
  <2>3. CASE pc[p] = "recordSuccess" /\ Goto(p, "create") /\ UNCHANGED req
    BY <1>16, <2>1, <2>3
    DEF StatementFails, LeaveBehind, TypeInv, TypeOK, RequestsOK, RowsOK, Goto, Steps,
        tables
  <2> QED
    BY <1>16, <2>2, <2>3 DEF StatementFails
<1>17. ASSUME Crash
       PROVE TypeInv'
  BY <1>17 DEF Crash, LeaveBehind, TypeInv, TypeOK, RequestsOK, RowsOK, Request, Idle,
               Steps, tables
<1>18. ASSUME Tick
       PROVE TypeInv'
  BY <1>18 DEF Tick, TypeInv, TypeOK, RequestsOK, RowsOK, tables, ghosts
<1>19. ASSUME UNCHANGED vars
       PROVE TypeInv'
  BY <1>19 DEF vars, tables, ghosts, TypeInv, TypeOK, RequestsOK, RowsOK
<1> QED
  BY <1>1, <1>2, <1>3, <1>4, <1>5, <1>6, <1>7, <1>8, <1>9, <1>10, <1>12, <1>13, <1>14,
     <1>15, <1>16, <1>17, <1>18, <1>19
  DEF Next, Arrive, Proceed, RefusedRequest

\* Every reachable state has the types the tables and the handlers declare.
THEOREM TypeCorrect == Spec => []TypeOK
<1>1. Spec => []TypeInv
  BY InitType, StepType, PTL DEF Spec
<1> QED
  BY <1>1, PTL DEF TypeInv
-----------------------------------------------------------------------------
(* Token rotation *)

\* PredecessorRevoked is kept because a new row replaces none (ids above lastId
\* are free, and nothing refers to them) and because the old session is already
\* revoked when its request comes to insert the new one.
RotationInv ==
    /\ PredecessorRevoked
    /\ \A s \in SessionIds : sessions[s].token # "none" => s <= lastId
    /\ \A s \in SessionIds : history[s].parent <= lastId
    /\ \A p \in Procs : req[p].old <= lastId
    /\ \A p \in Procs : pc[p] = "backfill" => req[p].new <= lastId
    /\ \A p \in Procs : pc[p] = "create" /\ req[p].old # NoSession
                           => sessions[req[p].old].revoked
    /\ \A p \in Procs : pc[p] = "revokeOld" => req[p].old # NoSession
    /\ \A p \in Procs : pc[p] = "readUser" => req[p].old # NoSession
    /\ \A p \in Procs : pc[p] = "recordSuccess" => req[p].old = NoSession

LEMMA InitRotation == Init => RotationInv
BY BoundsAssumption
DEF Init, RotationInv, PredecessorRevoked, NoRow, NoOrigin, Idle, NoSession,
    SessionIds, BoundsAreNatural

\* Steps that insert nothing, revoke at most, and let no request come to insert.
LEMMA RotationFrame ==
  ASSUME RotationInv, TypeInv, TypeInv', lastId' = lastId,
         \A s \in SessionIds :
            /\ sessions[s].revoked => sessions'[s].revoked
            /\ sessions'[s].token # "none" => s <= lastId
            /\ history'[s].parent = history[s].parent,
         \A p \in Procs :
            \/ /\ req'[p].old = NoSession
               /\ pc'[p] \notin {"revokeOld", "readUser", "backfill"}
            \/ pc'[p] = pc[p] /\ req'[p].old = req[p].old /\ req'[p].new = req[p].new
  PROVE  RotationInv'
<1> USE BoundsAssumption DEF BoundsAreNatural, NoSession
<1>1. \A s \in SessionIds : history[s].parent \in SessionIds \cup {NoSession}
  BY DEF TypeInv, TypeOK, Origin
<1>2. \A p \in Procs : req[p].old \in SessionIds \cup {NoSession}
  BY DEF TypeInv, TypeOK, Request
<1>3. lastId \in Nat
  BY DEF TypeInv, TypeOK
<1>4. /\ PredecessorRevoked'
      /\ \A s \in SessionIds : /\ sessions'[s].token # "none" => s <= lastId'
                               /\ history'[s].parent <= lastId'
  BY <1>1 DEF RotationInv, PredecessorRevoked
<1>5. ASSUME NEW p \in Procs
      PROVE /\ req'[p].old <= lastId'
            /\ pc'[p] = "backfill" => req'[p].new <= lastId'
            /\ pc'[p] = "create" /\ req'[p].old # NoSession
                  => sessions'[req'[p].old].revoked
            /\ pc'[p] = "revokeOld" => req'[p].old # NoSession
            /\ pc'[p] = "readUser" => req'[p].old # NoSession
            /\ pc'[p] = "recordSuccess" => req'[p].old = NoSession
  BY <1>2, <1>3 DEF RotationInv
<1> QED
  BY <1>4, <1>5 DEF RotationInv

LEMMA StepRotation == RotationInv /\ TypeInv /\ TypeInv' /\ [Next]_vars => RotationInv'
<1> SUFFICES ASSUME RotationInv, TypeInv, TypeInv', [Next]_vars PROVE RotationInv'
  OBVIOUS
<1> USE BoundsAssumption DEF BoundsAreNatural, NoSession
<1>0. \A s \in SessionIds : sessions[s].token # "none" => s <= lastId
  BY DEF RotationInv
<1>1. ASSUME NEW p \in Procs, NEW u \in Users, NEW matches \in BOOLEAN,
             LoginRead(p, u, matches)
      PROVE RotationInv'
  BY <1>1, <1>0, RotationFrame DEF TypeInv, TypeOK, LoginRead, Start, Goto, Idle, tables, ghosts
<1>2. ASSUME NEW p \in Procs, NEW s \in SessionIds, RefreshRead(p, s)
      PROVE RotationInv'
  BY <1>2 DEF RotationInv, PredecessorRevoked, TypeInv, TypeOK, RefreshRead, Redeemable,
              Start, Goto, SessionIds, tables, ghosts
<1>3. ASSUME NEW p \in Procs, NEW u \in Users, ChangePasswordRead(p, u)
      PROVE RotationInv'
  BY <1>3, <1>0, RotationFrame
  DEF TypeInv, TypeOK, ChangePasswordRead, Start, Goto, Idle, tables, ghosts
<1>4. ASSUME NEW p \in Procs, RecordLoginFailure(p)
      PROVE RotationInv'
  BY <1>4, <1>0, RotationFrame
  DEF TypeInv, TypeOK, RecordLoginFailure, Finish, Goto, Idle, ghosts
<1>5. ASSUME NEW p \in Procs, RecordLoginSuccess(p)
      PROVE RotationInv'
  BY <1>5, <1>0, RotationFrame DEF RotationInv, TypeInv, TypeOK, RecordLoginSuccess, Goto, ghosts
<1>6. ASSUME NEW p \in Procs, CreateSession(p)
      PROVE RotationInv'
  <2>1. CASE PendingExists
    BY <1>6, <2>1, <1>0, RotationFrame
    DEF CreateSession, TypeInv, TypeOK, Finish, Goto, Idle, tables, ghosts
  <2>2. CASE InsertSession(p)
    <3> DEFINE i == lastId + 1
    <3>1. i \in SessionIds /\ lastId' = i /\ lastId \in Nat
      BY <2>2 DEF InsertSession, SessionIds, TypeInv, TypeOK
    <3>2. \A s \in SessionIds \ {i} : /\ sessions'[s] = sessions[s]
                                      /\ history'[s] = history[s]
      BY <2>2, <3>1 DEF InsertSession, TypeInv, TypeOK
    <3>3. history'[i].parent = req[p].old
      BY <2>2, <3>1 DEF InsertSession, TypeInv, TypeOK
    <3>4. \A q \in Procs : /\ req'[q].old = req[q].old
                           /\ \/ pc'[q] = pc[q] /\ req'[q].new = req[q].new
                              \/ pc'[q] = "backfill" /\ req'[q].new = i
      BY <2>2, <3>1 DEF InsertSession, Goto, TypeInv, TypeOK, Request
    <3>5. \A q \in Procs : req[q].old \in SessionIds \cup {NoSession}
                           /\ req[q].old <= lastId
      BY DEF TypeInv, TypeOK, Request, RotationInv
    <3>6. \A s \in SessionIds : history[s].parent \in SessionIds \cup {NoSession}
                                /\ history[s].parent <= lastId
      BY DEF TypeInv, TypeOK, Origin, RotationInv
    <3>7. PredecessorRevoked'
      BY <1>6, <3>1, <3>2, <3>3, <3>5, <3>6
      DEF CreateSession, RotationInv, PredecessorRevoked, SessionIds
    <3>8. \A s \in SessionIds : /\ sessions'[s].token # "none" => s <= lastId'
                                /\ history'[s].parent <= lastId'
      BY <3>1, <3>2, <3>3, <3>5, <3>6 DEF RotationInv, SessionIds
    <3>9. \A q \in Procs :
            /\ req'[q].old <= lastId'
            /\ pc'[q] = "backfill" => req'[q].new <= lastId'
            /\ pc'[q] = "create" /\ req'[q].old # NoSession
                  => sessions'[req'[q].old].revoked
            /\ pc'[q] \in {"revokeOld", "readUser"} => req'[q].old # NoSession
            /\ pc'[q] = "recordSuccess" => req'[q].old = NoSession
      <4> SUFFICES ASSUME NEW q \in Procs
                   PROVE /\ req'[q].old <= lastId'
                         /\ pc'[q] = "backfill" => req'[q].new <= lastId'
                         /\ pc'[q] = "create" /\ req'[q].old # NoSession
                               => sessions'[req'[q].old].revoked
                         /\ pc'[q] \in {"revokeOld", "readUser"} => req'[q].old # NoSession
                         /\ pc'[q] = "recordSuccess" => req'[q].old = NoSession
        OBVIOUS
      <4>1. req[q].new \in Nat
        BY DEF TypeInv, TypeOK, Request, SessionIds
      <4>2. pc'[q] = "backfill" => req'[q].new <= lastId'
        BY <3>1, <3>4, <4>1 DEF RotationInv
      <4>3. pc'[q] # "backfill" => pc'[q] = pc[q]
        BY <3>4
      <4>4. req'[q].old = req[q].old /\ req[q].old \in SessionIds \cup {NoSession}
            /\ req[q].old <= lastId
        BY <3>4, <3>5
      <4>5. req[q].old # NoSession => sessions'[req[q].old] = sessions[req[q].old]
        BY <3>1, <3>2, <4>4 DEF SessionIds
      <4>6. req'[q].old <= lastId'
        BY <3>1, <4>4 DEF SessionIds
      <4> QED
        BY <4>2, <4>3, <4>4, <4>5, <4>6 DEF RotationInv
    <3> QED
      BY <3>7, <3>8, <3>9 DEF RotationInv
  <2> QED
    BY <1>6, <2>1, <2>2 DEF CreateSession
<1>7. ASSUME NEW p \in Procs, UpdateRefreshToken(p)
      PROVE RotationInv'
  <2>1. req[p].new <= lastId /\ req[p].new \in SessionIds
    BY <1>7 DEF UpdateRefreshToken, RotationInv, TypeInv, RequestsOK
  <2>2. \A s \in SessionIds : /\ sessions'[s].revoked = sessions[s].revoked
                              /\ s # req[p].new => sessions'[s] = sessions[s]
    BY <1>7, <2>1 DEF UpdateRefreshToken, TypeInv, TypeOK, SessionRow
  <2>3. \A q \in Procs : \/ req'[q].old = NoSession /\ pc'[q] = "idle"
                         \/ pc'[q] = pc[q] /\ req'[q] = req[q]
    BY <1>7 DEF UpdateRefreshToken, Finish, Goto, Idle, TypeInv, TypeOK
  <2>4. \A s \in SessionIds : sessions'[s].token # "none" => s <= lastId
    BY <2>1, <2>2 DEF RotationInv
  <2> QED
    BY <1>7, <2>2, <2>3, <2>4, <1>0, RotationFrame DEF UpdateRefreshToken, ghosts
<1>8. ASSUME NEW p \in Procs, RefreshUser(p)
      PROVE RotationInv'
  <2>1. CASE Finish(p)
    BY <1>8, <2>1, <1>0, RotationFrame
    DEF RefreshUser, TypeInv, TypeOK, Finish, Goto, Idle, tables, ghosts
  <2>2. CASE Goto(p, "revokeOld") /\ UNCHANGED req
    BY <1>8, <2>2
    DEF RefreshUser, RotationInv, PredecessorRevoked, TypeInv, TypeOK, Goto, tables, ghosts
  <2> QED
    BY <1>8, <2>1, <2>2 DEF RefreshUser
<1>9. ASSUME NEW p \in Procs, RevokeOld(p)
      PROVE RotationInv'
  <2>1. /\ req[p].old \in SessionIds
        /\ sessions'[req[p].old].revoked
        /\ \A s \in SessionIds : /\ sessions[s].revoked => sessions'[s].revoked
                                 /\ sessions'[s].token = sessions[s].token
    BY <1>9 DEF RevokeOld, RotationInv, TypeInv, TypeOK, Request, SessionRow
  <2>2. /\ lastId' = lastId /\ req' = req /\ history' = history
        /\ \A q \in Procs : pc'[q] = pc[q] \/ (q = p /\ pc'[q] = "create")
    BY <1>9 DEF RevokeOld, Goto, TypeInv, TypeOK, ghosts
  <2> QED
    BY <2>1, <2>2 DEF RotationInv, PredecessorRevoked, TypeInv, TypeOK, Request, Origin
<1>10. ASSUME NEW p \in Procs, UpdatePassword(p)
       PROVE RotationInv'
  <2>1. \A s \in SessionIds : history'[s].parent = history[s].parent
    BY <1>10, RevokingHistories DEF TypeInv
  <2>2. \A q \in Procs : /\ req'[q].old = req[q].old /\ req'[q].new = req[q].new
                         /\ pc'[q] = pc[q] \/ (q = p /\ pc'[q] = "revokeAll")
    BY <1>10, UpdatePasswordRequests DEF UpdatePassword, Goto, TypeInv, TypeOK
  <2> QED
    BY <1>10, <2>1, <2>2, BoundsAssumption
    DEF UpdatePassword, RotationInv, PredecessorRevoked, tables
<1>11. ASSUME NEW u \in Users, RevokeAllByUser(u)
       PROVE \A s \in SessionIds : /\ sessions[s].revoked => sessions'[s].revoked
                                   /\ sessions'[s].token # "none" => s <= lastId
  BY <1>11, RevokeAllFrame DEF RotationInv, TypeInv
<1>12. ASSUME NEW p \in Procs, ChangePasswordRevoke(p)
       PROVE RotationInv'
  <2>1. RevokeAllByUser(req[p].user) /\ req[p].user \in Users
    BY <1>12 DEF ChangePasswordRevoke, TypeInv, RequestsOK
  <2>2. \A s \in SessionIds : history'[s].parent = history[s].parent
    BY <1>12 DEF ChangePasswordRevoke, OverlapSessions, TypeInv, TypeOK, Origin
  <2>3. \A q \in Procs : \/ req'[q].old = NoSession /\ pc'[q] = "idle"
                         \/ /\ pc'[q] = pc[q] /\ req'[q].old = req[q].old
                            /\ req'[q].new = req[q].new
    BY <1>12, ChangePasswordRevokeRequests DEF ChangePasswordRevoke, Goto, Idle, TypeInv, TypeOK
  <2> QED
    BY <1>12, <1>11, <2>1, <2>2, <2>3, <1>0, RotationFrame DEF ChangePasswordRevoke
<1>13. ASSUME NEW u \in Users, LogoutAll(u)
       PROVE RotationInv'
  <2>1. \A s \in SessionIds : history'[s].parent = history[s].parent
    BY <1>13, RevokingHistories DEF TypeInv
  <2>2. \A q \in Procs : req'[q].old = req[q].old /\ req'[q].new = req[q].new
    BY <1>13, LogoutAllRequests DEF TypeInv
  <2> QED
    BY <1>13, <1>11, <2>1, <2>2, <1>0, RotationFrame DEF LogoutAll
<1>14. ASSUME NEW p \in Procs, StatementFails(p)
       PROVE RotationInv'
  <2>1. CASE Finish(p)
    BY <1>14, <2>1, <1>0, RotationFrame
    DEF StatementFails, LeaveBehind, Finish, Goto, Idle, TypeInv, TypeOK, tables
  <2>2. CASE pc[p] = "recordSuccess" /\ Goto(p, "create") /\ UNCHANGED req
    BY <1>14, <2>2, <1>0, RotationFrame
    DEF StatementFails, LeaveBehind, RotationInv, Goto, TypeInv, TypeOK, tables
  <2> QED
    BY <1>14, <2>1, <2>2 DEF StatementFails
<1>15. ASSUME Crash
       PROVE RotationInv'
  BY <1>15, <1>0, RotationFrame DEF Crash, LeaveBehind, Idle, TypeInv, TypeOK, tables
<1>16. ASSUME UNCHANGED <<sessions, lastId, pc, req, history>>
       PROVE RotationInv'
  BY <1>16, <1>0, RotationFrame
<1>17. ASSUME \/ \E s \in SessionIds : Logout(s)
              \/ \E u \in Users, field \in {NotGiven} \cup Statuses : AdminUpdate(u, field)
              \/ Tick
              \/ UNCHANGED vars
       PROVE RotationInv'
  BY <1>16, <1>17 DEF Logout, ContextSession, AdminUpdate, Tick, vars, tables, ghosts
<1> QED
  BY <1>1, <1>2, <1>3, <1>4, <1>5, <1>6, <1>7, <1>8, <1>9, <1>10, <1>12, <1>13, <1>14,
     <1>15, <1>17
  DEF Next, Arrive, Proceed, RefusedRequest

\* A session with a successor is revoked, whatever fails and interleaves.
THEOREM RotationCorrect == Spec => []PredecessorRevoked
<1>1. Spec => []TypeInv
  BY InitType, StepType, PTL DEF Spec
<1>2. Spec => []RotationInv
  BY <1>1, InitRotation, StepRotation, PTL DEF Spec
<1> QED
  BY <1>2, PTL DEF RotationInv

-----------------------------------------------------------------------------
(* The placeholder *)

\* Steps that insert no placeholder and take no request from its backfill.
LEMMA PlaceholderFrame ==
  ASSUME PlaceholderOwned, abandoned \subseteq abandoned',
         \A s \in SessionIds :
            sessions'[s].token = "pending" => sessions[s].token = "pending",
         \A p \in Procs :
            pc[p] = "backfill" =>
               \/ pc'[p] = "backfill" /\ req'[p].new = req[p].new
               \/ req[p].new \in abandoned'
  PROVE  PlaceholderOwned'
<1> SUFFICES ASSUME NEW s \in SessionIds, sessions'[s].token = "pending"
             PROVE  \/ s \in abandoned'
                    \/ \E p \in Procs : pc'[p] = "backfill" /\ req'[p].new = s
  BY DEF PlaceholderOwned
<1>1. CASE s \in abandoned
  BY <1>1
<1>2. ASSUME NEW p \in Procs, pc[p] = "backfill", req[p].new = s
      PROVE  \/ s \in abandoned'
             \/ \E q \in Procs : pc'[q] = "backfill" /\ req'[q].new = s
  BY <1>2
<1> QED
  BY <1>1, <1>2 DEF PlaceholderOwned

LEMMA StepPlaceholder ==
  PlaceholderOwned /\ TypeInv /\ [Next]_vars => PlaceholderOwned'
<1> SUFFICES ASSUME PlaceholderOwned, TypeInv, [Next]_vars PROVE PlaceholderOwned'
  OBVIOUS
<1>1. ASSUME NEW p \in Procs, Arrive(p)
      PROVE PlaceholderOwned'
  BY <1>1, PlaceholderFrame
  DEF Arrive, LoginRead, RefreshRead, ChangePasswordRead, RefusedRequest, Start, Goto,
      TypeInv, TypeOK, vars, tables, ghosts
<1>2. ASSUME NEW p \in Procs,
             \/ RecordLoginFailure(p)
             \/ RecordLoginSuccess(p)
             \/ RefreshUser(p)
      PROVE PlaceholderOwned'
  BY <1>2, PlaceholderFrame
  DEF RecordLoginFailure, RecordLoginSuccess, RefreshUser, Finish, Goto, TypeInv, TypeOK,
      tables, ghosts
<1>3. ASSUME NEW p \in Procs, CreateSession(p)
      PROVE PlaceholderOwned'
  <2>1. CASE PendingExists
    BY <1>3, <2>1, PlaceholderFrame
    DEF CreateSession, Finish, Goto, TypeInv, TypeOK, tables, ghosts
  <2>2. CASE ~PendingExists /\ InsertSession(p)
    <3>1. lastId + 1 \in SessionIds /\ pc'[p] = "backfill" /\ req'[p].new = lastId + 1
      BY <2>2 DEF InsertSession, Goto, TypeInv, TypeOK, Request
    <3>2. \A s \in SessionIds \ {lastId + 1} : sessions'[s].token # "pending"
      BY <2>2 DEF InsertSession, PendingExists, TypeInv, TypeOK
    <3> QED
      BY <3>1, <3>2 DEF PlaceholderOwned
  <2> QED
    BY <1>3, <2>1, <2>2 DEF CreateSession
<1>4. ASSUME NEW p \in Procs, UpdateRefreshToken(p)
      PROVE PlaceholderOwned'
  <2>1. req[p].new \in SessionIds
    BY <1>4 DEF UpdateRefreshToken, TypeInv, RequestsOK
  <2>2. \A s \in SessionIds : sessions'[s].token = "pending"
                               => s # req[p].new /\ sessions[s].token = "pending"
    BY <1>4, <2>1 DEF UpdateRefreshToken, TypeInv, TypeOK, SessionRow
  <2>3. \A q \in Procs \ {p} : pc'[q] = pc[q] /\ req'[q] = req[q]
    BY <1>4 DEF UpdateRefreshToken, Finish, Goto, TypeInv, TypeOK
  <2>4. abandoned' = abandoned
    BY <1>4 DEF UpdateRefreshToken, ghosts
  <2> QED
    BY <2>2, <2>3, <2>4 DEF PlaceholderOwned
<1>5. ASSUME NEW p \in Procs, RevokeOld(p)
      PROVE PlaceholderOwned'
  <2>1. \A s \in SessionIds : sessions'[s].token = sessions[s].token
    BY <1>5 DEF RevokeOld, TypeInv, TypeOK, SessionRow
  <2> QED
    BY <1>5, <2>1, PlaceholderFrame DEF RevokeOld, Goto, TypeInv, TypeOK, ghosts
<1>6. ASSUME NEW p \in Procs, UpdatePassword(p)
      PROVE PlaceholderOwned'
  <2>1. \A q \in Procs : req'[q].new = req[q].new
    BY <1>6, UpdatePasswordRequests DEF TypeInv
  <2> QED
    BY <1>6, <2>1, PlaceholderFrame DEF UpdatePassword, Goto, TypeInv, TypeOK, tables
<1>7. ASSUME NEW u, RevokeAllByUser(u)
      PROVE \A s \in SessionIds : sessions'[s].token = sessions[s].token
  BY <1>7, RevokeAllFrame DEF TypeInv
<1>8. ASSUME NEW p \in Procs, ChangePasswordRevoke(p)
      PROVE PlaceholderOwned'
  <2>1. \A q \in Procs \ {p} : req'[q].new = req[q].new /\ pc'[q] = pc[q]
    BY <1>8, ChangePasswordRevokeRequests
    DEF ChangePasswordRevoke, Goto, TypeInv, TypeOK
  <2> QED
    BY <1>7, <1>8, <2>1, PlaceholderFrame DEF ChangePasswordRevoke
<1>9. ASSUME NEW u \in Users, LogoutAll(u)
      PROVE PlaceholderOwned'
  <2>1. \A q \in Procs : req'[q].new = req[q].new
    BY <1>9, LogoutAllRequests DEF TypeInv
  <2> QED
    BY <1>7, <1>9, <2>1, PlaceholderFrame DEF LogoutAll
<1>10. ASSUME NEW p \in Procs, StatementFails(p)
       PROVE PlaceholderOwned'
  <2>1. \A q \in Procs \ {p} : pc'[q] = pc[q] /\ req'[q] = req[q]
    BY <1>10 DEF StatementFails, Finish, Goto, TypeInv, TypeOK
  <2>2. pc[p] = "backfill" => req[p].new \in abandoned'
    BY <1>10 DEF StatementFails, LeaveBehind
  <2>3. abandoned \subseteq abandoned' /\ sessions' = sessions
    BY <1>10 DEF StatementFails, LeaveBehind, tables
  <2> QED
    BY <2>1, <2>2, <2>3, PlaceholderFrame
<1>11. ASSUME Crash
       PROVE PlaceholderOwned'
  BY <1>11, PlaceholderFrame DEF Crash, LeaveBehind, tables
<1>12. ASSUME \/ \E s \in SessionIds : Logout(s)
              \/ \E u \in Users, field \in {NotGiven} \cup Statuses : AdminUpdate(u, field)
              \/ Tick
              \/ UNCHANGED vars
       PROVE PlaceholderOwned'
  BY <1>12, PlaceholderFrame
  DEF Logout, ContextSession, AdminUpdate, Tick, vars, tables, ghosts
<1> QED
  BY <1>1, <1>2, <1>3, <1>4, <1>5, <1>6, <1>8, <1>9, <1>10, <1>11, <1>12
  DEF Next, Proceed

\* A row that holds the placeholder belongs to a request about to replace it, or
\* to one that failed.
THEOREM PlaceholderCorrect == Spec => []PlaceholderOwned
<1>1. Spec => []TypeInv
  BY InitType, StepType, PTL DEF Spec
<1>2. Init => PlaceholderOwned
  BY DEF Init, NoRow, PlaceholderOwned
<1> QED
  BY <1>1, <1>2, StepPlaceholder, PTL DEF Spec

-----------------------------------------------------------------------------
(* Sessions that outlive a password change or a logout-all *)

\* What SurvivorsOverlapped says of a session, said as well of a request on its
\* way to creating one, and of sessions whose token is not there yet.
SurvivorInv ==
    /\ \A s \in SessionIds :
          /\ sessions[s].token # "none"
          /\ IsValid(s)
          /\ history[s].outdated
          /\ ~ChangeInProgress(sessions[s].user)
          /\ sessions[s].user \notin halted
          => history[s].overlapped
    /\ \A p \in Procs :
          /\ Creating(p)
          /\ req[p].outdated
          /\ ~ChangeInProgress(req[p].user)
          /\ req[p].user \notin halted
          => req[p].overlapped

LEMMA SurvivorSuffices == SurvivorInv => SurvivorsOverlapped
BY DEF SurvivorInv, SurvivorsOverlapped, Redeemable

\* Steps that outdate nothing, validate nothing, and end no password change
\* without a trace.
LEMMA SurvivorFrame ==
  ASSUME SurvivorInv, TypeInv, TypeInv', now' >= now, halted \subseteq halted',
         \A s \in SessionIds :
            /\ sessions'[s].token # "none" => sessions[s].token # "none"
            /\ sessions'[s].user = sessions[s].user
            /\ sessions'[s].expires = sessions[s].expires
            /\ sessions[s].revoked => sessions'[s].revoked,
         history' = history,
         \A p \in Procs :
            /\ pc[p] = "revokeAll" =>
                  \/ pc'[p] = "revokeAll" /\ req'[p].user = req[p].user
                  \/ req[p].user \in halted'
            /\ Creating(p)' => \/ ~req'[p].outdated
                               \/ Creating(p) /\ req'[p] = req[p]
  PROVE  SurvivorInv'
<1>2. ASSUME NEW s \in SessionIds, IsValid(s)'
      PROVE IsValid(s)
  BY <1>2, BoundsAssumption
  DEF IsValid, TypeInv, TypeOK, SessionRow, Instants, BoundsAreNatural
<1>3. ASSUME NEW s \in SessionIds, sessions'[s].token # "none", IsValid(s)',
             history'[s].outdated, ~ChangeInProgress(sessions[s].user)',
             sessions'[s].user \notin halted'
      PROVE history'[s].overlapped
  <2>1. ~ChangeInProgress(sessions[s].user) /\ sessions[s].user \notin halted
    BY <1>3 DEF ChangeInProgress
  <2> QED
    BY <1>2, <1>3, <2>1 DEF SurvivorInv
<1>4. ASSUME NEW p \in Procs, Creating(p)', req'[p].outdated,
             ~ChangeInProgress(req[p].user)', req'[p].user \notin halted'
      PROVE req'[p].overlapped
  <2>1. Creating(p) /\ req'[p] = req[p]
    BY <1>4
  <2>2. ~ChangeInProgress(req[p].user) /\ req[p].user \notin halted
    BY <1>4, <2>1 DEF ChangeInProgress
  <2> QED
    BY <1>4, <2>1, <2>2 DEF SurvivorInv
<1> QED
  BY <1>3, <1>4 DEF SurvivorInv

LEMMA StepSurvivor ==
  SurvivorInv /\ TypeInv /\ TypeInv' /\ [Next]_vars => SurvivorInv'
<1> SUFFICES ASSUME SurvivorInv, TypeInv, TypeInv', [Next]_vars PROVE SurvivorInv'
  OBVIOUS
<1> USE BoundsAssumption DEF BoundsAreNatural
<1>0. now \in Nat /\ now >= now
  BY DEF TypeInv, TypeOK
<1>1. ASSUME NEW p \in Procs, NEW u \in Users,
             \/ \E matches \in BOOLEAN : LoginRead(p, u, matches)
             \/ ChangePasswordRead(p, u)
      PROVE SurvivorInv'
  BY <1>0, <1>1, SurvivorFrame
  DEF LoginRead, ChangePasswordRead, Start, Goto, Idle, Creating, TypeInv, TypeOK,
      tables, ghosts
<1>2. ASSUME NEW p \in Procs, NEW s \in SessionIds, RefreshRead(p, s)
      PROVE SurvivorInv'
  <2>1. /\ pc[p] = "idle" /\ pc'[p] = "readUser"
        /\ req'[p].user = sessions[s].user
        /\ req'[p].outdated = history[s].outdated
        /\ req'[p].overlapped = history[s].overlapped
        /\ \A q \in Procs \ {p} : pc'[q] = pc[q] /\ req'[q] = req[q]
    BY <1>2 DEF RefreshRead, Start, Goto, TypeInv, TypeOK
  <2>2. /\ now' = now /\ sessions' = sessions /\ history' = history
        /\ halted' = halted
    BY <1>2 DEF RefreshRead, tables, ghosts
  <2>3. \A u : ChangeInProgress(u)' <=> ChangeInProgress(u)
    BY <2>1 DEF ChangeInProgress
  <2>4. /\ history[s].outdated
        /\ ~ChangeInProgress(sessions[s].user)
        /\ sessions[s].user \notin halted
        => history[s].overlapped
    BY <1>2 DEF RefreshRead, Redeemable, SurvivorInv
  <2> QED
    BY <2>1, <2>2, <2>3, <2>4 DEF SurvivorInv, Creating, IsValid
<1>3. ASSUME NEW p \in Procs,
             RecordLoginFailure(p) \/ RecordLoginSuccess(p) \/ RefreshUser(p)
      PROVE SurvivorInv'
  BY <1>0, <1>3, SurvivorFrame
  DEF RecordLoginFailure, RecordLoginSuccess, RefreshUser, Finish, Goto, Creating,
      TypeInv, TypeOK, tables, ghosts
<1>4. ASSUME NEW p \in Procs, CreateSession(p)
      PROVE SurvivorInv'
  <2>1. CASE PendingExists
    BY <1>0, <1>4, <2>1, SurvivorFrame
    DEF CreateSession, Finish, Goto, Creating, TypeInv, TypeOK, tables, ghosts
  <2>2. CASE InsertSession(p)
    <3> DEFINE i == lastId + 1
    <3>1. /\ i \in SessionIds
          /\ sessions'[i].user = req[p].user
          /\ history'[i].outdated = req[p].outdated
          /\ history'[i].overlapped = req[p].overlapped
          /\ \A s \in SessionIds \ {i} : /\ sessions'[s] = sessions[s]
                                         /\ history'[s] = history[s]
      BY <2>2 DEF InsertSession, NewRow, TypeInv, TypeOK
    <3>2. /\ pc'[p] = "backfill"
          /\ \A q \in Procs \ {p} : pc'[q] = pc[q] /\ req'[q] = req[q]
      BY <2>2 DEF InsertSession, Goto, TypeInv, TypeOK
    <3>3. \A u : ChangeInProgress(u)' <=> ChangeInProgress(u)
      BY <1>4, <3>2 DEF CreateSession, ChangeInProgress
    <3>4. now' = now /\ halted' = halted
      BY <2>2 DEF InsertSession
    <3>5. /\ req[p].outdated
          /\ ~ChangeInProgress(req[p].user)
          /\ req[p].user \notin halted
          => req[p].overlapped
      BY <1>4 DEF CreateSession, SurvivorInv, Creating
    <3> QED
      BY <3>1, <3>2, <3>3, <3>4, <3>5 DEF SurvivorInv, Creating, IsValid
  <2> QED
    BY <1>4, <2>1, <2>2 DEF CreateSession
<1>5. ASSUME NEW p \in Procs, UpdateRefreshToken(p)
      PROVE SurvivorInv'
  <2>1. req[p].new \in SessionIds /\ sessions[req[p].new].token # "none"
    BY <1>5 DEF UpdateRefreshToken, TypeInv, RequestsOK, RowsOK
  <2>2. \A s \in SessionIds : /\ sessions'[s].token # "none" => sessions[s].token # "none"
                              /\ sessions'[s].user = sessions[s].user
                              /\ sessions'[s].expires = sessions[s].expires
                              /\ sessions'[s].revoked = sessions[s].revoked
    BY <1>5, <2>1, BackfilledRow
  <2>3. \A q \in Procs : \/ pc'[q] = "idle" /\ pc[q] = "backfill"
                         \/ pc'[q] = pc[q] /\ req'[q] = req[q]
    BY <1>5 DEF UpdateRefreshToken, Finish, Goto, TypeInv, TypeOK
  <2>4. now' = now /\ history' = history /\ halted' = halted
    BY <1>5 DEF UpdateRefreshToken, ghosts
  <2> QED
    BY <1>0, <2>2, <2>3, <2>4, SurvivorFrame DEF Creating
<1>6. ASSUME NEW p \in Procs, RevokeOld(p)
      PROVE SurvivorInv'
  <2>1. \A s \in SessionIds : /\ sessions'[s].token = sessions[s].token
                              /\ sessions'[s].user = sessions[s].user
                              /\ sessions'[s].expires = sessions[s].expires
                              /\ sessions[s].revoked => sessions'[s].revoked
    BY <1>6 DEF RevokeOld, TypeInv, TypeOK, SessionRow
  <2> QED
    BY <1>0, <1>6, <2>1, SurvivorFrame
    DEF RevokeOld, Goto, Creating, TypeInv, TypeOK, ghosts
<1>7. ASSUME NEW p \in Procs, UpdatePassword(p)
      PROVE SurvivorInv'
  <2> DEFINE u == req[p].user
  <2>1. ChangeInProgress(u)'
    <3>1. pc'[p] = "revokeAll"
      BY <1>7 DEF UpdatePassword, Goto, TypeInv, TypeOK
    <3>2. req'[p].user = u
      BY <1>7, UpdatePasswordRequests DEF TypeInv
    <3> QED
      BY <3>1, <3>2 DEF ChangeInProgress
  <2>2. /\ now' = now /\ sessions' = sessions /\ halted' = halted
        /\ \A q \in Procs \ {p} : pc'[q] = pc[q]
        /\ pc[p] = "setPassword" /\ pc'[p] = "revokeAll"
    BY <1>7 DEF UpdatePassword, Goto, TypeInv, TypeOK, tables
  <2>3. \A s \in SessionIds :
          /\ history'[s].overlapped = history[s].overlapped
          /\ sessions[s].user # u => history'[s].outdated = history[s].outdated
    BY <1>7 DEF UpdatePassword, OutdateSessions, TypeInv, TypeOK, Origin
  <2>4. \A q \in Procs :
          /\ req'[q].user = req[q].user
          /\ req'[q].overlapped = req[q].overlapped
          /\ req[q].user # u => req'[q].outdated = req[q].outdated
    <3>1. \A q \in Procs :
            /\ req'[q].user = req[q].user
            /\ req'[q].overlapped = req[q].overlapped
            /\ req'[q].outdated = (req[q].outdated \/ (Creating(q) /\ req[q].user = u))
      BY <1>7, UpdatePasswordRequests DEF TypeInv
    <3>2. \A q \in Procs : req[q].outdated \in BOOLEAN
      BY DEF TypeInv, TypeOK, Request
    <3> QED
      BY <3>1, <3>2
  <2>5. \A v : ChangeInProgress(v) => ChangeInProgress(v)'
    BY <2>2, <2>4 DEF ChangeInProgress
  <2>6. ASSUME NEW s \in SessionIds, sessions'[s].token # "none", IsValid(s)',
               history'[s].outdated, ~ChangeInProgress(sessions[s].user)',
               sessions'[s].user \notin halted'
        PROVE history'[s].overlapped
    <3>1. sessions[s].user # u
      BY <2>1, <2>2, <2>4, <2>6 DEF ChangeInProgress
    <3>2. ~ChangeInProgress(sessions[s].user) /\ sessions[s].user \notin halted
      BY <2>2, <2>5, <2>6
    <3> QED
      BY <2>2, <2>3, <2>6, <3>1, <3>2 DEF SurvivorInv, IsValid
  <2>7. ASSUME NEW q \in Procs, Creating(q)', req'[q].outdated,
               ~ChangeInProgress(req[q].user)', req'[q].user \notin halted'
        PROVE req'[q].overlapped
    <3>1. Creating(q)
      BY <2>2, <2>7 DEF Creating
    <3>2. req[q].user # u
      BY <2>1, <2>4, <2>7
    <3>3. ~ChangeInProgress(req[q].user) /\ req[q].user \notin halted
      BY <2>2, <2>4, <2>5, <2>7
    <3> QED
      BY <2>4, <2>7, <3>1, <3>2, <3>3 DEF SurvivorInv
  <2> QED
    BY <2>6, <2>7 DEF SurvivorInv
<1>8. ASSUME NEW u \in Users, RevokeAllByUser(u), now' = now,
             halted' = halted \ {u},
             \A s \in SessionIds :
                IF sessions[s].user = u
                THEN history'[s].overlapped = (sessions[s].expires = now)
                ELSE /\ history'[s].overlapped = history[s].overlapped
                     /\ history'[s].outdated = history[s].outdated,
             \A q \in Procs :
                IF Creating(q) /\ req[q].user = u
                THEN Creating(q)' => req'[q].overlapped
                ELSE Creating(q)' => /\ Creating(q)
                                     /\ req'[q].user = req[q].user
                                     /\ req'[q].overlapped = req[q].overlapped
                                     /\ req'[q].outdated = req[q].outdated,
             \A v : v # u => (ChangeInProgress(v)' <=> ChangeInProgress(v))
      PROVE SurvivorInv'
  <2>1. \A s \in SessionIds :
          /\ sessions'[s].user = sessions[s].user
          /\ sessions'[s].token = sessions[s].token
          /\ sessions'[s].expires = sessions[s].expires
          /\ sessions'[s].revoked = (sessions[s].revoked \/ RevokedByAll(s, u))
    BY <1>8, RevokeAllFrame DEF TypeInv
  <2>2. ASSUME NEW s \in SessionIds, sessions'[s].token # "none", IsValid(s)',
               history'[s].outdated, ~ChangeInProgress(sessions[s].user)',
               sessions'[s].user \notin halted'
        PROVE history'[s].overlapped
    <3>1. CASE sessions[s].user = u
      <4>1. sessions[s].expires <= now
        BY <1>0, <2>1, <2>2, <3>1
        DEF IsValid, RevokedByAll, TypeInv, TypeOK, SessionRow, Instants
      <4>2. sessions[s].expires >= now
        BY <1>8, <2>1, <2>2 DEF IsValid
      <4>3. sessions[s].expires \in Int
        BY DEF TypeInv, TypeOK, SessionRow, Instants
      <4>4. sessions[s].expires = now
        BY <1>0, <4>1, <4>2, <4>3
      <4> QED
        BY <1>8, <3>1, <4>4
    <3>2. CASE sessions[s].user # u
      <4>1. ~ChangeInProgress(sessions[s].user) /\ sessions[s].user \notin halted
        BY <1>8, <2>1, <2>2, <3>2
      <4>2. IsValid(s)
        BY <1>8, <2>1, <2>2 DEF IsValid
      <4> QED
        BY <1>8, <2>1, <2>2, <3>2, <4>1, <4>2 DEF SurvivorInv
    <3> QED
      BY <3>1, <3>2
  <2>3. ASSUME NEW q \in Procs, Creating(q)', req'[q].outdated,
               ~ChangeInProgress(req[q].user)', req'[q].user \notin halted'
        PROVE req'[q].overlapped
    <3>1. CASE req[q].user = u
      BY <1>8, <2>3, <3>1
    <3>2. CASE req[q].user # u
      <4>1. /\ Creating(q) /\ req'[q].user = req[q].user
            /\ req'[q].overlapped = req[q].overlapped
            /\ req'[q].outdated = req[q].outdated
        BY <1>8, <2>3, <3>2
      <4>2. ~ChangeInProgress(req[q].user) /\ req[q].user \notin halted
        BY <1>8, <2>3, <3>2, <4>1
      <4> QED
        BY <2>3, <4>1, <4>2 DEF SurvivorInv
    <3> QED
      BY <3>1, <3>2
  <2> QED
    BY <2>2, <2>3 DEF SurvivorInv
<1>9. ASSUME NEW p \in Procs, ChangePasswordRevoke(p)
      PROVE SurvivorInv'
  <2> DEFINE u == req[p].user
  <2>1. u \in Users /\ RevokeAllByUser(u) /\ now' = now /\ halted' = halted \ {u}
    BY <1>9 DEF ChangePasswordRevoke, TypeInv, RequestsOK
  <2>2. \A s \in SessionIds :
           IF sessions[s].user = u
           THEN history'[s].overlapped = (sessions[s].expires = now)
           ELSE /\ history'[s].overlapped = history[s].overlapped
                /\ history'[s].outdated = history[s].outdated
    BY <1>9 DEF ChangePasswordRevoke, OverlapSessions, TypeInv, TypeOK, Origin
  <2>3. /\ pc[p] = "revokeAll" /\ pc'[p] = "idle"
        /\ \A q \in Procs \ {p} : pc'[q] = pc[q]
    BY <1>9 DEF ChangePasswordRevoke, Goto, TypeInv, TypeOK
  <2>4. \A q \in Procs \ {p} :
           /\ req'[q].user = req[q].user
           /\ req'[q].outdated = req[q].outdated
           /\ IF Creating(q) /\ req[q].user = u
              THEN req'[q].overlapped
              ELSE req'[q].overlapped = req[q].overlapped
    <3>1. ASSUME NEW q \in Procs \ {p}
          PROVE  /\ req'[q].user = req[q].user
                 /\ req'[q].outdated = req[q].outdated
                 /\ req'[q].overlapped
                      = (req[q].overlapped \/ (Creating(q) /\ req[q].user = u))
      BY <1>9, ChangePasswordRevokeRequests DEF TypeInv
    <3>2. \A q \in Procs : req[q].overlapped \in BOOLEAN
      BY DEF TypeInv, TypeOK, Request
    <3> QED
      BY <3>1, <3>2
  <2>5. \A q \in Procs :
           IF Creating(q) /\ req[q].user = u
           THEN Creating(q)' => req'[q].overlapped
           ELSE Creating(q)' => /\ Creating(q)
                                /\ req'[q].user = req[q].user
                                /\ req'[q].overlapped = req[q].overlapped
                                /\ req'[q].outdated = req[q].outdated
    BY <2>3, <2>4 DEF Creating
  <2>6. \A v : v # u => (ChangeInProgress(v)' <=> ChangeInProgress(v))
    BY <2>3, <2>4 DEF ChangeInProgress
  <2> QED
    BY <1>8, <2>1, <2>2, <2>5, <2>6
<1>10. ASSUME NEW u \in Users, LogoutAll(u)
       PROVE SurvivorInv'
  <2>1. RevokeAllByUser(u) /\ now' = now /\ halted' = halted \ {u} /\ pc' = pc
    BY <1>10 DEF LogoutAll
  <2>2. \A s \in SessionIds :
           IF sessions[s].user = u
           THEN history'[s].overlapped = (sessions[s].expires = now)
           ELSE /\ history'[s].overlapped = history[s].overlapped
                /\ history'[s].outdated = history[s].outdated
    BY <1>10 DEF LogoutAll, OverlapSessions, OutdateSessions, TypeInv, TypeOK, Origin
  <2>3. \A q \in Procs :
           /\ req'[q].user = req[q].user
           /\ IF Creating(q) /\ req[q].user = u
              THEN req'[q].overlapped
              ELSE /\ req'[q].overlapped = req[q].overlapped
                   /\ req'[q].outdated = req[q].outdated
    <3>1. ASSUME NEW q \in Procs
          PROVE  /\ req'[q].user = req[q].user
                 /\ req'[q].outdated = (req[q].outdated \/ (Creating(q) /\ req[q].user = u))
                 /\ req'[q].overlapped
                      = (req[q].overlapped \/ (Creating(q) /\ req[q].user = u))
      BY <1>10, LogoutAllRequests DEF TypeInv
    <3>2. \A q \in Procs : /\ req[q].outdated \in BOOLEAN
                           /\ req[q].overlapped \in BOOLEAN
      BY DEF TypeInv, TypeOK, Request
    <3> QED
      BY <3>1, <3>2
  <2>4. \A q \in Procs : Creating(q)' <=> Creating(q)
    BY <2>1 DEF Creating
  <2>5. \A v : ChangeInProgress(v)' <=> ChangeInProgress(v)
    BY <2>1, <2>3 DEF ChangeInProgress
  <2> QED
    BY <1>8, <2>1, <2>2, <2>3, <2>4, <2>5
<1>11. ASSUME NEW p \in Procs, StatementFails(p)
       PROVE SurvivorInv'
  <2>1. \A q \in Procs \ {p} : pc'[q] = pc[q] /\ req'[q] = req[q]
    BY <1>11 DEF StatementFails, Finish, Goto, TypeInv, TypeOK
  <2>2. Creating(p)' => Creating(p) /\ req'[p] = req[p]
    BY <1>11 DEF StatementFails, Finish, Goto, Creating, TypeInv, TypeOK
  <2>3. pc[p] = "revokeAll" => req[p].user \in halted'
    BY <1>11 DEF StatementFails, LeaveBehind
  <2>4. /\ now' = now /\ sessions' = sessions /\ history' = history
        /\ halted \subseteq halted'
    BY <1>11 DEF StatementFails, LeaveBehind, tables
  <2>5. \A q \in Procs \ {p} : Creating(q)' <=> Creating(q)
    BY <2>1 DEF Creating
  <2> QED
    BY <1>0, <2>1, <2>2, <2>3, <2>4, <2>5, SurvivorFrame
<1>12. ASSUME Crash
       PROVE SurvivorInv'
  BY <1>0, <1>12, SurvivorFrame DEF Crash, LeaveBehind, Creating, tables
<1>13. ASSUME UNCHANGED <<sessions, pc, req, history, halted>>, now' >= now
       PROVE SurvivorInv'
  BY <1>13, SurvivorFrame DEF Creating
<1>14. ASSUME \/ \E s \in SessionIds : Logout(s)
              \/ \E u \in Users, field \in {NotGiven} \cup Statuses : AdminUpdate(u, field)
              \/ Tick
              \/ UNCHANGED vars
       PROVE SurvivorInv'
  BY <1>0, <1>13, <1>14
  DEF Logout, ContextSession, AdminUpdate, Tick, vars, tables, ghosts
<1> QED
  BY <1>1, <1>2, <1>3, <1>4, <1>5, <1>6, <1>7, <1>9, <1>10, <1>11, <1>12, <1>14
  DEF Next, Arrive, Proceed, RefusedRequest

\* Only a session that was being created, or at the instant of its expiry, when
\* the user's sessions were revoked outlives that revocation.
THEOREM SurvivorsCorrect == Spec => []SurvivorsOverlapped
<1>1. Spec => []TypeInv
  BY InitType, StepType, PTL DEF Spec
<1>2. Init => SurvivorInv
  BY DEF Init, NoRow, NoOrigin, Idle, SurvivorInv, Creating
<1>3. Spec => []SurvivorInv
  BY <1>1, <1>2, StepSurvivor, PTL DEF Spec
<1> QED
  BY <1>3, SurvivorSuffices, PTL

-----------------------------------------------------------------------------
(* Account locking *)

\* What a step can do to an account: nothing it matters here, a counted failure, a
\* login that clears the count, or an administrator's write to the status.
LEMMA AccountSteps ==
  ASSUME TypeInv, [Next]_vars
  PROVE  \/ UNCHANGED users
         \/ \E p \in Procs : RecordLoginFailure(p) \/ RecordLoginSuccess(p)
         \/ \E u \in Users, field \in {NotGiven} \cup Statuses : AdminUpdate(u, field)
<1>1. ASSUME NEW p \in Procs, CreateSession(p)
      PROVE  UNCHANGED users
  BY <1>1 DEF CreateSession, InsertSession, tables
<1>2. ASSUME NEW p \in Procs, Arrive(p)
      PROVE  UNCHANGED users
  BY <1>2 DEF Arrive, LoginRead, RefreshRead, ChangePasswordRead, RefusedRequest,
              vars, tables
<1>3. ASSUME NEW p \in Procs,
             \/ UpdateRefreshToken(p) \/ RefreshUser(p) \/ RevokeOld(p)
             \/ UpdatePassword(p) \/ ChangePasswordRevoke(p) \/ StatementFails(p)
      PROVE  UNCHANGED users
  BY <1>3 DEF UpdateRefreshToken, RefreshUser, RevokeOld, UpdatePassword,
              ChangePasswordRevoke, StatementFails, tables
<1>4. ASSUME \/ \E s \in SessionIds : Logout(s)
             \/ \E u \in Users : LogoutAll(u)
             \/ Crash \/ Tick \/ UNCHANGED vars
      PROVE  UNCHANGED users
  BY <1>4 DEF Logout, LogoutAll, Crash, Tick, vars, tables
<1> QED
  BY <1>1, <1>2, <1>3, <1>4 DEF Next, Proceed

LEMMA StepLock == TypeInv /\ LockEngaged /\ [Next]_vars => LockEngaged'
<1> SUFFICES ASSUME TypeInv, LockEngaged, [Next]_vars PROVE LockEngaged'
  OBVIOUS
<1> USE LimitsAssumption, BoundsAssumption DEF BoundsAreNatural, Null
<1>1. CASE UNCHANGED users
  BY <1>1 DEF LockEngaged
<1>2. ASSUME NEW p \in Procs, RecordLoginFailure(p)
      PROVE LockEngaged'
  <2> DEFINE v == req[p].user
  <2>1. v \in Users /\ users[v].failed \in 0 .. MaxFailures /\ now \in Nat
    BY <1>2 DEF RecordLoginFailure, TypeInv, TypeOK, RequestsOK, UserRow
  <2>2. users'[v].failed >= MaxAttempts => users'[v].lockedUntil # Null
    <3>1. CASE ThresholdReached(v)
      <4>1. users'[v].lockedUntil = now + LockTicks
        BY <1>2, <2>1, <3>1 DEF RecordLoginFailure, TypeInv, TypeOK
      <4> QED
        BY <2>1, <4>1
    <3>2. CASE ~ThresholdReached(v)
      <4>1. users'[v].failed = IF users[v].failed < MaxFailures
                               THEN users[v].failed + 1 ELSE MaxFailures
        BY <1>2, <2>1 DEF RecordLoginFailure, TypeInv, TypeOK
      <4> QED
        BY <2>1, <3>2, <4>1 DEF ThresholdReached
    <3> QED
      BY <3>1, <3>2
  <2>3. \A u \in Users \ {v} : users'[u] = users[u]
    BY <1>2 DEF RecordLoginFailure, TypeInv, TypeOK
  <2> QED
    BY <2>2, <2>3 DEF LockEngaged
<1>3. ASSUME NEW p \in Procs, RecordLoginSuccess(p)
      PROVE LockEngaged'
  <2>1. \A u \in Users : users'[u] = users[u] \/ users'[u].failed = 0
    BY <1>3 DEF RecordLoginSuccess, TypeInv, TypeOK
  <2> QED
    BY <2>1 DEF LockEngaged
<1>4. ASSUME NEW u \in Users, NEW field \in {NotGiven} \cup Statuses,
             AdminUpdate(u, field)
      PROVE LockEngaged'
  <2>1. \A v \in Users : /\ users'[v].failed = users[v].failed
                         /\ users'[v].lockedUntil = users[v].lockedUntil
    BY <1>4 DEF AdminUpdate, TypeInv, TypeOK, UserRow
  <2> QED
    BY <2>1 DEF LockEngaged
<1> QED
  BY <1>1, <1>2, <1>3, <1>4, AccountSteps

\* Whatever logins and administrators interleave, a count at the threshold and a lock
\* deadline come together: no failure slips past the comparison in the UPDATE.
THEOREM LockCorrect == Spec => []LockEngaged
<1>1. Spec => []TypeInv
  BY InitType, StepType, PTL DEF Spec
<1>2. Init => LockEngaged
  BY LimitsAssumption DEF Init, LockEngaged
<1> QED
  BY <1>1, <1>2, StepLock, PTL DEF Spec

\* Of the statements that write an account, only an administrator's takes it from
\* Disabled to Enabled.
THEOREM DisabledCorrect == Spec => DisabledLeavesByLockOrAdmin
<1> DEFINE Enables(u) == /\ users[u].status = Disabled
                         /\ users'[u].status \notin {Disabled, Locked}
           Kept == \A u \in Users : Enables(u) => \E field \in Statuses : AdminUpdate(u, field)
<1>1. TypeInv /\ [Next]_vars => [Kept]_vars
  <2> SUFFICES ASSUME TypeInv, [Next]_vars PROVE Kept
    OBVIOUS
  <2>1. CASE UNCHANGED users
    BY <2>1
  <2>2. ASSUME NEW p \in Procs, RecordLoginFailure(p) \/ RecordLoginSuccess(p)
        PROVE  \A u \in Users : users'[u].status \in {users[u].status, Locked}
                                \/ users[u].status = Locked
    BY <2>2 DEF RecordLoginFailure, RecordLoginSuccess, TypeInv, TypeOK
  <2>3. ASSUME NEW v \in Users, NEW field \in {NotGiven} \cup Statuses,
               AdminUpdate(v, field), NEW u \in Users, Enables(u)
        PROVE  u = v /\ field \in Statuses
    BY <2>3 DEF AdminUpdate, WrittenStatus, TypeInv, TypeOK, UserRow
  <2> QED
    BY <2>1, <2>2, <2>3, AccountSteps DEF Disabled, Locked
<1>2. Spec => []TypeInv
  BY InitType, StepType, PTL DEF Spec
<1> QED
  BY <1>1, <1>2, PTL DEF Spec, DisabledLeavesByLockOrAdmin

-----------------------------------------------------------------------------
(* Racing refreshes *)

Successors(s) == {t \in SessionIds : history[t].parent = s}
Heirs(s) == {p \in Procs : Creating(p) /\ req[p].old = s}

\* The successors a session has and the requests that may still give it one are
\* together no more than the requests there are: the first successor comes after the
\* revocation, and from then on no request redeems the session any more.
FanOutInv ==
    \A s \in SessionIds :
        Cardinality(Successors(s)) + Cardinality(Heirs(s)) <= Cardinality(Procs)

\* The sets are finite, so that their parts have no more elements.
LEMMA FanOutFinite ==
  /\ IsFiniteSet(SessionIds) /\ Cardinality(Procs) \in Nat
  /\ \A s : /\ IsFiniteSet(Successors(s)) /\ Cardinality(Successors(s)) \in Nat
            /\ IsFiniteSet(Heirs(s)) /\ Cardinality(Heirs(s)) \in Nat
            /\ Cardinality(Heirs(s)) <= Cardinality(Procs)
<1>1. IsFiniteSet(SessionIds)
  BY FS_Interval, BoundsAssumption DEF SessionIds, BoundsAreNatural
<1>2. ASSUME NEW s
      PROVE  /\ IsFiniteSet(Successors(s)) /\ IsFiniteSet(Heirs(s))
             /\ Cardinality(Heirs(s)) <= Cardinality(Procs)
  <2>1. Successors(s) \in SUBSET SessionIds /\ Heirs(s) \in SUBSET Procs
    BY DEF Successors, Heirs
  <2> QED
    BY <1>1, <2>1, FS_Subset, ProcsAssumption
<1> QED
  BY <1>1, <1>2, FS_CardinalityType, ProcsAssumption

LEMMA InitFanOut == Init => FanOutInv
<1> SUFFICES ASSUME Init, NEW s \in SessionIds
             PROVE  Cardinality(Successors(s)) + Cardinality(Heirs(s)) <= Cardinality(Procs)
  BY DEF FanOutInv
<1>1. Successors(s) = {} /\ Heirs(s) = {}
  BY BoundsAssumption
  DEF Init, Successors, Heirs, Creating, NoOrigin, SessionIds, NoSession, BoundsAreNatural
<1> QED
  BY <1>1, FS_EmptySet, FanOutFinite

\* Steps that give a session neither a successor nor a request that may create one.
HeirFrame ==
    /\ \A s \in SessionIds : history'[s].parent = history[s].parent
    /\ \A p \in Procs : Creating(p)' /\ req'[p].old # NoSession
                           => Creating(p) /\ req'[p].old = req[p].old

LEMMA HeirFrameSets ==
  ASSUME HeirFrame, NEW s \in SessionIds
  PROVE  Successors(s)' = Successors(s) /\ Heirs(s)' \in SUBSET Heirs(s)
<1>1. s # NoSession
  BY DEF SessionIds, NoSession
<1> QED
  BY <1>1 DEF HeirFrame, Successors, Heirs

\* A request becomes one that may create a successor by reading a token, and a session
\* becomes a successor by being inserted; every other step is a frame.
LEMMA HeirSteps ==
  ASSUME TypeInv, [Next]_vars
  PROVE  \/ HeirFrame
         \/ \E p \in Procs, s \in SessionIds : RefreshRead(p, s)
         \/ \E p \in Procs : CreateSession(p) /\ InsertSession(p)
<1> SUFFICES ASSUME ~ \E p \in Procs, s \in SessionIds : RefreshRead(p, s),
                    ~ \E p \in Procs : CreateSession(p) /\ InsertSession(p)
             PROVE  HeirFrame
  OBVIOUS
<1>1. ASSUME NEW p \in Procs, Finish(p), UNCHANGED history
      PROVE HeirFrame
  <2>1. pc'[p] = "idle" /\ \A q \in Procs \ {p} : pc'[q] = pc[q] /\ req'[q] = req[q]
    BY <1>1 DEF Finish, Goto, TypeInv, TypeOK
  <2> QED
    BY <1>1, <2>1 DEF HeirFrame, Creating
<1>2. ASSUME NEW p \in Procs, NEW step, Goto(p, step), UNCHANGED <<req, history>>,
             Creating(p) \/ step \notin {"recordSuccess", "readUser", "revokeOld", "create"}
      PROVE HeirFrame
  <2>1. pc'[p] = step /\ \A q \in Procs \ {p} : pc'[q] = pc[q]
    BY <1>2 DEF Goto, TypeInv, TypeOK
  <2> QED
    BY <1>2, <2>1 DEF HeirFrame, Creating
<1>3. ASSUME NEW p \in Procs, NEW step, NEW u, Start(p, step, [Idle EXCEPT !.user = u]),
             UNCHANGED history
      PROVE HeirFrame
  <2>1. /\ req'[p].old = NoSession
        /\ \A q \in Procs \ {p} : pc'[q] = pc[q] /\ req'[q] = req[q]
    BY <1>3 DEF Start, Goto, Idle, TypeInv, TypeOK
  <2> QED
    BY <1>3, <2>1 DEF HeirFrame, Creating
<1>4. ASSUME NEW p \in Procs, Arrive(p)
      PROVE HeirFrame
  <2>1. CASE RefusedRequest(p)
    BY <2>1 DEF HeirFrame, RefusedRequest, Creating, vars, ghosts
  <2> QED
    BY <1>3, <1>4, <2>1 DEF Arrive, LoginRead, ChangePasswordRead, ghosts
<1>5. ASSUME NEW p \in Procs,
             \/ RecordLoginFailure(p) \/ RecordLoginSuccess(p) \/ CreateSession(p)
             \/ UpdateRefreshToken(p) \/ RefreshUser(p) \/ RevokeOld(p)
      PROVE HeirFrame
  <2>1. CASE RecordLoginFailure(p) \/ UpdateRefreshToken(p)
    BY <1>1, <2>1 DEF RecordLoginFailure, UpdateRefreshToken, ghosts
  <2>2. CASE RecordLoginSuccess(p) \/ RevokeOld(p)
    BY <1>2, <2>2 DEF RecordLoginSuccess, RevokeOld, Creating, ghosts
  <2>3. CASE RefreshUser(p)
    BY <1>1, <1>2, <2>3 DEF RefreshUser, Creating, ghosts
  <2>4. CASE CreateSession(p)
    BY <1>1, <2>4 DEF CreateSession, ghosts
  <2> QED
    BY <1>5, <2>1, <2>2, <2>3, <2>4
<1>6. ASSUME NEW p \in Procs, UpdatePassword(p)
      PROVE HeirFrame
  <2>1. \A s \in SessionIds : history'[s].parent = history[s].parent
    BY <1>6, RevokingHistories DEF TypeInv
  <2>2. \A q \in Procs : req'[q].old = req[q].old /\ (Creating(q)' => Creating(q))
    BY <1>6, UpdatePasswordRequests DEF UpdatePassword, Goto, Creating, TypeInv, TypeOK
  <2> QED
    BY <2>1, <2>2 DEF HeirFrame
<1>7. ASSUME NEW p \in Procs, ChangePasswordRevoke(p)
      PROVE HeirFrame
  <2>1. \A s \in SessionIds : history'[s].parent = history[s].parent
    BY <1>7, RevokingHistories DEF TypeInv
  <2>2. pc'[p] = "idle" /\ \A q \in Procs \ {p} : pc'[q] = pc[q] /\ req'[q].old = req[q].old
    BY <1>7, ChangePasswordRevokeRequests
    DEF ChangePasswordRevoke, Goto, TypeInv, TypeOK
  <2> QED
    BY <2>1, <2>2 DEF HeirFrame, Creating
<1>8. ASSUME NEW u \in Users, LogoutAll(u)
       PROVE HeirFrame
  <2>1. \A s \in SessionIds : history'[s].parent = history[s].parent
    BY <1>8, RevokingHistories DEF TypeInv
  <2>2. \A q \in Procs : req'[q].old = req[q].old /\ pc'[q] = pc[q]
    BY <1>8, LogoutAllRequests DEF LogoutAll, TypeInv
  <2> QED
    BY <2>1, <2>2 DEF HeirFrame, Creating
<1>9. ASSUME NEW p \in Procs, StatementFails(p)
       PROVE HeirFrame
  BY <1>1, <1>2, <1>9 DEF StatementFails, LeaveBehind, Creating
<1>10. ASSUME Crash
       PROVE HeirFrame
  BY <1>10 DEF HeirFrame, Crash, LeaveBehind, Creating
<1>11. ASSUME UNCHANGED <<pc, req, history>>
       PROVE HeirFrame
  BY <1>11 DEF HeirFrame, Creating
<1>12. ASSUME \/ \E s \in SessionIds : Logout(s)
              \/ \E u \in Users, field \in {NotGiven} \cup Statuses : AdminUpdate(u, field)
              \/ Tick
              \/ UNCHANGED vars
       PROVE HeirFrame
  BY <1>11, <1>12 DEF Logout, AdminUpdate, Tick, vars, ghosts
<1> QED
  BY <1>4, <1>5, <1>6, <1>7, <1>8, <1>9, <1>10, <1>12 DEF Next, Proceed

LEMMA FanOutFrame ==
  ASSUME FanOutInv, HeirFrame
  PROVE  FanOutInv'
<1> SUFFICES ASSUME NEW s \in SessionIds
             PROVE  Cardinality(Successors(s)') + Cardinality(Heirs(s)')
                        <= Cardinality(Procs)
  BY DEF FanOutInv
<1>1. Successors(s)' = Successors(s) /\ Heirs(s)' \in SUBSET Heirs(s)
  BY HeirFrameSets
<1>2. Cardinality(Heirs(s)') \in Nat /\ Cardinality(Heirs(s)') <= Cardinality(Heirs(s))
  BY <1>1, FanOutFinite, FS_Subset, FS_CardinalityType
<1> QED
  BY <1>1, <1>2, FanOutFinite DEF FanOutInv

LEMMA StepFanOut == FanOutInv /\ RotationInv /\ TypeInv /\ [Next]_vars => FanOutInv'
<1> SUFFICES ASSUME FanOutInv, RotationInv, TypeInv, [Next]_vars PROVE FanOutInv'
  OBVIOUS
<1>1. ASSUME NEW p \in Procs, NEW s \in SessionIds, RefreshRead(p, s)
      PROVE FanOutInv'
  <2>1. /\ pc[p] = "idle" /\ ~sessions[s].revoked /\ history' = history
        /\ pc' = [pc EXCEPT ![p] = "readUser"]
        /\ req'[p].old = s /\ \A q \in Procs \ {p} : req'[q] = req[q]
    BY <1>1 DEF RefreshRead, Redeemable, IsValid, Start, Goto, TypeInv, TypeOK, ghosts
  <2>2. \A q \in Procs \ {p} : Creating(q)' <=> Creating(q)
    BY <2>1 DEF Creating
  <2>3. ASSUME NEW t \in SessionIds
        PROVE  Cardinality(Successors(t)') + Cardinality(Heirs(t)') <= Cardinality(Procs)
    <3>1. Successors(t)' = Successors(t)
      BY <2>1 DEF Successors
    <3>2. CASE t = s
      <4>1. Successors(s) = {}
        BY <2>1 DEF RotationInv, PredecessorRevoked, Successors, NoSession, SessionIds
      <4>2. Heirs(t)' \in SUBSET Procs
        BY DEF Heirs
      <4>3. Cardinality(Heirs(t)') <= Cardinality(Procs)
            /\ Cardinality(Heirs(t)') \in Nat
        BY <4>2, ProcsAssumption, FS_Subset, FS_CardinalityType
      <4> QED
        BY <3>1, <3>2, <4>1, <4>3, FS_EmptySet
    <3>3. CASE t # s
      <4>1. Heirs(t)' = Heirs(t)
        <5>1. p \notin Heirs(t) /\ p \notin Heirs(t)'
          BY <2>1, <3>3 DEF Heirs, Creating
        <5> QED
          BY <2>1, <2>2, <5>1 DEF Heirs
      <4> QED
        BY <3>1, <4>1 DEF FanOutInv
    <3> QED
      BY <3>2, <3>3
  <2> QED
    BY <2>3 DEF FanOutInv
<1>2. ASSUME NEW p \in Procs, CreateSession(p), InsertSession(p)
      PROVE FanOutInv'
  <2> DEFINE i == lastId + 1
             u == req[p].old
  <2>1. /\ i \in SessionIds /\ pc[p] = "create" /\ history'[i].parent = u
        /\ \A s \in SessionIds \ {i} : history'[s] = history[s]
        /\ \A q \in Procs : req'[q].old = req[q].old
        /\ pc'[p] = "backfill" /\ \A q \in Procs \ {p} : pc'[q] = pc[q]
    BY <1>2 DEF CreateSession, InsertSession, Goto, TypeInv, TypeOK, Request
  <2> HIDE DEF i
  <2>2. ~Creating(p)' /\ Creating(p) /\ \A q \in Procs \ {p} : Creating(q)' <=> Creating(q)
    BY <2>1 DEF Creating
  <2>3. ASSUME NEW t \in SessionIds
        PROVE  Cardinality(Successors(t)') + Cardinality(Heirs(t)') <= Cardinality(Procs)
    <3>1. CASE t = u
      <4>1. Successors(t)' = Successors(t) \cup {i}
        BY <2>1, <3>1 DEF Successors
      <4>2. p \in Heirs(t) /\ Heirs(t)' = Heirs(t) \ {p}
        BY <2>1, <2>2, <3>1 DEF Heirs
      <4>3. Cardinality(Successors(t)') <= Cardinality(Successors(t)) + 1
            /\ Cardinality(Successors(t)') \in Nat
        <5>1. IsFiniteSet(Successors(t)) /\ Cardinality(Successors(t)) \in Nat
          BY FanOutFinite
        <5>2. Cardinality(Successors(t) \cup {i})
                 = IF i \in Successors(t) THEN Cardinality(Successors(t))
                                         ELSE Cardinality(Successors(t)) + 1
          BY <5>1, FS_AddElement
        <5> QED
          BY <4>1, <5>1, <5>2
      <4>4. Cardinality(Heirs(t)') = Cardinality(Heirs(t)) - 1
        BY <4>2, FanOutFinite, FS_RemoveElement
      <4> QED
        BY <4>3, <4>4, FanOutFinite DEF FanOutInv
    <3>2. CASE t # u
      <4>1. Successors(t)' \in SUBSET Successors(t)
        BY <2>1, <3>2 DEF Successors
      <4>2. Heirs(t)' \in SUBSET Heirs(t)
        BY <2>1, <2>2 DEF Heirs
      <4>3. /\ Cardinality(Successors(t)') <= Cardinality(Successors(t))
            /\ Cardinality(Heirs(t)') <= Cardinality(Heirs(t))
            /\ Cardinality(Successors(t)') \in Nat /\ Cardinality(Heirs(t)') \in Nat
        BY <4>1, <4>2, FanOutFinite, FS_Subset, FS_CardinalityType
      <4> QED
        BY <4>3, FanOutFinite DEF FanOutInv
    <3> QED
      BY <3>1, <3>2
  <2> QED
    BY <2>3 DEF FanOutInv
<1> QED
  BY <1>1, <1>2, HeirSteps, FanOutFrame

\* Requests that race on one refresh token give it at most one successor each.
THEOREM FanOutCorrect == Spec => []FanOutBounded
<1>1. FanOutInv => FanOutBounded
  <2> SUFFICES ASSUME FanOutInv, NEW s \in SessionIds
               PROVE  Cardinality({t \in SessionIds : history[t].parent = s})
                          <= Cardinality(Procs)
    BY DEF FanOutBounded
  <2>1. Cardinality(Successors(s)) <= Cardinality(Procs)
    BY FanOutFinite DEF FanOutInv
  <2> QED
    BY <2>1 DEF Successors
<1>2. Spec => [](TypeInv /\ RotationInv)
  BY InitType, StepType, InitRotation, StepRotation, PTL DEF Spec
<1> QED
  BY <1>1, <1>2, InitFanOut, StepFanOut, PTL DEF Spec

-----------------------------------------------------------------------------
(* When rotation is monotonic *)

\* No two requests are between reading the same token and creating its successor.
RefreshesSerialised == \A s \in SessionIds : \A p, q \in Heirs(s) : p = q

\* A session has one successor or one request about to give it one, and not both.
SerialInv ==
    \A s \in SessionIds :
        /\ \A t, u \in Successors(s) : t = u
        /\ Successors(s) = {} \/ Heirs(s) = {}

LEMMA InitSerial == Init => SerialInv
BY BoundsAssumption
DEF Init, SerialInv, Successors, Heirs, Creating, NoOrigin, SessionIds, NoSession,
    BoundsAreNatural

LEMMA StepSerial ==
  ASSUME SerialInv, RefreshesSerialised, RotationInv, TypeInv, [Next]_vars
  PROVE  SerialInv'
<1>1. CASE HeirFrame
  <2> SUFFICES ASSUME NEW s \in SessionIds
               PROVE  /\ \A t, u \in Successors(s)' : t = u
                      /\ Successors(s)' = {} \/ Heirs(s)' = {}
    BY DEF SerialInv
  <2>1. Successors(s)' = Successors(s) /\ Heirs(s)' \in SUBSET Heirs(s)
    BY <1>1, HeirFrameSets
  <2> QED
    BY <2>1 DEF SerialInv
<1>2. ASSUME NEW p \in Procs, NEW s \in SessionIds, RefreshRead(p, s)
      PROVE  SerialInv'
  <2>1. /\ pc[p] = "idle" /\ ~sessions[s].revoked /\ history' = history
        /\ pc' = [pc EXCEPT ![p] = "readUser"]
        /\ req'[p].old = s /\ \A q \in Procs \ {p} : req'[q] = req[q]
    BY <1>2 DEF RefreshRead, Redeemable, IsValid, Start, Goto, TypeInv, TypeOK, ghosts
  <2>2. Successors(s) = {}
    BY <2>1 DEF RotationInv, PredecessorRevoked, Successors, NoSession, SessionIds
  <2>3. ASSUME NEW t \in SessionIds
        PROVE  Successors(t)' = Successors(t) /\ (t # s => Heirs(t)' \in SUBSET Heirs(t))
    BY <2>1 DEF Successors, Heirs, Creating, TypeInv, TypeOK
  <2> QED
    BY <2>2, <2>3 DEF SerialInv
<1>3. ASSUME NEW p \in Procs, CreateSession(p), InsertSession(p)
      PROVE  SerialInv'
  <2> DEFINE i == lastId + 1
             u == req[p].old
  <2>1. /\ i \in SessionIds /\ pc[p] = "create" /\ history'[i].parent = u
        /\ \A s \in SessionIds \ {i} : history'[s] = history[s]
        /\ \A q \in Procs : req'[q].old = req[q].old
        /\ pc'[p] = "backfill" /\ \A q \in Procs \ {p} : pc'[q] = pc[q]
    BY <1>3 DEF CreateSession, InsertSession, Goto, TypeInv, TypeOK, Request
  <2> HIDE DEF i
  <2>2. ~Creating(p)' /\ Creating(p) /\ \A q \in Procs \ {p} : Creating(q)' <=> Creating(q)
    BY <2>1 DEF Creating
  <2>3. ASSUME NEW s \in SessionIds
        PROVE  /\ \A t, v \in Successors(s)' : t = v
               /\ Successors(s)' = {} \/ Heirs(s)' = {}
    <3>1. Heirs(s)' = Heirs(s) \ {p}
      BY <2>1, <2>2 DEF Heirs
    <3>2. CASE s = u
      <4>1. Heirs(s) = {p}
        BY <2>2, <3>2 DEF RefreshesSerialised, Heirs
      <4>2. Successors(s)' \in SUBSET {i}
        BY <2>1, <4>1 DEF SerialInv, Successors
      <4> QED
        BY <3>1, <4>1, <4>2
    <3>3. CASE s # u
      <4>1. Successors(s)' \in SUBSET Successors(s)
        BY <2>1, <3>3 DEF Successors
      <4> QED
        BY <3>1, <4>1 DEF SerialInv
    <3> QED
      BY <3>2, <3>3
  <2> QED
    BY <2>3 DEF SerialInv
<1> QED
  BY <1>1, <1>2, <1>3, HeirSteps

\* Racing refreshes are all that keeps rotation from being monotonic
\* (auth_service.go:122): as long as requests with one token take turns, failures and
\* all other requests notwithstanding, a token is redeemed for one successor.
THEOREM SerialRotationCorrect == Spec /\ []RefreshesSerialised => []OneSuccessor
<1>1. SerialInv /\ TypeInv => OneSuccessor
  <2> SUFFICES ASSUME SerialInv, TypeInv, NEW s \in SessionIds, NEW t \in SessionIds,
                      history[s].parent # NoSession, history[s].parent = history[t].parent
               PROVE  s = t
    BY DEF OneSuccessor
  <2>1. history[s].parent \in SessionIds
    BY DEF TypeInv, TypeOK, Origin
  <2>2. s \in Successors(history[s].parent) /\ t \in Successors(history[s].parent)
    BY DEF Successors
  <2> QED
    BY <2>1, <2>2 DEF SerialInv
<1>2. Spec => [](TypeInv /\ RotationInv)
  BY InitType, StepType, InitRotation, StepRotation, PTL DEF Spec
<1>3. Spec /\ []RefreshesSerialised => []SerialInv
  BY <1>2, InitSerial, StepSerial, PTL DEF Spec
<1> QED
  BY <1>1, <1>2, <1>3, PTL

-----------------------------------------------------------------------------
(* Requests end *)

\* The step of a request that returns or goes to a statement nearer its end.
LEMMA AdvanceFrame ==
  ASSUME TypeInv, NEW p \in Procs, pc[p] # "idle", NEW step \in Steps,
         StatementsLeft[step] < StatementsLeft[pc[p]], Goto(p, step)
  PROVE  /\ StatementsLeft[pc'[p]] < StatementsLeft[pc[p]]
         /\ \A q \in Procs \ {p} : pc'[q] = pc[q]
BY DEF Goto, TypeInv, TypeOK

LEMMA ProceedAdvances ==
  ASSUME TypeInv, NEW p \in Procs, Proceed(p)
  PROVE  /\ StatementsLeft[pc'[p]] < StatementsLeft[pc[p]]
         /\ \A q \in Procs \ {p} : pc'[q] = pc[q]
<1>1. CASE pc[p] # "idle" /\ Goto(p, "idle")
  <2>1. "idle" \in Steps /\ StatementsLeft["idle"] = 0
    BY DEF Steps, StatementsLeft
  <2>2. \A step \in Steps \ {"idle"} : 0 < StatementsLeft[step]
    BY DEF Steps, StatementsLeft
  <2>3. pc[p] \in Steps \ {"idle"}
    BY <1>1 DEF TypeInv, TypeOK
  <2> QED
    BY <1>1, <2>1, <2>2, <2>3, AdvanceFrame
<1>2. CASE RecordLoginSuccess(p) \/ RevokeOld(p) \/ UpdatePassword(p)
  BY <1>2, AdvanceFrame
  DEF RecordLoginSuccess, RevokeOld, UpdatePassword, StatementsLeft, Steps
<1>3. CASE CreateSession(p)
  BY <1>1, <1>3, AdvanceFrame DEF CreateSession, InsertSession, Finish, StatementsLeft, Steps
<1>4. CASE RefreshUser(p)
  BY <1>1, <1>4, AdvanceFrame DEF RefreshUser, Finish, StatementsLeft, Steps
<1>5. CASE \/ RecordLoginFailure(p) \/ UpdateRefreshToken(p) \/ ChangePasswordRevoke(p)
  BY <1>1, <1>5 DEF RecordLoginFailure, UpdateRefreshToken, ChangePasswordRevoke, Finish
<1> QED
  BY <1>2, <1>3, <1>4, <1>5 DEF Proceed

\* Every statement of a request brings it closer to its end, by at most four of them,
\* and nothing others do or that fails sets it back (RequestsEnd without its fairness).
THEOREM AdvanceCorrect == Spec => RequestsAdvance
<1> DEFINE Advance == \A p \in Procs :
              /\ pc[p] # "idle" => StatementsLeft[pc'[p]] <= StatementsLeft[pc[p]]
              /\ Proceed(p) => StatementsLeft[pc'[p]] < StatementsLeft[pc[p]]
<1>1. ASSUME TypeInv, [Next]_vars
      PROVE  Advance
  <2> SUFFICES ASSUME NEW p \in Procs, pc[p] # "idle", ~Proceed(p)
               PROVE  StatementsLeft[pc'[p]] <= StatementsLeft[pc[p]]
    <3>1. \A p \in Procs : pc[p] \in Steps /\ pc'[p] \in Steps
      BY <1>1, StepType DEF TypeInv, TypeOK
    <3>2. \A step \in Steps : StatementsLeft[step] \in Nat
      BY DEF Steps, StatementsLeft
    <3> QED
      BY <1>1, <3>1, <3>2, ProceedAdvances
  <2>1. pc[p] \in Steps /\ pc' \in [Procs -> Steps]
    BY <1>1, StepType DEF TypeInv, TypeOK
  <2>2. \/ pc'[p] \in {pc[p], "idle"}
        \/ pc[p] = "recordSuccess" /\ pc'[p] = "create"
    <3>1. CASE UNCHANGED pc
      BY <3>1
    <3>2. ASSUME NEW q \in Procs, Arrive(q)
          PROVE  pc'[p] = pc[p]
      BY <1>1, <3>2 DEF Arrive, LoginRead, RefreshRead, ChangePasswordRead, RefusedRequest, Start,
                  Goto, TypeInv, TypeOK, vars
    <3>3. ASSUME NEW q \in Procs, Proceed(q)
          PROVE  pc'[p] = pc[p]
      BY <1>1, <3>3, ProceedAdvances
    <3>4. ASSUME NEW q \in Procs, StatementFails(q)
          PROVE  \/ pc'[p] \in {pc[p], "idle"}
                 \/ pc[p] = "recordSuccess" /\ pc'[p] = "create"
      BY <1>1, <3>4 DEF StatementFails, Finish, Goto, TypeInv, TypeOK
    <3>5. CASE Crash
      BY <1>1, <3>5 DEF Crash
    <3>6. CASE \/ \E s \in SessionIds : Logout(s)
               \/ \E u \in Users : LogoutAll(u)
               \/ \E u \in Users, field \in {NotGiven} \cup Statuses : AdminUpdate(u, field)
               \/ Tick \/ UNCHANGED vars
      BY <3>1, <3>6 DEF Logout, LogoutAll, AdminUpdate, Tick, vars
    <3> QED
      BY <1>1, <3>1, <3>2, <3>3, <3>4, <3>5, <3>6 DEF Next
  <2> QED
    BY <2>1, <2>2 DEF Steps, StatementsLeft
<1>2. Spec => []TypeInv
  BY InitType, StepType, PTL DEF Spec
<1> QED
  BY <1>1, <1>2, PTL DEF Spec, RequestsAdvance

-----------------------------------------------------------------------------
(* Without failures *)

\* Nothing is left behind, so the exemptions of two properties fall away: a placeholder
\* always belongs to a request about to replace it,
PlaceholderServed ==
    \A s \in SessionIds : sessions[s].token = "pending"
                             => \E p \in Procs : pc[p] = "backfill" /\ req[p].new = s

\* and only what a finished password change overlapped with outlives it.
SurvivorsServed ==
    \A s \in SessionIds :
        Redeemable(s) /\ history[s].outdated /\ ~ChangeInProgress(sessions[s].user)
            => history[s].overlapped

LEMMA NothingLeftStep ==
  ASSUME ~FaultsHappen, abandoned = {}, halted = {}, [Next]_vars
  PROVE  abandoned' = {} /\ halted' = {}
<1>1. ASSUME NEW p \in Procs, Proceed(p)
      PROVE  abandoned' = {} /\ halted' = {}
  BY <1>1 DEF Proceed, RecordLoginFailure, RecordLoginSuccess, CreateSession, InsertSession,
              UpdateRefreshToken, RefreshUser, RevokeOld, UpdatePassword,
              ChangePasswordRevoke, ghosts
<1>2. ASSUME NEW p \in Procs, Arrive(p)
      PROVE  abandoned' = {} /\ halted' = {}
  BY <1>2 DEF Arrive, LoginRead, RefreshRead, ChangePasswordRead, RefusedRequest, vars, ghosts
<1> QED
  BY <1>1, <1>2 DEF Next, Logout, LogoutAll, AdminUpdate, Tick, StatementFails, Crash,
                    vars, ghosts

\* Where no statement fails and the process does not crash, no request leaves its
\* placeholder, or the sessions it was to revoke, behind.
THEOREM FaultlessCorrect == Spec => [](~FaultsHappen => PlaceholderServed /\ SurvivorsServed)
<1> DEFINE NothingLeft == ~FaultsHappen => abandoned = {} /\ halted = {}
<1>1. Init => NothingLeft
  BY DEF Init
<1>2. NothingLeft /\ [Next]_vars => NothingLeft'
  BY NothingLeftStep
<1>3. PlaceholderOwned /\ SurvivorsOverlapped /\ NothingLeft
         => (~FaultsHappen => PlaceholderServed /\ SurvivorsServed)
  BY DEF PlaceholderOwned, SurvivorsOverlapped, PlaceholderServed, SurvivorsServed
<1>4. Spec => []NothingLeft
  BY <1>1, <1>2, PTL DEF Spec
<1> QED
  BY <1>3, <1>4, PlaceholderCorrect, SurvivorsCorrect, PTL

-----------------------------------------------------------------------------
(* The critical section around the placeholder *)

\* BackfillExclusive is not inductive: the placeholder of a request that failed has to
\* be alone too, and must not be the one of a request under way.
SlotInv ==
    /\ BackfillExclusive
    /\ \A s, t \in SessionIds :
          sessions[s].token = "pending" /\ sessions[t].token = "pending" => s = t
    /\ \A p \in Procs : pc[p] = "backfill" => req[p].new \notin abandoned
    /\ \A s \in abandoned : s <= lastId

LEMMA InitSlot == Init => SlotInv
BY DEF Init, SlotInv, BackfillExclusive, NoRow

\* Steps that neither insert a row nor replace a placeholder: tokens stay as they are,
\* nobody comes to backfill, and only who was about to leaves his row behind.
SlotFrame ==
    /\ lastId' = lastId /\ abandoned \subseteq abandoned'
    /\ \A s \in SessionIds : sessions'[s].token = sessions[s].token
    /\ \A q \in Procs : pc'[q] = "backfill"
                           => pc[q] = "backfill" /\ req'[q].new = req[q].new
    /\ \A s \in abandoned' \ abandoned :
          \E q \in Procs : pc[q] = "backfill" /\ pc'[q] # "backfill" /\ req[q].new = s

LEMMA SlotSteps ==
  ASSUME TypeInv, [Next]_vars
  PROVE  \/ SlotFrame
         \/ \E p \in Procs : CreateSession(p) /\ ~PendingExists /\ InsertSession(p)
         \/ \E p \in Procs : UpdateRefreshToken(p)
<1>1. ASSUME NEW p \in Procs, NEW step, step # "backfill", Goto(p, step),
             \A q \in Procs \ {p} : req'[q].new = req[q].new,
             \A s \in SessionIds : sessions'[s].token = sessions[s].token,
             lastId' = lastId, abandoned' = abandoned
      PROVE  SlotFrame
  <2>1. pc'[p] # "backfill" /\ \A q \in Procs \ {p} : pc'[q] = pc[q]
    BY <1>1 DEF Goto, TypeInv, TypeOK
  <2> QED
    BY <1>1, <2>1 DEF SlotFrame
<1>2. ASSUME NEW p \in Procs, Finish(p), UNCHANGED <<sessions, lastId, abandoned>>
      PROVE  SlotFrame
  <2>1. \A q \in Procs \ {p} : req'[q].new = req[q].new
    BY <1>2 DEF Finish, TypeInv, TypeOK
  <2> QED
    BY <1>1, <1>2, <2>1 DEF Finish
<1>3. ASSUME NEW p \in Procs, NEW step, step # "backfill", NEW r, Start(p, step, r),
             UNCHANGED <<tables, ghosts>>
      PROVE  SlotFrame
  <2>1. \A q \in Procs \ {p} : req'[q].new = req[q].new
    BY <1>3 DEF Start, TypeInv, TypeOK
  <2> QED
    BY <1>1, <1>3, <2>1 DEF Start, tables, ghosts
<1>4. ASSUME UNCHANGED <<sessions, lastId, pc, req, abandoned>>
      PROVE  SlotFrame
  BY <1>4 DEF SlotFrame
<1>5. ASSUME NEW p \in Procs, Arrive(p)
      PROVE  SlotFrame
  BY <1>3, <1>4, <1>5
  DEF Arrive, LoginRead, RefreshRead, ChangePasswordRead, RefusedRequest, vars, tables, ghosts
<1>6. ASSUME NEW p \in Procs, RecordLoginFailure(p) \/ RecordLoginSuccess(p) \/ RefreshUser(p)
      PROVE  SlotFrame
  BY <1>1, <1>2, <1>6
  DEF RecordLoginFailure, RecordLoginSuccess, RefreshUser, tables, ghosts
<1>7. ASSUME NEW p \in Procs, RevokeOld(p)
      PROVE  SlotFrame
  <2>1. \A s \in SessionIds : sessions'[s].token = sessions[s].token
    BY <1>7 DEF RevokeOld, TypeInv, TypeOK, SessionRow
  <2> QED
    BY <1>1, <1>7, <2>1 DEF RevokeOld, ghosts
<1>8. ASSUME NEW p \in Procs, UpdatePassword(p)
      PROVE  SlotFrame
  <2>1. \A q \in Procs : req'[q].new = req[q].new
    BY <1>8, UpdatePasswordRequests DEF TypeInv
  <2> QED
    BY <1>1, <1>8, <2>1 DEF UpdatePassword, tables
<1>9. ASSUME NEW p \in Procs, ChangePasswordRevoke(p)
      PROVE  SlotFrame
  <2>1. \A q \in Procs \ {p} : req'[q].new = req[q].new
    BY <1>9, ChangePasswordRevokeRequests DEF TypeInv
  <2>2. \A s \in SessionIds : sessions'[s].token = sessions[s].token
    BY <1>9, RevokeAllFrame DEF ChangePasswordRevoke, TypeInv
  <2> QED
    BY <1>1, <1>9, <2>1, <2>2 DEF ChangePasswordRevoke
<1>10. ASSUME NEW u \in Users, LogoutAll(u)
       PROVE  SlotFrame
  <2>1. \A q \in Procs : req'[q].new = req[q].new /\ pc'[q] = pc[q]
    BY <1>10, LogoutAllRequests DEF LogoutAll, TypeInv
  <2>2. \A s \in SessionIds : sessions'[s].token = sessions[s].token
    BY <1>10, RevokeAllFrame DEF LogoutAll, TypeInv
  <2> QED
    BY <1>10, <2>1, <2>2 DEF LogoutAll, SlotFrame
<1>11. ASSUME NEW p \in Procs, StatementFails(p)
       PROVE  SlotFrame
  <2>1. /\ pc'[p] # "backfill"
        /\ \A q \in Procs \ {p} : pc'[q] = pc[q] /\ req'[q] = req[q]
    BY <1>11 DEF StatementFails, Finish, Goto, TypeInv, TypeOK
  <2>2. /\ abandoned' = abandoned \cup {req[q].new : q \in {x \in {p} : pc[x] = "backfill"}}
        /\ UNCHANGED <<sessions, lastId>>
    BY <1>11 DEF StatementFails, LeaveBehind, tables
  <2>3. \A s \in abandoned' \ abandoned : pc[p] = "backfill" /\ req[p].new = s
    BY <2>2
  <2> QED
    BY <2>1, <2>2, <2>3 DEF SlotFrame
<1>12. ASSUME Crash
       PROVE  SlotFrame
  <2>1. \A q \in Procs : pc'[q] = "idle"
    BY <1>12 DEF Crash
  <2>2. /\ abandoned' = abandoned \cup {req[q].new : q \in {x \in Procs : pc[x] = "backfill"}}
        /\ UNCHANGED <<sessions, lastId>>
    BY <1>12 DEF Crash, LeaveBehind, tables
  <2> QED
    BY <2>1, <2>2 DEF SlotFrame
<1>13. ASSUME \/ \E s \in SessionIds : Logout(s)
              \/ \E u \in Users, field \in {NotGiven} \cup Statuses : AdminUpdate(u, field)
              \/ Tick \/ UNCHANGED vars
       PROVE  SlotFrame
  BY <1>4, <1>13 DEF Logout, ContextSession, AdminUpdate, Tick, vars, tables, ghosts
<1>14. ASSUME NEW p \in Procs, CreateSession(p), PendingExists
       PROVE  SlotFrame
  BY <1>2, <1>14 DEF CreateSession, tables, ghosts
<1>15. ASSUME NEW p \in Procs, CreateSession(p), ~PendingExists
       PROVE  InsertSession(p)
  BY <1>15 DEF CreateSession
<1> QED
  BY <1>5, <1>6, <1>7, <1>8, <1>9, <1>10, <1>11, <1>12, <1>13, <1>14, <1>15
  DEF Next, Proceed

\* A row is inserted only where no placeholder stands, under an id that nobody left.
LEMMA InsertSlot ==
  ASSUME SlotInv, TypeInv, NEW p \in Procs, pc[p] = "create", ~PendingExists,
         InsertSession(p)
  PROVE  SlotInv'
<1>1. PICK i \in SessionIds : i = lastId + 1
  BY DEF InsertSession
<1>2. /\ pc'[p] = "backfill" /\ req'[p].new = i
      /\ \A q \in Procs \ {p} : pc'[q] = pc[q] /\ req'[q] = req[q]
  BY <1>1 DEF InsertSession, Goto, TypeInv, TypeOK, Request
<1>3. sessions'[i].token = "pending"
      /\ \A s \in SessionIds \ {i} : sessions'[s] = sessions[s]
  BY <1>1 DEF InsertSession, NewRow, TypeInv, TypeOK
<1>4. \A s \in SessionIds : sessions[s].token # "pending"
  BY DEF PendingExists
<1>5. \A q \in Procs : pc[q] # "backfill"
  BY <1>4 DEF SlotInv, BackfillExclusive, TypeInv, RequestsOK
<1>6. lastId \in Nat /\ lastId' = lastId + 1 /\ abandoned' = abandoned
  BY BoundsAssumption DEF InsertSession, TypeInv, TypeOK, BoundsAreNatural
<1>7. i \notin abandoned /\ \A s \in abandoned : s \in SessionIds /\ s <= lastId
  BY <1>1, <1>6 DEF SlotInv, TypeInv, TypeOK, SessionIds
<1>8. \A s \in abandoned' : s <= lastId'
  BY <1>6, <1>7 DEF SessionIds
<1>9. \A q \in Procs : pc'[q] = "backfill" => q = p
  BY <1>2, <1>5
<1>10. \A s \in SessionIds : sessions'[s].token = "pending" <=> s = i
  BY <1>3, <1>4
<1>11. BackfillExclusive'
  BY <1>2, <1>9, <1>10 DEF BackfillExclusive
<1> QED
  BY <1>2, <1>6, <1>7, <1>8, <1>9, <1>10, <1>11 DEF SlotInv

\* The backfill frees the placeholder.
LEMMA BackfillSlot ==
  ASSUME SlotInv, TypeInv, NEW p \in Procs, UpdateRefreshToken(p)
  PROVE  SlotInv'
<1>1. /\ pc[p] = "backfill" /\ req[p].new \in SessionIds
      /\ UNCHANGED <<lastId, abandoned>>
  BY DEF UpdateRefreshToken, TypeInv, RequestsOK, ghosts
<1>2. \A q \in Procs : pc'[q] # "backfill"
  BY <1>1 DEF UpdateRefreshToken, Finish, Goto, SlotInv, BackfillExclusive, TypeInv, TypeOK
<1>3. \A s \in SessionIds : sessions'[s].token # "pending"
  BY <1>1, BackfilledRow DEF SlotInv, BackfillExclusive
<1> QED
  BY <1>1, <1>2, <1>3 DEF SlotInv, BackfillExclusive

LEMMA FrameSlot ==
  ASSUME SlotInv, RotationInv, TypeInv, SlotFrame
  PROVE  SlotInv'
<1>1. \A q \in Procs : pc[q] = "backfill" => req[q].new \in SessionIds /\ req[q].new <= lastId
  BY DEF TypeInv, RequestsOK, RotationInv
<1>2. BackfillExclusive'
  BY <1>1 DEF SlotInv, SlotFrame, BackfillExclusive
<1>3. ASSUME NEW q \in Procs, pc'[q] = "backfill"
      PROVE  req'[q].new \notin abandoned'
  BY <1>3 DEF SlotInv, SlotFrame, BackfillExclusive
<1>4. \A s \in abandoned' : s <= lastId'
  BY <1>1 DEF SlotInv, SlotFrame
<1> QED
  BY <1>2, <1>3, <1>4 DEF SlotInv, SlotFrame

LEMMA StepSlot == SlotInv /\ RotationInv /\ TypeInv /\ [Next]_vars => SlotInv'
BY SlotSteps, InsertSlot, BackfillSlot, FrameSlot DEF CreateSession

LEMMA SlotAlways == Spec => [](SlotInv /\ RotationInv /\ TypeInv)
<1>1. Spec => [](RotationInv /\ TypeInv)
  BY InitType, StepType, InitRotation, StepRotation, PTL DEF Spec
<1> QED
  BY <1>1, InitSlot, StepSlot, PTL DEF Spec

\* Between INSERT and backfill there is one request at a time, for any number of them,
\* although no handler holds a lock or a transaction.
THEOREM BackfillCorrect == Spec => []BackfillExclusive
<1> QED
  BY SlotAlways, PTL DEF SlotInv

\* The placeholder of a failed request stops the creation of sessions for good: nothing
\* the server does removes it, and no request gets past it.
THEOREM OrphanCorrect == Spec => OrphanShutsCreation
<1> DEFINE Orphaned == \E s \in abandoned : sessions[s].token = "pending"
           Kept == /\ \E s \in abandoned' : sessions'[s].token = "pending"
                   /\ \A s \in SessionIds : sessions'[s].token = "issued"
                                               => sessions[s].token = "issued"
<1>1. ASSUME SlotInv, TypeInv, [Next]_vars, Orphaned
      PROVE  Kept
  <2>1. PICK s \in SessionIds : s \in abandoned /\ sessions[s].token = "pending"
    BY <1>1 DEF TypeInv, TypeOK
  <2>2. PendingExists
    BY <2>1 DEF PendingExists
  <2>3. \A p \in Procs : pc[p] # "backfill"
    BY <1>1, <2>1 DEF SlotInv, BackfillExclusive
  <2>4. SlotFrame
    BY <1>1, <2>2, <2>3, SlotSteps DEF UpdateRefreshToken
  <2> QED
    BY <2>1, <2>4 DEF SlotFrame
<1>2. SlotInv /\ TypeInv /\ [Next]_vars => [Orphaned => Kept]_vars
  BY <1>1
<1> QED
  BY <1>2, SlotAlways, PTL DEF Spec, OrphanShutsCreation

-----------------------------------------------------------------------------
(* The bound on the sessions stops no request under way *)

Creators == {q \in Procs : Creating(q)}

\* Requests are admitted only while there is a row left for each of them.
RoomInv == lastId + Cardinality(Creators) <= MaxSessions

LEMMA CreatingSteps ==
  ASSUME TypeInv, [Next]_vars
  PROVE  \/ lastId' = lastId /\ Creators' \subseteq Creators
         \/ \E p \in Procs : Room /\ lastId' = lastId /\ Creators' \subseteq Creators \cup {p}
         \/ \E p \in Creators : lastId' = lastId + 1 /\ Creators' = Creators \ {p}
<1> DEFINE Fewer == lastId' = lastId /\ Creators' \subseteq Creators
           Admitted == \E p \in Procs :
                          Room /\ lastId' = lastId /\ Creators' \subseteq Creators \cup {p}
<1>1. ASSUME NEW p \in Procs, NEW step, Goto(p, step), lastId' = lastId,
             Creating(p) \/ step \notin {"recordSuccess", "readUser", "revokeOld", "create"}
      PROVE  Fewer
  <2>1. pc'[p] = step /\ \A q \in Procs \ {p} : pc'[q] = pc[q]
    BY <1>1 DEF Goto, TypeInv, TypeOK
  <2> QED
    BY <1>1, <2>1 DEF Creators, Creating
<1>2. ASSUME UNCHANGED <<pc, lastId>>
      PROVE  Fewer
  BY <1>2 DEF Creators, Creating
<1>3. ASSUME NEW p \in Procs, NEW step, NEW r, Start(p, step, r), Room, lastId' = lastId
      PROVE  Admitted
  <2>1. \A q \in Procs \ {p} : pc'[q] = pc[q]
    BY <1>3 DEF Start, Goto, TypeInv, TypeOK
  <2> QED
    BY <1>3, <2>1 DEF Creators, Creating
<1>4. ASSUME NEW p \in Procs, Arrive(p)
      PROVE  Fewer \/ Admitted
  <2>1. CASE \E s \in SessionIds : RefreshRead(p, s)
    BY <1>3, <2>1 DEF RefreshRead, tables
  <2>2. ASSUME NEW u \in Users, NEW matches \in BOOLEAN, LoginRead(p, u, matches)
        PROVE  Fewer \/ Admitted
    <3>1. CASE matches
      BY <1>3, <2>2, <3>1 DEF LoginRead, tables
    <3>2. CASE ~matches
      BY <1>1, <2>2, <3>2 DEF LoginRead, Start, tables
    <3> QED
      BY <3>1, <3>2
  <2>3. CASE \E u \in Users : ChangePasswordRead(p, u)
    BY <1>1, <2>3 DEF ChangePasswordRead, Start, tables
  <2>4. CASE RefusedRequest(p)
    BY <1>2, <2>4 DEF RefusedRequest, vars, tables
  <2> QED
    BY <1>4, <2>1, <2>2, <2>3, <2>4 DEF Arrive
<1>5. ASSUME NEW p \in Procs,
             \/ RecordLoginFailure(p) \/ RecordLoginSuccess(p) \/ UpdateRefreshToken(p)
             \/ RefreshUser(p) \/ RevokeOld(p) \/ UpdatePassword(p)
             \/ ChangePasswordRevoke(p) \/ StatementFails(p)
      PROVE  Fewer
  <2>1. CASE \/ RecordLoginFailure(p) \/ UpdateRefreshToken(p) \/ UpdatePassword(p)
             \/ ChangePasswordRevoke(p)
    BY <1>1, <2>1
    DEF RecordLoginFailure, UpdateRefreshToken, UpdatePassword, ChangePasswordRevoke,
        Finish, tables
  <2>2. CASE RecordLoginSuccess(p) \/ RevokeOld(p)
    BY <1>1, <2>2 DEF RecordLoginSuccess, RevokeOld, Creating
  <2>3. CASE RefreshUser(p)
    BY <1>1, <2>3 DEF RefreshUser, Creating, Finish, tables
  <2>4. CASE StatementFails(p)
    BY <1>1, <2>4 DEF StatementFails, Creating, Finish, tables
  <2> QED
    BY <1>5, <2>1, <2>2, <2>3, <2>4
<1>6. ASSUME NEW p \in Procs, CreateSession(p), PendingExists
      PROVE  Fewer
  BY <1>1, <1>6 DEF CreateSession, Finish, tables
<1>7. ASSUME NEW p \in Procs, CreateSession(p), ~PendingExists
      PROVE  p \in Creators /\ lastId' = lastId + 1 /\ Creators' = Creators \ {p}
  <2>1. /\ pc[p] = "create" /\ lastId' = lastId + 1 /\ pc'[p] = "backfill"
        /\ \A q \in Procs \ {p} : pc'[q] = pc[q]
    BY <1>7 DEF CreateSession, InsertSession, Goto, TypeInv, TypeOK
  <2> QED
    BY <2>1 DEF Creators, Creating
<1>8. ASSUME Crash
      PROVE  Fewer
  BY <1>8 DEF Crash, Creators, Creating, tables
<1>9. ASSUME \/ \E s \in SessionIds : Logout(s)
             \/ \E u \in Users : LogoutAll(u)
             \/ \E u \in Users, field \in {NotGiven} \cup Statuses : AdminUpdate(u, field)
             \/ Tick \/ UNCHANGED vars
      PROVE  Fewer
  BY <1>2, <1>9 DEF Logout, LogoutAll, AdminUpdate, Tick, vars, tables
<1> QED
  BY <1>4, <1>5, <1>6, <1>7, <1>8, <1>9 DEF Next, Proceed

LEMMA StepRoom ==
  ASSUME RoomInv, TypeInv, [Next]_vars
  PROVE  RoomInv'
<1>1. /\ IsFiniteSet(Procs) /\ MaxSessions \in Nat /\ lastId \in Nat
      /\ IsFiniteSet(Creators) /\ Cardinality(Creators) \in Nat
  BY ProcsAssumption, BoundsAssumption, FS_Subset, FS_CardinalityType
  DEF Creators, BoundsAreNatural, TypeInv, TypeOK
<1>2. CASE lastId' = lastId /\ Creators' \subseteq Creators
  <2>1. Cardinality(Creators') \in Nat /\ Cardinality(Creators') <= Cardinality(Creators)
    BY <1>1, <1>2, FS_Subset, FS_CardinalityType
  <2> QED
    BY <1>1, <1>2, <2>1 DEF RoomInv
<1>3. ASSUME NEW p \in Procs, Room, lastId' = lastId, Creators' \subseteq Creators \cup {p}
      PROVE  RoomInv'
  <2>1. /\ IsFiniteSet(Creators \cup {p})
        /\ Cardinality(Creators \cup {p}) \in Nat
        /\ Cardinality(Creators \cup {p}) <= Cardinality(Creators) + 1
    <3>1. /\ IsFiniteSet(Creators \cup {p})
          /\ Cardinality(Creators \cup {p})
               = IF p \in Creators THEN Cardinality(Creators) ELSE Cardinality(Creators) + 1
      BY <1>1, FS_AddElement
    <3> QED
      BY <1>1, <3>1
  <2>2. /\ Cardinality(Creators') \in Nat
        /\ Cardinality(Creators') <= Cardinality(Creators \cup {p})
    BY <1>3, <2>1, FS_Subset, FS_CardinalityType
  <2>3. lastId + Cardinality(Creators) < MaxSessions
    BY <1>3 DEF Room, Creators
  <2> QED
    BY <1>1, <1>3, <2>1, <2>2, <2>3 DEF RoomInv
<1>4. ASSUME NEW p \in Creators, lastId' = lastId + 1, Creators' = Creators \ {p}
      PROVE  RoomInv'
  <2>1. Cardinality(Creators') = Cardinality(Creators) - 1
    BY <1>1, <1>4, FS_RemoveElement
  <2> QED
    BY <1>1, <1>4, <2>1 DEF RoomInv
<1> QED
  BY <1>2, <1>3, <1>4, CreatingSteps

\* The bound on the table is felt by the clients only: a request that the server has
\* let through its checks always finds a row to insert.
THEOREM RoomCorrect == Spec => [](\A p \in Procs : Creating(p) => lastId + 1 \in SessionIds)
<1>1. Init => RoomInv
  <2> SUFFICES ASSUME Init PROVE RoomInv
    OBVIOUS
  <2>1. Creators = {} /\ lastId = 0
    BY DEF Init, Creators, Creating
  <2> QED
    BY <2>1, FS_EmptySet, BoundsAssumption DEF RoomInv, BoundsAreNatural
<1>2. ASSUME RoomInv, TypeInv, NEW p \in Procs, Creating(p)
      PROVE  lastId + 1 \in SessionIds
  <2>1. IsFiniteSet(Creators) /\ p \in Creators /\ lastId \in Nat /\ MaxSessions \in Nat
    BY <1>2, ProcsAssumption, BoundsAssumption, FS_Subset
    DEF Creators, BoundsAreNatural, TypeInv, TypeOK
  <2>2. Cardinality(Creators) \in Nat /\ Cardinality(Creators) # 0
    BY <2>1, FS_EmptySet, FS_CardinalityType
  <2> QED
    BY <1>2, <2>1, <2>2 DEF RoomInv, SessionIds
<1>3. RoomInv /\ TypeInv /\ [Next]_vars => RoomInv'
  BY StepRoom
<1>4. RoomInv /\ TypeInv => \A p \in Procs : Creating(p) => lastId + 1 \in SessionIds
  BY <1>2
<1> QED
  BY <1>1, <1>3, <1>4, InitType, StepType, PTL DEF Spec
=============================================================================
