CONSTANTS
    Users = {u1}
    NoUser = NoUser
    Procs = {p1, p2}
    Calls <- AccountCalls
    FaultsHappen = TRUE
    MaxAttempts = 2
    LockTicks = 1
    SessionTicks = 2
    MaxSessions = 2
    MaxTime = 2
    MaxFailures = 3
SPECIFICATION FairSpec
INVARIANT
    LockEngaged
PROPERTIES
    DisabledLeavesByLockOrAdmin
    RequestsAdvance
    RequestsEnd
