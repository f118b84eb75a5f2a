CONSTANTS
    Users = {u1}
    NoUser = NoUser
    Procs = {p1, p2}
    Calls <- SessionCalls
    FaultsHappen = FALSE
    MaxAttempts = 2
    LockTicks = 1
    SessionTicks = 2
    MaxSessions = 3
    MaxTime = 1
    MaxFailures = 3
SPECIFICATION Spec
INVARIANT OneSuccessor
