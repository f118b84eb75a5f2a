CONSTANTS
    Users = {u1}
    NoUser = NoUser
    Procs = {p1, p2}
    Calls <- SessionCalls
    FaultsHappen = TRUE
    MaxAttempts = 2
    LockTicks = 1
    SessionTicks = 1
    MaxSessions = 4
    MaxTime = 1
    MaxFailures = 2
SPECIFICATION Spec
INVARIANTS
    TypeOK
    PredecessorRevoked
    FanOutBounded
    SurvivorsOverlapped
    PlaceholderOwned
    BackfillExclusive
PROPERTIES
    OrphanShutsCreation
    LifecycleImplemented
SYMMETRY Interchangeable
