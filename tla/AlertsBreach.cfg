CONSTANTS
    AlertIds = {a1}
    NoAlert = NoAlert
    Staff = {s1}
    Nobody = Nobody
    Procs = {p1, p2}
    SLATicks <- Short
    NewSeverities <- High
    AskedSeverities <- Worst
    AskedStatuses <- Moves
    FaultsHappen = FALSE
    EscalationLimit = 2
    MaxWrites = 4
    MaxTime = 2
SPECIFICATION FairSpec
PROPERTY BreachEscalated
