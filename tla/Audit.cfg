CONSTANTS
    Handlers = {h1, h2}
    Capacity = 2
    FaultsHappen = TRUE
    MaxEntries = 5
SPECIFICATION FairSpec
INVARIANTS
    TypeOK
    StoredInOrder
    AcceptedAccounted
    BreaksAreBlindRows
    VerifyReportsFirstBlind
    DrainedAtExit
PROPERTIES
    ShutdownEnds
    DrainAdvances
    TrailImplemented
