CONSTANTS
    Handlers = {h1, h2}
    Capacity = 2
    FaultsHappen = FALSE
    MaxEntries = 4
SPECIFICATION Spec
INVARIANT ShutdownKeepsEntries
