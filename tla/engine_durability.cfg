SPECIFICATION Spec
CONSTANTS
    k1 = k1
    Keys = {k1, k2}
    Clients = {c1, c2}
    Compactors = {}
    Background = periodic
    L0Trigger = 2
    MemLimit = 2
    ForeignRecords <- MCForeignRecords
    TornTails = TRUE
    MaxWrites = 3
    MaxSequence = 2
    MaxFailures = 0
    MaxCrashes = 2
    Values <- MCValues
    Absent = 0
INVARIANTS
    MemtableIsWalReplay
    RestartChangesNoRead
PROPERTIES
    ImplementsKVStore
SYMMETRY MCSymmetry
CHECK_DEADLOCK FALSE
