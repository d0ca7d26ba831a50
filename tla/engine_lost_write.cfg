SPECIFICATION Spec
CONSTANTS
    k1 = k1
    Keys = {k1, k2}
    Clients = {c1, c2}
    Compactors = {}
    Background = periodic
    L0Trigger = 2
    MemLimit = 1
    ForeignRecords = {}
    TornTails = FALSE
    MaxWrites = 3
    MaxSequence = 2
    MaxFailures = 0
    MaxCrashes = 0
    Values <- MCValues
    Absent = 0
INVARIANTS
    NoAcknowledgedWriteIsLost
CHECK_DEADLOCK FALSE
