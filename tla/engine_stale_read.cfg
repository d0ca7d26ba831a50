SPECIFICATION Spec
CONSTANTS
    k1 = k1
    Keys = {k1}
    Clients = {c1}
    Compactors = {command}
    Background = periodic
    L0Trigger = 2
    MemLimit = 1
    ForeignRecords = {}
    TornTails = FALSE
    MaxWrites = 2
    MaxSequence = 3
    MaxFailures = 0
    MaxCrashes = 0
    Values <- MCValues
    Absent = 0
INVARIANTS
    GetReturnsNewest
CHECK_DEADLOCK FALSE
