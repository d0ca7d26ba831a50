SPECIFICATION Spec
CONSTANTS
    k1 = k1
    Keys = {k1}
    Clients = {c1}
    Compactors = {periodic}
    Background = periodic
    L0Trigger = 2
    MemLimit = 1
    ForeignRecords = {}
    TornTails = FALSE
    MaxWrites = 3
    MaxSequence = 3
    MaxFailures = 0
    MaxCrashes = 1
    Values <- MCValues
    Absent = 0
PROPERTIES
    MergeKeepsHighestSequence
CHECK_DEADLOCK FALSE
