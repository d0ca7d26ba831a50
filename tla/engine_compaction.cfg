SPECIFICATION Spec
CONSTANTS
    k1 = k1
    Keys = {k1, k2}
    Clients = {c1}
    Compactors = {periodic, command}
    Background = periodic
    L0Trigger = 2
    MemLimit = 1
    ForeignRecords = {}
    TornTails = FALSE
    MaxWrites = 3
    MaxSequence = 3
    MaxFailures = 0
    MaxCrashes = 0
    Values <- MCValues
    Absent = 0
INVARIANTS
    LiveNeverVanishes
    TypeOK
CHECK_DEADLOCK FALSE
