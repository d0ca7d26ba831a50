SPECIFICATION FairSpec
CONSTANTS
    k1 = k1
    Keys = {k1}
    Clients = {c1}
    Compactors = {periodic, command}
    Background = periodic
    L0Trigger = 2
    MemLimit = 1
    ForeignRecords = {}
    TornTails = FALSE
    MaxWrites = 2
    MaxSequence = 2
    MaxFailures = 1
    MaxCrashes = 1
    Values <- MCValues
    Absent = 0
INVARIANTS
    RegisteredTablesAreDurable
    SequenceNumbersAreFresh
PROPERTIES
    FlushGuardIsReleased
    LevelZeroIsCompacted
CHECK_DEADLOCK FALSE
