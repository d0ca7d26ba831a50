SPECIFICATION FairSpec
CHECK_DEADLOCK FALSE
CONSTANTS
  MaxActs = 5
  MaxLog = 3
  Seeds = 2
  Fetched = 2
  MaxStamps = 5
  LogLevels = {"INFO", "ERROR"}
  Sources = {n1, n2}
  MinNodes = 2
  MaxNodes = 3
  MaxSnapshots = 1
  MaxEvents = 3
  Height = 9
  Steps = {3, 5}
  Kept = 2
  MaxListed = 2
  MaxTokens = 4
  MaxTasks = 3
  Keys = {k1, k2}
  Watched = {w1, w2}
  MaxRecent = 3
  MaxHistory = 5
INVARIANTS ShownIsLog LiveMeansConnected TerminalListsArrivals PanelFollowsRequests ReplayShowsChosen
PROPERTIES LogKeepsEntries PausedAddsNothing LogsReconnect PhasesInOrder StorageRests PanelStaysForTasks NoticesEnd PlaybackEnds
