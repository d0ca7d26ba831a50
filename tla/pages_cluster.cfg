CONSTANTS
  MaxRefreshes = 2
  Initial = 0
  MaxIds = 2
  MaxRing = 4
  MaxTroubles = 1
  MaxRequests = 2
  MaxFetches = 1
  MaxPushes = 1
  Keys = {5, 100, 275, 320}
SPECIFICATION FairSpec
INVARIANTS
  BusyIsAttended
  OfflineFollowsStore
  KeysCountedOnce
PROPERTIES
  ActionsEnd
  ListConverges
