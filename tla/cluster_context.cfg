SPECIFICATION ViewSpec
CONSTANTS
  Targets = {0, 3}
  MaxClicks = 3
  MaxSyncs = 2
  MaxTroubles = 1
INVARIANTS
  RecoveringIsAttended
  PagesAgree
PROPERTIES
  SyncKeepsNodes
  CountConverges
  RecoverySucceeds
  RowsConverge
  DiagramAgrees
