SPECIFICATION FairSpec
CONSTANTS
  Targets = {0}
  MaxClicks = 3
  MaxSyncs = 1
  MaxTroubles = 0
PROPERTIES
  NodesAgree
