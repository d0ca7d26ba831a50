CONSTANTS
  Scripted = {"compact", "add"}
  MaxOps = 2
  MaxPolls = 2
  MaxReloads = 1
  LoadSize = 240
  Batch = 240
SPECIFICATION FairSpec
INVARIANTS
  SavedIsRunning
  RunningIsAttended
  FullMeansCompleted
  CompletedLoadIsOver
PROPERTIES
  CompletedIsFinal
  OperationsEnd
CHECK_DEADLOCK FALSE
