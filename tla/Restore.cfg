SPECIFICATION Spec
CONSTANTS
  PVCs = {p1, p2}
  Classless = {p2}
  MaxRetry = 1
  MaxAttempts = 2
  MaxDisturbed = 1
  UserDeletes = TRUE
INVARIANTS
  VolumesBeforeResources
  FinishedMeansRestored
  NoOrphanVRC
PROPERTIES
  OnlyForward
  UnfinishedLeavesNothing
CHECK_DEADLOCK FALSE
