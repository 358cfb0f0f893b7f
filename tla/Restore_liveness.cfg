SPECIFICATION FairSpec
CONSTANTS
  PVCs = {p1, p2}
  Classless = {p2}
  MaxRetry = 1
  MaxAttempts = 3
  MaxDisturbed = 0
  UserDeletes = TRUE
PROPERTIES
  Terminates
  VRCsGo
CHECK_DEADLOCK FALSE
