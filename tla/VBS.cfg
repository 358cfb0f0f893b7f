SPECIFICATION FairSpec
CONSTANTS
  Volumes = {v1, v2}
  Full = 1
  MaxStarts = 3
  MaxRetry = 1
  MaxDisturbed = 1
  MaxPeriods = 3
  InformerLags = FALSE
  UserDeletes = TRUE
INVARIANTS
  CompletedMeansDone
  StartsPaidFor
  OrphansPaidFor
PROPERTIES
  FulfilsContract
CHECK_DEADLOCK FALSE
