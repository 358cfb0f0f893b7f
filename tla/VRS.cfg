SPECIFICATION FairSpec
CONSTANTS
  Volumes = {v1, v2}
  Full = 1
  MaxStarts = 3
  MaxRetry = 1
  MaxDisturbed = 1
  MaxPeriods = 2
  InformerLags = FALSE
INVARIANTS
  CompletedMeansDone
  StartsPaidFor
PROPERTIES
  CleanedUp
  FulfilsContract
CHECK_DEADLOCK FALSE
