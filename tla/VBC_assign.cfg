SPECIFICATION Spec
CONSTANTS
  MaxRetry = 3
  MaxFaults = 2
  MaxCrashes = 1
  UserDeletes = TRUE
INVARIANTS
  IInv
PROPERTIES
  PhaseKept
CHECK_DEADLOCK FALSE
