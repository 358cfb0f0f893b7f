SPECIFICATION Spec
CONSTANTS
  Provisioners = {p1, p2}
  SupportedResources = FALSE
  MaxRetry = 1
  MaxAttempts = 1
  MaxFaults = 1
  MaxCrashes = 0
  PreHookFails = FALSE
  PostHookFails = FALSE
  HooksLenient = FALSE
  UserDeletes = TRUE
INVARIANTS
  NoOrphanVBC
  PostHookAfterSomeVolume
PROPERTIES
  FailedIsFinal
  ArchiveDeleted
CHECK_DEADLOCK FALSE
SYMMETRY ProvisionersAlike
