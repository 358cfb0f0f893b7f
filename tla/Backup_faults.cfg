SPECIFICATION Spec
CONSTANTS
  Provisioners = {p1}
  SupportedResources = FALSE
  MaxRetry = 3
  MaxAttempts = 2
  MaxFaults = 1
  MaxCrashes = 1
  PreHookFails = TRUE
  PostHookFails = TRUE
  HooksLenient = TRUE
  UserDeletes = FALSE
INVARIANTS
  IInv
  SnapshotsWhileQuiesced
  ResumedBeforeResources
  FinishedHasArchive
PROPERTIES
  StageMonotone
