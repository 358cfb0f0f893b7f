SPECIFICATION FairSpec
CONSTANTS
  Provisioners = {p1}
  SupportedResources = TRUE
  MaxRetry = 1
  MaxAttempts = 1
  MaxFaults = 0
  MaxCrashes = 0
  PreHookFails = TRUE
  PostHookFails = FALSE
  HooksLenient = FALSE
  UserDeletes = TRUE
PROPERTIES
  Terminates
  DeletionCompletes
  Resumed
CHECK_DEADLOCK FALSE
