SPECIFICATION Spec
CONSTANTS
    Obj <- MCObj
    Plans <- MCPlans
    Handles = {"h1", "h2"}
    MaxCalls = 3
    MaxFailures = 1
INVARIANTS
    ReceivedWhole
    VolumesAgree
    ResolverSucceeds
    RefsKept
CHECK_DEADLOCK FALSE
