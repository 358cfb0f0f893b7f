SPECIFICATION Spec
CONSTANTS
    Obj <- MCObj
    Plans <- MCTwo
    Handles = {"h1", "h2"}
    MaxCalls = 3
    MaxFailures = 1
INVARIANT EmptyIncludesAll
CHECK_DEADLOCK FALSE
