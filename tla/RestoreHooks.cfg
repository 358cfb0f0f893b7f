SPECIFICATION FairSpec
CONSTANTS
    Pods <- MCPods
    Workloads <- MCWorkloads
    Namespaces <- MCNamespaces
    Labels <- MCLabels
    NsOf <- MCNsOf
    LabelsOf <- MCLabelsOf
    MatchLabels <- MCMatch
    KindOf <- MCKindOf
    Resources <- MCResources
    Existing = {"old", "olds"}
    ContainersOf <- MCContainers
    Annotated <- NoHooks
    PhaseAnnotated <- NoHooks
    HookLists <- MCHookLists
    Goroutines <- MCGoroutines
    MaxAge = 2
    MaxFaults = 1
INVARIANTS
    NoSendOnClosed
    CompletedMeansHooksRan
    RunsOnceUnlessFailed
PROPERTIES
    StageEnds
CHECK_DEADLOCK FALSE
