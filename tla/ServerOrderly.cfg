SPECIFICATION Spec
CONSTANTS
    Requests = {r1}
    Calls = {c1, c2}
    HCL <- MCHCL
    EmptyHCL = "empty"
    NoHCL = "none"
    Plannable <- MCPlannable
    Report <- MCReport
    MaxRetries = 2
    StoreFaults = TRUE
    AfterReply = TRUE
    Serial = TRUE
    MayReset = TRUE
INVARIANT OnlyValidatedApplied
PROPERTY FollowsLifecycle
\* Every request and every call may have ended.
CHECK_DEADLOCK FALSE
