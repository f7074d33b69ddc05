SPECIFICATION Spec
CONSTANTS
    Requests = {r1}
    Calls = {c1}
    HCL <- MCHCL
    EmptyHCL = "empty"
    NoHCL = "none"
    Plannable <- MCPlannable
    Report <- MCReport
    MaxRetries = 1
    StoreFaults = TRUE
    AfterReply = TRUE
    Serial = TRUE
    MayReset = FALSE
INVARIANT OnlyShownApplied
\* Every request and every call may have ended.
CHECK_DEADLOCK FALSE
