SPECIFICATION Spec
CONSTANTS
    Requests = {r1}
    Calls = {c1}
    HCL <- MCHCL
    EmptyHCL = "empty"
    NoHCL = "none"
    Plannable <- MCPlannable
    Report <- MCReport
    MaxRetries = 2
    StoreFaults = FALSE
    AfterReply = FALSE
    Serial = TRUE
    MayReset = FALSE
INVARIANT OnlyValidatedApplied
\* Every request and every call may have ended.
CHECK_DEADLOCK FALSE
