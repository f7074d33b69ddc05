SPECIFICATION Spec
CONSTANTS
    Requests = {r1}
    Calls = {c1, c2}
    HCL <- MCHCL
    EmptyHCL = "empty"
    NoHCL = "none"
    Plannable <- MCPlannable
    Report <- MCReport
    MaxRetries = 1
    StoreFaults = FALSE
    AfterReply = TRUE
    Serial = FALSE
    MayReset = FALSE
PROPERTY OnlyPendingDecided
\* Every request and every call may have ended.
CHECK_DEADLOCK FALSE
