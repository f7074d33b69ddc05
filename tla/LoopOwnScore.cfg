SPECIFICATION LoopSpec
CONSTANTS
    Requests = {r1}
    HCL <- MCHCL
    EmptyHCL = "empty"
    NoHCL = "none"
    Plannable <- MCPlannable
    Report <- MCReport
    StoreFaults = FALSE
    MaxRetries = 3
INVARIANT AcceptedTextPasses
\* A request that ended stays so.
CHECK_DEADLOCK FALSE
