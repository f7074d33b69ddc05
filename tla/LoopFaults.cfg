SPECIFICATION LoopFairSpec
CONSTANTS
    Requests = {r1}
    HCL <- MCHCL
    EmptyHCL = "empty"
    NoHCL = "none"
    Plannable <- MCPlannable
    Report <- MCReport
    StoreFaults = TRUE
    MaxRetries = 3
INVARIANTS
    LoopTypeOK
    SpendsItsBudget
    PassNeedsAPassingText
    TrailReadsInOrder
PROPERTIES
    KeepsItsContract
    EveryRunEnds
    RowTellsTheResult
    EveryStepLeavesFewer
\* A request that ended stays so.
CHECK_DEADLOCK FALSE
