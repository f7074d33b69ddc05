SPECIFICATION FairSpec
CONSTANTS
    Requests = {r1}
    Calls = {c1, c2}
    HCL <- MCFewHCL
    EmptyHCL = "empty"
    NoHCL = "none"
    Plannable <- MCFewHCL
    Report <- MCFewReport
    MaxRetries = 1
    StoreFaults = TRUE
    AfterReply = FALSE
    Serial = FALSE
    MayReset = TRUE
INVARIANTS
    TypeOK
    GatedApply
    AnswersAreTrue
    EachApplyIsApproved
PROPERTIES
    DeletedStaysDeleted
    RejectionsAreAnswered
\* Every request and every call may have ended.
CHECK_DEADLOCK FALSE
