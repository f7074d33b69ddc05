SPECIFICATION MCSpec
CONSTANTS
    Requests = {r1}
    HCL <- MCTexts
    EmptyHCL <- MCEmptyHCL
    NoHCL = NoHCL
    Plannable = {}
    Report <- MCReport
    MaxRuns = 3
    Lines <- MCLines
    MaxLines = 4
INVARIANTS
    TypeOK
    VerdictIsFourFifths
    PlanTypeOK
    CountsEveryAction
PROPERTY ATextTurnsTheVerdict
\* A request is over after MaxRuns calls, the output after MaxLines lines.
CHECK_DEADLOCK FALSE
