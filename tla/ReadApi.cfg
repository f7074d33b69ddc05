SPECIFICATION MCSpec
CONSTANTS
    Changes = {c1, c2}
    Calls = {k1, k2}
    Entries <- MCEntries
    ChangeOf <- MCChangeOf
    Resets = {t1}
    DefaultLimit = 3
    MaxLimit = 2
    MaxTime = 3
SYMMETRY MCSymmetry
INVARIANTS
    PagesTypeOK
    NothingSettledIsMissed
    RepeatsAreArrivals
    HttpTypeOK
    LogTellsTheAnswer
    WritersNeedTheKey
    EveryAnswerIsMarked
\* A reading ends, a request is served, the clock and the entries run out.
CHECK_DEADLOCK FALSE
