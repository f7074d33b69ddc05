SPECIFICATION FairSpec
CONSTANTS
    Resets = {t1, t2}
    Rows = {r1}
    EntryIds = {e1, e2}
    Seeded = 3
INVARIANTS
    TypeOK
    NoOrphans
    AllOrNone
PROPERTIES
    CommitClears
    EveryResetEnds
\* Every reset and every writer may have ended.
CHECK_DEADLOCK FALSE
