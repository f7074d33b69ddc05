SPECIFICATION FairSpec
CONSTANTS
    Inserts = {i1, i2, i3}
    Names = {a, b}
    NoModule = none
    Lists <- MCLists
INVARIANT TypeOK
PROPERTIES
    LandsAtomically
    EveryInsertEnds
\* Every bulk insert may have ended.
CHECK_DEADLOCK FALSE
