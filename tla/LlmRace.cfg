SPECIFICATION FairSpec
CONSTANTS
    Calls = {c1, c2}
    Last = 1
INVARIANTS
    OnlyRefusedAfterClose
    OnlyAbandonedOutlives
PROPERTIES
    KeepsPromise
    EveryCallEnds
\* Every call may have ended.
CHECK_DEADLOCK FALSE
