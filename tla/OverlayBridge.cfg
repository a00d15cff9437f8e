SPECIFICATION FairSpec
CONSTANTS
    Conns = {c1, c2}
    MaxRev = 2
    Happens = {"bad_auth", "malformed", "cancelled"}
INVARIANTS
    OneClient
    ServedNewest
    StoppedClean
PROPERTIES
    NeverBackwards
    CallsReturn
\* The bridge may rest, and every connection is used once.
CHECK_DEADLOCK FALSE
