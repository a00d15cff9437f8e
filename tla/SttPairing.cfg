SPECIFICATION Spec
CONSTANTS
    MaxSessions = 3
    MaxUtts = 3
    ConnectAttempts = 2
    StaysWarm = FALSE
    Happens = {"open_fails", "decode_fails", "silence"}
INVARIANTS
    FinalsPaired
CHECK_DEADLOCK FALSE
