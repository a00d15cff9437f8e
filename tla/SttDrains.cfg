SPECIFICATION FairSpec
CONSTANTS
    MaxSessions = 3
    MaxUtts = 2
    ConnectAttempts = 2
    StaysWarm = TRUE
    Happens = {"decode_fails", "bridge_fails", "warmup", "reset", "silence"}
INVARIANTS
    NoOrphanSession
PROPERTIES
    ReplacedSessionCloses
CHECK_DEADLOCK FALSE
