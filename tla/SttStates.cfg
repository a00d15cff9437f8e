SPECIFICATION Spec
CONSTANTS
    MaxSessions = 3
    MaxUtts = 2
    ConnectAttempts = 2
    StaysWarm = FALSE
    Happens = {"open_fails", "decode_fails", "slow_decode", "warmup", "reset", "silence", "close"}
INVARIANTS
    NoSessionOverwritten
    StateTellsTheTruth
    DeadlineArmed
CHECK_DEADLOCK FALSE
