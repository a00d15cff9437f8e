SPECIFICATION FairSpec
CONSTANTS
    Configs = {"A", "B"}
    MaxGen = 3
    Happens = {"off", "factory_fails", "loop_fails", "stt_fails"}
INVARIANTS
    NoOrphanCapture
    OffMeansOff
    SerialPolicies
PROPERTIES
    OffSettles
\* The channel may rest, and MaxGen bounds the policies.
CHECK_DEADLOCK FALSE
