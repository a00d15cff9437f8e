SPECIFICATION MicFairSpec
CONSTANTS
    Replacers = {"apply", "again"}
    Mics = {"m1", "m2", "m3"}
INVARIANTS
    NoOrphanMic
PROPERTIES
    SwitchObeyed
