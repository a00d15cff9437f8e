SPECIFICATION FairSpec
CONSTANTS
    Targets = {"desktop", "steamvr"}
    MaxStart = 2
    MaxAsked = 3
    Happens = {"peer", "other", "start_fails", "crash"}
INVARIANTS
    TypeOK
    OneOverlay
    ConnectedIsWatched
    OffObeyed
PROPERTIES
    Settles
\* The overlay may rest.
CHECK_DEADLOCK FALSE
