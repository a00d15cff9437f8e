SPECIFICATION FairSpec
CONSTANTS
    Utterances = 3
    Finals = 1
    MaxBuffers = 2
    Happens = {"spec_fails", "overlay_waits", "resets", "turns_off", "turns_on"}
INVARIANTS
    TranslatesWhatItSends
    NoTextForgotten
PROPERTIES
    Delivers
    HeldWhileResumed
    EveryTextLeaves
\* The user may stop speaking.
CHECK_DEADLOCK FALSE
