\* One spoken sentence, in the target language already.
CONSTANTS
    Spoken = {u1}
    Typed = {}
    Peers = {}
    u1 = u1
    m1 = m1
    p1 = p1
    MaxFinals = 1
    MaxSwitch = 1
    Same = {u1}
    Fallback = TRUE
    Happens = {}
SPECIFICATION MCSpec
INVARIANTS CaptionsReleased
CHECK_DEADLOCK FALSE
