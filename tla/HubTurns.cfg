\* One utterance of the microphone with two finals, a typed message, one utterance of the
\* other people with two finals, and two switches or resets.
CONSTANTS
    Spoken = {u1}
    Typed = {m1}
    Peers = {p1}
    u1 = u1
    m1 = m1
    p1 = p1
    MaxFinals = 2
    MaxSwitch = 2
    Same = {m1, p1}
    Fallback = TRUE
    Happens = {"drop", "fails", "extra", "clear"}
SPECIFICATION MCSpec
INVARIANTS CaptionsLeave TypingReleased TurnsBooked
PROPERTIES TextsAnswered
CHECK_DEADLOCK FALSE
