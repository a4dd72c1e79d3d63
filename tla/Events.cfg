SPECIFICATION Spec
CONSTANTS
    Writer = {w1, w2}
    Type = {t1, t2}
    Event = {e1, e2, e3}
    End = End
    None = None
SYMMETRY Symmetry
INVARIANTS
    AtMostOneOpen
    TrackingSound
    SomeoneGoesOn
CHECK_DEADLOCK FALSE
