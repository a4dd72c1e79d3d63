SPECIFICATION Spec
CONSTANTS
    Request = {r1, r2}
    Profile = {p1, p2, p3}
    Session = {s1, s2}
    Limit = 1
    Low = 3
    High = 4
    Account = Account
    None = None
SYMMETRY Symmetry
INVARIANTS
    ExcessIsConcurrent
    SoundSessions
    RequestsGoOn
PROPERTIES
    EndedOnce
    TunedFromCurrent
CHECK_DEADLOCK FALSE
