SPECIFICATION Spec
CONSTANTS
    Frame = {f1, f2, f3, f4}
    Detection <- MCDetection
    WindowSize = 3
    MinConfidence = 7500
    MinHitCount = 1
    ClearHitCount = 3
    MinHitPercent = 50
    ClearHitPercent = 50
    AllowUpdate = TRUE
    MaxTime = 1
    Backstep = 1
    MovingSpeed = 5
    MaxAccuracy = 100
    None = None
    Unset = Unset
SYMMETRY Symmetry
INVARIANTS
    CopiesAgree
    WindowDecides
    ReactionIsMonotone
PROPERTIES
    EndsAfterStart
    EpisodesSpec
CHECK_DEADLOCK FALSE
