SPECIFICATION Spec
CONSTANTS
    Request = {r1, r2, r3}
    Place = {home, favorite, p3, p4, p5}
    home = home
    favorite = favorite
    Fixed = {"HOME", "WORK"}
    Data <- MCData
    Patch <- MCPatch
    Existing <- MCExisting
    MaxSize = 3
    None = None
SYMMETRY Symmetry
INVARIANTS
    UniquePlaces
    OnlyOverlap
    HistoryIsWhatThereIs
    NothingStuck
PROPERTIES
    OkMeansStored
CHECK_DEADLOCK FALSE
