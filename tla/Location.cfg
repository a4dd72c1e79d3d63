SPECIFICATION FairSpec
CONSTANTS
    Conn = {c1, c2}
    Request = {e1}
    Time = {1, 2}
    Reading <- MCReading
    Start = 0
    Body <- MCBody
    MovingSpeed = 5
    MaxAccuracy = 10
    Interval = 1
    MaxUpdates = 3
    MaxNow = 1
    None = None
    Unset = Unset
INVARIANTS
    IntervalKept
    SamplesReadWhole
PROPERTIES
    OverIsOver
    EveryoneAnswered
CHECK_DEADLOCK FALSE
