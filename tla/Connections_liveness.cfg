SPECIFICATION FairSpec
CONSTANTS
    Conn = {c1, c2}
    NoConn = NoConn
    NoRuntime = NoRuntime
    QueueSize = 1
PROPERTIES
    CleanupCompletes
    QueuedFramesReachTheModel
CHECK_DEADLOCK FALSE
