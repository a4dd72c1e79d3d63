SPECIFICATION Spec
CONSTANTS
    Conn = {c1, c2, c3}
    NoConn = NoConn
    NoRuntime = NoRuntime
    QueueSize = 2
INVARIANT ServingConnectionHasWorker
CHECK_DEADLOCK FALSE
