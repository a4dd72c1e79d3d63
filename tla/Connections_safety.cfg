\* Three connections: one being closed, one closing it, one overtaking both.
SPECIFICATION Spec
CONSTANTS
    Conn = {c1, c2, c3}
    NoConn = NoConn
    NoRuntime = NoRuntime
    QueueSize = 2
SYMMETRY Symmetry
INVARIANTS
    ResultsOfOneConnection
    ServingSound
PROPERTY OwnershipSpec
\* Every connection may have come and gone.
CHECK_DEADLOCK FALSE
