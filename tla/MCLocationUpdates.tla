------------------------- MODULE MCLocationUpdates -------------------------
(* Model-checking instance of LocationUpdates.                               *)
EXTENDS LocationUpdates

MCReading ==
    {[pos |-> 0, speed |-> Unset, accuracy |-> 1],
     [pos |-> 2, speed |-> 5, accuracy |-> Unset]}

MCBody ==
    {[to |-> None, reason |-> "USER_REQUEST"], [to |-> 1, reason |-> "CONNECTION_LOST"]}
=============================================================================
