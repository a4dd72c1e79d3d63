\* Enough messages for metadata to be claimed, superseded and timed out while
\* two earlier timeouts are still being reported.
SPECIFICATION FairPairing
CONSTANT MaxGeneration = 7
INVARIANTS
    OneFate
    BooksKept
PROPERTY WaitingEnds
\* The connection may be gone.
CHECK_DEADLOCK FALSE
