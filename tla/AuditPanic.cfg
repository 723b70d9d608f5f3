\* Shutdown while the overflow goroutine holds a popped event; a panic
\* or the exit after Shutdown leaves states with no successor.
CONSTANTS
    NumEvents = 3
    ChanSize = 1
    BatchSize = 2
    Workers = {k1}
    DbMayFail = TRUE
    ShutdownMayHappen = TRUE
    StdoutFilters <- MCFilters
    Matches <- MCMatches
SPECIFICATION Spec
CHECK_DEADLOCK FALSE
INVARIANT NoSendOnClosedChannel
