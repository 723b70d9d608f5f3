\* One worker per pool, a one-slot channel (so the overflow list is used),
\* and a Shutdown that may come at any point.  After Shutdown returns the
\* process exits, and a panic ends it, so states with no successor are
\* expected.  The stdout filter keeps the RESPONSE events only.
CONSTANTS
    NumEvents = 3
    ChanSize = 1
    BatchSize = 2
    Workers = {k1}
    DbMayFail = FALSE
    ShutdownMayHappen = TRUE
    StdoutFilters <- MCFilters
    Matches <- MCMatches
SPECIFICATION Spec
CHECK_DEADLOCK FALSE
INVARIANT AtMostOnce
PROPERTY EventuallyDelivered ShutdownReturns BatchedEventuallyPrinted
