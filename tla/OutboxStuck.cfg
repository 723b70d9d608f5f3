\* One worker whose batch context may expire, or whose store call may fail
\* with a live context: a task left PROCESSING.
CONSTANTS
    NumTasks = 1
    Workers = {w1}
    BatchSize = 2
    MaxAttempts = 3
    BusMayFail = FALSE
    TimeoutMayHappen = TRUE
    MaxDbFailures = 1
    MaxRestarts = 0
SPECIFICATION Spec
PROPERTY EventuallyTerminal
