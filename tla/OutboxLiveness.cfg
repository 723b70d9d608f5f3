\* Two workers, two tasks in one batch, three attempts: bus failures, batch
\* timeouts, a store failure with a live context, and one crash or graceful
\* shutdown, for the liveness of the retries.
\* No symmetry: the temporal property is checked on the state graph.
CONSTANTS
    NumTasks = 2
    Workers = {w1, w2}
    BatchSize = 2
    MaxAttempts = 3
    BusMayFail = TRUE
    TimeoutMayHappen = TRUE
    MaxDbFailures = 1
    MaxRestarts = 1
SPECIFICATION Spec
PROPERTY TerminalUnlessAbandoned
