\* Two workers, three tasks in batches of two, bus failures, batch timeouts,
\* a store failure with a live context, and one crash or graceful shutdown.
\* Two attempts per task: a retry, then NO_ATTEMPTS_LEFT.
\* No symmetry: the refinement property is checked on the same graph.
CONSTANTS
    NumTasks = 3
    Workers = {w1, w2}
    BatchSize = 2
    MaxAttempts = 2
    BusMayFail = TRUE
    TimeoutMayHappen = TRUE
    MaxDbFailures = 1
    MaxRestarts = 1
SPECIFICATION Spec
INVARIANT TypeOK ExclusiveReservation CompletedOnlyIfPublished
PROPERTY TasksRefined
