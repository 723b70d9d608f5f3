------------------------------- MODULE Outbox -------------------------------
(***************************************************************************)
(* The transactional outbox: the audit_tasks table (migration part_001,   *)
(* repository/audit.go) and the dispatcher worker pool that reserves,     *)
(* publishes and marks tasks (OutboxWorkerPool in repository/user.go).    *)
(*                                                                         *)
(* Task ids are 1..NumTasks and stand also for created_at order.  A       *)
(* worker's processOutboxBatch is split at its I/O calls: FetchTasksIDs   *)
(* (one transaction), then per reserved task GetAuditLog, SendMessage and *)
(* MarkTaskFailed / MarkTaskCompleted (one transaction each).  The 5s     *)
(* context of a batch may expire between any two calls; afterwards every  *)
(* store call of that batch fails, and up to MaxDbFailures store calls may    *)
(* also fail with a live context.  SendMessage, which takes no            *)
(* context (sarama SyncProducer), still publishes.  A crash and restart  *)
(* of the process drops every worker's batch.                              *)
(*                                                                         *)
(* A graceful shutdown follows main's deferred kafkaCleanup: the producer *)
(* is closed first, while the workers still run, and only then does the   *)
(* pool's Stop cancel their context and wait for them to return; a new    *)
(* process starts them again through initKafka.                           *)
(***************************************************************************)
EXTENDS Naturals, Sequences, SequencesExt, FiniteSets

CONSTANTS
    NumTasks,          \* audit tasks the persistent audit pool creates
    Workers,           \* dispatcher goroutines (3 in main)
    BatchSize,         \* FetchTasksIDs limit (5 in main)
    MaxAttempts,       \* attempts_left default (3 in migration part_001)
    BusMayFail,        \* whether SendMessage may fail
    TimeoutMayHappen,  \* whether a batch's 5s context may expire mid-batch
    MaxDbFailures,     \* bound on store calls failing with a live context
    MaxRestarts        \* bound on process restarts explored

ASSUME /\ NumTasks \in Nat \ {0} /\ BatchSize \in Nat \ {0}
       /\ MaxAttempts \in Nat \ {0} /\ MaxRestarts \in Nat
       /\ BusMayFail \in BOOLEAN /\ TimeoutMayHappen \in BOOLEAN
       /\ MaxDbFailures \in Nat

VARIABLES
    status,     \* status[t]: task_status, or "none" before the row exists
    attempts,   \* attempts[t]: attempts_left
    deferred,   \* deferred[t]: next_attempt_after is still in the future
    published,  \* published[t]: messages on the bus carrying task t
    wpc,        \* wpc[w]: where worker w is in processOutboxBatch
    batch,      \* batch[w]: reserved tasks not yet handled, current first
    expired,    \* expired[w]: the current batch's context has expired
    restarts,   \* process restarts and shutdowns so far
    producer,   \* the sync producer: "open" or "closed"
    cancelled,  \* the pool's context is cancelled (Stop)
    dbFailures  \* store calls that failed with a live context so far

vars == <<status, attempts, deferred, published, wpc, batch, expired, restarts,
          producer, cancelled, dbFailures>>

Tasks == 1..NumTasks
Statuses == {"none", "CREATED", "PROCESSING", "COMPLETED", "FAILED",
             "NO_ATTEMPTS_LEFT"}
Terminal == {"COMPLETED", "NO_ATTEMPTS_LEFT"}

TypeOK ==
    /\ status \in [Tasks -> Statuses]
    /\ attempts \in [Tasks -> 0..MaxAttempts]
    /\ deferred \in [Tasks -> BOOLEAN]
    /\ published \in [Tasks -> 0..MaxAttempts]
    /\ wpc \in [Workers -> {"idle", "get", "send", "mark_ok", "mark_fail",
                            "exited"}]
    /\ batch \in [Workers -> Seq(Tasks)]
    /\ expired \in [Workers -> BOOLEAN]
    /\ restarts \in 0..MaxRestarts
    /\ producer \in {"open", "closed"} /\ cancelled \in BOOLEAN
    /\ dbFailures \in 0..MaxDbFailures

Init ==
    /\ status = [t \in Tasks |-> "none"]
    /\ attempts = [t \in Tasks |-> MaxAttempts]
    /\ deferred = [t \in Tasks |-> FALSE]
    /\ published = [t \in Tasks |-> 0]
    /\ wpc = [w \in Workers |-> "idle"]
    /\ batch = [w \in Workers |-> <<>>]
    /\ expired = [w \in Workers |-> FALSE]
    /\ restarts = 0
    /\ producer = "open" /\ cancelled = FALSE
    /\ dbFailures = 0

-----------------------------------------------------------------------------
(* audit_tasks rows.                                                       *)

\* createTasks: one INSERT INTO audit_tasks (log_id) per log; status and
\* attempts_left take the column defaults (CREATED, MaxAttempts).
NewTasks(new) == [t \in Tasks |-> IF t \in new THEN "CREATED" ELSE status[t]]

\* CreateLogsWithTasks: one transaction inserts the logs of a batch and one
\* CREATED task per log; later inserts get later created_at.
\* createLogs: one INSERT ... RETURNING id per log of the batch, sent as one
\* pgx batch, so the new ids are the next ones of the sequence.
CreateLogs(k) == {t \in Tasks : status[t] = "none" /\ t <= k}

CreateLogsWithTasks ==
    \E k \in 1..NumTasks :
       LET new == CreateLogs(k) IN
       /\ new # {}
       /\ status' = NewTasks(new)
       /\ UNCHANGED <<attempts, deferred, published, wpc, batch, expired, restarts,
                      producer, cancelled, dbFailures>>

\* Fault variant: the WHERE clause without its status = 'FAILED' conjunct.
DispatchableUnfiltered(t) ==
    \/ status[t] = "CREATED"
    \/ attempts[t] > 0 /\ ~deferred[t]

\* The WHERE clause of FetchTasksIDs' inner SELECT.  PROCESSING rows are
\* never selected.
Dispatchable(t) ==
    \/ status[t] = "CREATED"
    \/ status[t] = "FAILED" /\ attempts[t] > 0 /\ ~deferred[t]

\* ORDER BY created_at ... LIMIT BatchSize over the dispatchable rows.
Reserve == LET d == {t \in Tasks : Dispatchable(t)} IN
           {t \in d : Cardinality({u \in d : u < t}) < BatchSize}

\* NOW() passes a failed task's next_attempt_after.
BackoffElapses(t) ==
    /\ status[t] = "FAILED" /\ deferred[t]
    /\ deferred' = [deferred EXCEPT ![t] = FALSE]
    /\ UNCHANGED <<status, attempts, published, wpc, batch, expired, restarts,
                   producer, cancelled, dbFailures>>

-----------------------------------------------------------------------------
(* A worker's processOutboxBatch.                                          *)

\* The batch context of worker w is done: it has expired, or the pool's
\* context, its parent, is cancelled.
CtxDone(w) == expired[w] \/ cancelled

\* A store call of worker w fails once its context is done; its Begin,
\* QueryRow, Exec or Commit may also return an error while the context is
\* live (up to MaxDbFailures times), which processOutboxBatch only logs.
StoreFails(w, fails) ==
    \/ fails = CtxDone(w) /\ UNCHANGED dbFailures
    \/ /\ fails /\ ~CtxDone(w) /\ dbFailures < MaxDbFailures
       /\ dbFailures' = dbFailures + 1

\* After the current task: the next reserved task, or back to the ticker.
NextTask(w) ==
    /\ batch' = [batch EXCEPT ![w] = Tail(batch[w])]
    /\ wpc' = [wpc EXCEPT ![w] = IF Tail(batch[w]) = <<>> THEN "idle" ELSE "get"]
    /\ expired' = [expired EXCEPT ![w] = expired[w] /\ Tail(batch[w]) # <<>>]

\* On a ticker tick, unless the inner select finds ctx.Done: FetchTasksIDs
\* marks the reserved rows PROCESSING and returns them in created_at order;
\* an empty result ends the batch.
FetchTasksIDs(w) ==
    /\ wpc[w] = "idle" /\ ~cancelled
    /\ LET r == Reserve IN
       /\ status' = [t \in Tasks |-> IF t \in r THEN "PROCESSING" ELSE status[t]]
       /\ batch' = [batch EXCEPT ![w] = SetToSortSeq(r, <)]
       /\ wpc' = [wpc EXCEPT ![w] = IF r = {} THEN "idle" ELSE "get"]
    /\ UNCHANGED <<attempts, deferred, published, expired, restarts,
                   producer, cancelled, dbFailures>>

\* GetAuditLog; an error sends the task to MarkTaskFailed.
GetAuditLog(w) ==
    /\ wpc[w] = "get"
    /\ \E fails \in BOOLEAN :
          /\ StoreFails(w, fails)
          /\ wpc' = [wpc EXCEPT ![w] = IF fails THEN "mark_fail" ELSE "send"]
    /\ UNCHANGED <<status, attempts, deferred, published, batch, expired, restarts,
                   producer, cancelled>>

\* Fault variant: processOutboxBatch ignoring SendMessage's error.
SendOutcomeIgnored(outcome) == "mark_ok"

\* processOutboxBatch marks the task completed only if SendMessage returned
\* no error.
SendOutcome(outcome) == IF outcome = "ok" THEN "mark_ok" ELSE "mark_fail"

\* The outcomes of a send: on an open producer a success, and when the bus
\* may fail a loss or a write reported as an error (e.g. an ack timeout);
\* a closed producer publishes nothing and returns an error (sarama may
\* also panic on a send after Close; that outcome is not modelled).
SendOutcomes ==
    CASE producer = "closed" -> {"lost"}
      [] BusMayFail          -> {"ok", "lost", "written"}
      [] OTHER               -> {"ok"}

\* SendMessage: a success publishes; a failure may still have reached the
\* broker, and is then a published message the task will be retried for.
SendMessage(w) ==
    LET t == Head(batch[w]) IN
    /\ wpc[w] = "send"
    /\ \E outcome \in SendOutcomes :
          /\ published' = [published EXCEPT ![t] =
                              IF outcome = "lost" THEN @ ELSE @ + 1]
          /\ wpc' = [wpc EXCEPT ![w] = SendOutcome(outcome)]
    /\ UNCHANGED <<status, attempts, deferred, batch, expired, restarts,
                   producer, cancelled, dbFailures>>

\* Fault variant: the CASE tests attempts_left > 0.
FailedStatusLate(n) == IF n > 0 THEN "FAILED" ELSE "NO_ATTEMPTS_LEFT"

\* The status CASE of MarkTaskFailed's UPDATE.
FailedStatus(n) == IF n > 1 THEN "FAILED" ELSE "NO_ATTEMPTS_LEFT"

\* Fault variant: the UPDATE without attempts_left = attempts_left - 1.
AttemptsAfterFailureKept(n) == n

\* Fault variant: the decrement written with the wrong sign.
AttemptsAfterFailureInc(n) == n + 1

\* attempts_left = attempts_left - 1.
AttemptsAfterFailure(n) == n - 1

\* MarkTaskFailed: one transaction locks the row and updates status,
\* attempts_left and next_attempt_after (NOW()+2s, or NULL when no attempt
\* is left).  A failed mark is only logged by processOutboxBatch.

MarkTaskFailed(w) ==
    LET t == Head(batch[w]) IN
    /\ wpc[w] = "mark_fail"
    /\ \E fails \in BOOLEAN :
          /\ StoreFails(w, fails)
          /\ IF fails
             THEN UNCHANGED <<status, attempts, deferred>>
             ELSE /\ status' = [status EXCEPT ![t] = FailedStatus(attempts[t])]
                  /\ attempts' = [attempts EXCEPT ![t] = AttemptsAfterFailure(@)]
                  /\ deferred' = [deferred EXCEPT ![t] = attempts[t] > 1]
    /\ NextTask(w)
    /\ UNCHANGED <<published, restarts, producer, cancelled>>

MarkTaskCompleted(w) ==
    LET t == Head(batch[w]) IN
    /\ wpc[w] = "mark_ok"
    /\ \E fails \in BOOLEAN :
          /\ StoreFails(w, fails)
          /\ IF fails THEN UNCHANGED status
                       ELSE status' = [status EXCEPT ![t] = "COMPLETED"]
    /\ NextTask(w)
    /\ UNCHANGED <<attempts, deferred, published, restarts, producer,
                   cancelled>>

\* context.WithTimeout(ctx, 5*time.Second) of the batch expires.
BatchTimeout(w) ==
    /\ TimeoutMayHappen
    /\ wpc[w] \notin {"idle", "exited"} /\ ~expired[w]
    /\ expired' = [expired EXCEPT ![w] = TRUE]
    /\ UNCHANGED <<status, attempts, deferred, published, wpc, batch, restarts,
                   producer, cancelled, dbFailures>>

\* The process crashes during a batch and starts again (Start): in-memory
\* batches are gone; the rows keep whatever status they had.
Restart ==
    /\ restarts < MaxRestarts
    /\ \E w \in Workers : wpc[w] \notin {"idle", "exited"}
    /\ restarts' = restarts + 1
    /\ wpc' = [w \in Workers |-> "idle"]
    /\ batch' = [w \in Workers |-> <<>>]
    /\ expired' = [w \in Workers |-> FALSE]
    /\ producer' = "open" /\ cancelled' = FALSE
    /\ UNCHANGED <<status, attempts, deferred, published, dbFailures>>

\* On SIGTERM main's deferred calls run: the gRPC and HTTP servers drain,
\* then kafkaCleanup closes the producer while the workers keep running.
ProducerClose ==
    /\ restarts < MaxRestarts /\ producer = "open"
    /\ restarts' = restarts + 1
    /\ producer' = "closed"
    /\ UNCHANGED <<status, attempts, deferred, published, wpc, batch, expired,
                   cancelled, dbFailures>>

\* kafkaCleanup then calls the pool's Stop: cancel, then wg.Wait.
PoolStop ==
    /\ producer = "closed" /\ ~cancelled
    /\ cancelled' = TRUE
    /\ UNCHANGED <<status, attempts, deferred, published, wpc, batch, expired,
                   restarts, producer, dbFailures>>

\* workerRoutine's ctx.Done case, taken between batches: the worker returns.
WorkerExit(w) ==
    /\ wpc[w] = "idle" /\ cancelled
    /\ wpc' = [wpc EXCEPT ![w] = "exited"]
    /\ UNCHANGED <<status, attempts, deferred, published, batch, expired,
                   restarts, producer, cancelled, dbFailures>>

\* Stop's wg.Wait returns once every worker has; the process exits and a
\* new one runs initKafka: a new producer and a started pool.
Start ==
    /\ \A w \in Workers : wpc[w] = "exited"
    /\ wpc' = [w \in Workers |-> "idle"]
    /\ producer' = "open" /\ cancelled' = FALSE
    /\ UNCHANGED <<status, attempts, deferred, published, batch, expired,
                   restarts, dbFailures>>

WorkerStep(w) ==
    \/ FetchTasksIDs(w) \/ GetAuditLog(w) \/ SendMessage(w)
    \/ MarkTaskFailed(w) \/ MarkTaskCompleted(w) \/ WorkerExit(w)

Next ==
    \/ CreateLogsWithTasks
    \/ \E t \in Tasks : BackoffElapses(t)
    \/ \E w \in Workers : WorkerStep(w) \/ BatchTimeout(w)
    \/ Restart \/ ProducerClose \/ PoolStop \/ Start

\* Each worker's ticker fires every polling period and a batch runs to its
\* end, so a worker that can take a step eventually does; wall-clock time
\* passes every 2s backoff.
Fairness ==
    /\ \A w \in Workers : WF_vars(WorkerStep(w))
    /\ \A t \in Tasks : WF_vars(BackoffElapses(t))

Spec == Init /\ [][Next]_vars /\ Fairness

-----------------------------------------------------------------------------
(* Properties.                                                             *)

Owners(t) == {w \in Workers : t \in ToSet(batch[w])}

\* FetchTasksIDs' SKIP LOCKED reservation: a task is in the batch of at most
\* one worker, and only while it is PROCESSING, so no two workers publish
\* or mark the same task.
ExclusiveReservation ==
    \A t \in Tasks : Cardinality(Owners(t)) <= 1 /\
                     (Owners(t) # {} => status[t] = "PROCESSING")

\* The outbox promise: a task is marked COMPLETED only after its message
\* reached the bus.
CompletedOnlyIfPublished ==
    \A t \in Tasks : status[t] = "COMPLETED" => published[t] >= 1

\* Every task written by the audit pipeline is eventually COMPLETED or
\* NO_ATTEMPTS_LEFT (a PROCESSING row left by an abandoned batch would be
\* picked up by the deferred retry the spec describes).
EventuallyTerminal ==
    \A t \in Tasks : status[t] # "none" ~> status[t] \in Terminal

\* A run in which no batch context expires, the process never crashes or
\* shuts down (restarts counts both) and no store call fails with a live
\* context brings every task to COMPLETED or NO_ATTEMPTS_LEFT: each of the
\* three strands a PROCESSING row, and nothing else does, whatever the bus
\* failures and the 2s backoff of the retries.
TerminalUnlessAbandoned ==
    ([](\A w \in Workers : ~expired[w]) /\ [](restarts = 0) /\ [](dbFailures = 0))
        => EventuallyTerminal

\* The table and the dispatcher together keep the audit_tasks promise of
\* OutboxTasks: every change of a task's status, attempts_left or bus
\* messages made by FetchTasksIDs, SendMessage, MarkTaskFailed and
\* MarkTaskCompleted, across batch timeouts, crashes and shutdowns, is a
\* step the promise allows: a mark never hits a task that is no longer
\* reserved, nothing is reserved that is not dispatchable, COMPLETED and
\* NO_ATTEMPTS_LEFT are final (no message leaves for them), and a task is
\* NO_ATTEMPTS_LEFT exactly when its last attempt failed (spec 6).
TaskTable == INSTANCE OutboxTasks WITH sent <- published

TasksRefined == TaskTable!ASpec

=============================================================================
