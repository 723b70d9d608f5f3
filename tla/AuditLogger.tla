----------------------------- MODULE AuditLogger -----------------------------
(***************************************************************************)
(* The in-process audit pipeline of utils/audit.go: callers' Log into the *)
(* bounded mainLogCh or, when it is full, the overflow list; the fan-out  *)
(* goroutine copying every event to the stdout pool's and the db pool's   *)
(* input channels; the pools' workers batching by size or timer and       *)
(* handing batches to their processor (admin.go: print, or                *)
(* CreateLogsWithTasks); the overflow goroutine moving overflow back into *)
(* mainLogCh every 100ms; and Shutdown.                                   *)
(*                                                                         *)
(* Each goroutine's select is a set of disjuncts, one per ready case: Go  *)
(* picks any ready case, so all are explored.  A processor call is one    *)
(* step.  Event payloads are abstracted to ids 1..NumEvents.  The events  *)
(* come from router's AuditMiddleware: an odd id 2k-1 is the REQUEST      *)
(* event of the k-th HTTP request and 2k its RESPONSE event, logged after *)
(* the handler returns (the ORDER_STATUS events a handler logs in between *)
(* go through the same Log and are not told apart).                       *)
(***************************************************************************)
EXTENDS Naturals, Sequences, SequencesExt, FiniteSets

CONSTANTS
    NumEvents,          \* audit events produced by request goroutines
    ChanSize,           \* capacity of mainLogCh and of each pool's inputCh
    BatchSize,          \* pool batch size
    Workers,            \* workers of each pool
    DbMayFail,          \* whether CreateLogsWithTasks may fail
    ShutdownMayHappen,  \* whether Shutdown is called
    StdoutFilters,      \* the stdout_filters of audit_filters.json, as a set
    Matches(_, _)       \* Matches(f, e): filter f is a substring of e's JSON

ASSUME /\ NumEvents \in Nat \ {0} /\ ChanSize \in Nat \ {0}
       /\ BatchSize \in Nat \ {0}
       /\ DbMayFail \in BOOLEAN /\ ShutdownMayHappen \in BOOLEAN
       /\ \A f \in StdoutFilters, e \in 1..NumEvents : Matches(f, e) \in BOOLEAN

Events == 1..NumEvents
Pools == <<"stdout", "db">>
PoolIds == DOMAIN Pools
PW == PoolIds \X Workers
NoEvent == 0

VARIABLES
    logged,     \* events whose Log call placed them in the pipeline
    dropped,    \* events whose Log call dropped them (caller ctx done)
    mainCh,     \* mainLogCh
    mainClosed, \* close(mainLogCh) has happened
    cancelled,  \* the logger's context is cancelled
    overflow,   \* the overflow list, front first
    inbox,      \* inbox[i]: input channel of pool i
    inClosed,   \* inClosed[i]: it has been closed
    fan,        \* fan-out goroutine: [pc, ev, next]
    wbatch,     \* wbatch[<<i, w>>]: worker w of pool i's current batch
    wdone,      \* wdone[<<i, w>>]: that worker has returned
    opc,        \* overflow goroutine: "tick", "send" or "done"
    oheld,      \* the event it popped and is trying to send
    printed,    \* printed[e]: times e was printed by the stdout side
    stored,     \* stored[e]: times e was committed with its dispatch task
    spc,        \* Shutdown: "running", "cancelled", "closed", "returned"
    panicked    \* a send on the closed mainLogCh crashed the process

vars == <<logged, dropped, mainCh, mainClosed, cancelled, overflow, inbox,
          inClosed, fan, wbatch, wdone, opc, oheld, printed, stored, spc,
          panicked>>

TypeOK ==
    /\ logged \subseteq Events /\ dropped \subseteq Events
    /\ mainCh \in Seq(Events) /\ Len(mainCh) <= ChanSize
    /\ overflow \in Seq(Events)
    /\ inbox \in [PoolIds -> Seq(Events)]
    /\ \A i \in PoolIds : Len(inbox[i]) <= ChanSize
    /\ {mainClosed, cancelled, panicked} \subseteq BOOLEAN
    /\ inClosed \in [PoolIds -> BOOLEAN]
    /\ fan \in [pc: {"recv", "send", "done"}, ev: Events \cup {NoEvent},
                next: PoolIds]
    /\ wbatch \in [PW -> Seq(Events)] /\ wdone \in [PW -> BOOLEAN]
    /\ opc \in {"tick", "send", "done"} /\ oheld \in Events \cup {NoEvent}
    /\ printed \in [Events -> Nat] /\ stored \in [Events -> Nat]
    /\ spc \in {"running", "cancelled", "closed", "returned"}

Init ==
    /\ logged = {} /\ dropped = {}
    /\ mainCh = <<>> /\ mainClosed = FALSE /\ cancelled = FALSE
    /\ overflow = <<>>
    /\ inbox = [i \in PoolIds |-> <<>>] /\ inClosed = [i \in PoolIds |-> FALSE]
    /\ fan = [pc |-> "recv", ev |-> NoEvent, next |-> 1]
    /\ wbatch = [x \in PW |-> <<>>] /\ wdone = [x \in PW |-> FALSE]
    /\ opc = "tick" /\ oheld = NoEvent
    /\ printed = [e \in Events |-> 0] /\ stored = [e \in Events |-> 0]
    /\ spc = "running" /\ panicked = FALSE

\* An unrecovered panic ends every goroutine.
Alive == ~panicked

\* A channel send that proceeds without blocking or taking the default case.
HasRoom(ch) == Len(ch) < ChanSize

-----------------------------------------------------------------------------
(* Log: a non-blocking send, else the caller's ctx.Done, else the          *)
(* overflow list.  Requests log only while the servers run, before         *)
(* Shutdown (main stops the servers first).                                *)

\* AuditMiddleware: the REQUEST event is logged before c.Next() runs the
\* handler, the RESPONSE event after it, so Log of 2k waits for Log of 2k-1
\* to have returned.
AuditMiddleware(e) == e % 2 = 0 => e - 1 \in logged \cup dropped

Log(e) ==
    /\ Alive /\ spc = "running"
    /\ e \notin logged \cup dropped
    /\ AuditMiddleware(e)
    /\ \/ /\ HasRoom(mainCh)
          /\ mainCh' = Append(mainCh, e) /\ logged' = logged \cup {e}
          /\ UNCHANGED <<overflow, dropped>>
       \/ /\ dropped' = dropped \cup {e}
          /\ UNCHANGED <<mainCh, overflow, logged>>
       \/ /\ ~HasRoom(mainCh)
          /\ overflow' = Append(overflow, e) /\ logged' = logged \cup {e}
          /\ UNCHANGED <<mainCh, dropped>>
    /\ UNCHANGED <<mainClosed, cancelled, inbox, inClosed, fan, wbatch, wdone,
                   opc, oheld, printed, stored, spc, panicked>>

-----------------------------------------------------------------------------
(* fanOutLogs.                                                             *)

CloseInboxes == inClosed' = [i \in PoolIds |-> TRUE]

\* The outer select: receive from mainLogCh; mainLogCh closed and drained;
\* or ctx.Done.  The last two close both pools' channels and return.
FanRecv ==
    /\ Alive /\ fan.pc = "recv"
    /\ \/ /\ mainCh # <<>>
          /\ fan' = [pc |-> "send", ev |-> Head(mainCh), next |-> 1]
          /\ mainCh' = Tail(mainCh)
          /\ UNCHANGED inClosed
       \/ /\ (mainClosed /\ mainCh = <<>>) \/ cancelled
          /\ fan' = [fan EXCEPT !.pc = "done"]
          /\ CloseInboxes
          /\ UNCHANGED mainCh
    /\ UNCHANGED <<logged, dropped, mainClosed, cancelled, overflow, inbox,
                   wbatch, wdone, opc, oheld, printed, stored, spc, panicked>>

\* Fault variant: the inner select without its ctx.Done case.
FanSendNoCancel ==
    LET i == fan.next IN
    /\ Alive /\ fan.pc = "send"
    /\ HasRoom(inbox[i])
    /\ inbox' = [inbox EXCEPT ![i] = Append(@, fan.ev)]
    /\ fan' = IF i = Len(Pools)
              THEN [pc |-> "recv", ev |-> NoEvent, next |-> 1]
              ELSE [fan EXCEPT !.next = i + 1]
    /\ UNCHANGED <<logged, dropped, mainCh, mainClosed, cancelled, overflow,
                   inClosed, wbatch, wdone, opc, oheld, printed, stored, spc,
                   panicked>>

\* The inner select, once per pool in order: send to its channel, or on
\* ctx.Done return at once, leaving the pools' channels open.
FanSend ==
    LET i == fan.next IN
    /\ Alive /\ fan.pc = "send"
    /\ \/ /\ HasRoom(inbox[i])
          /\ inbox' = [inbox EXCEPT ![i] = Append(@, fan.ev)]
          /\ fan' = IF i = Len(Pools)
                    THEN [pc |-> "recv", ev |-> NoEvent, next |-> 1]
                    ELSE [fan EXCEPT !.next = i + 1]
       \/ /\ cancelled
          /\ fan' = [fan EXCEPT !.pc = "done"]
          /\ UNCHANGED inbox
    /\ UNCHANGED <<logged, dropped, mainCh, mainClosed, cancelled, overflow,
                   inClosed, wbatch, wdone, opc, oheld, printed, stored, spc,
                   panicked>>

-----------------------------------------------------------------------------
(* Pool workers.                                                           *)

\* batch = make([]model.AuditLog, 0, pool.batchSize) after a processed
\* batch b.
NewBatchKept(x, b) == [wbatch EXCEPT ![x] = b]

NewBatch(x, b) == [wbatch EXCEPT ![x] = <<>>]

Count(b, e) == Cardinality({k \in DOMAIN b : b[k] = e})

\* stdoutLogProcessor.processLogs prints an event when no filter is
\* configured (the file is missing or fails to load: no filters), else
\* when some filter occurs, case-insensitively, in its JSON.
Printable(e) == StdoutFilters = {} \/ \E f \in StdoutFilters : Matches(f, e)

Printed(b, e) == IF Printable(e) THEN Count(b, e) ELSE 0

\* pool.processor.processLogs(ctx, name, b) of pool i, with the logger's
\* ctx: stdout prints the events its filters keep; db runs
\* CreateLogsWithTasks, which fails once ctx is cancelled (pool.Begin) or
\* on a store error; a failed batch is only logged, so it is lost.
ProcessLogs(i, b) ==
    IF Pools[i] = "stdout"
    THEN /\ printed' = [e \in Events |-> printed[e] + Printed(b, e)]
         /\ UNCHANGED stored
    ELSE /\ \E ok \in IF cancelled THEN {FALSE}
                      ELSE IF DbMayFail THEN BOOLEAN ELSE {TRUE} :
               stored' = IF ok THEN [e \in Events |-> stored[e] + Count(b, e)]
                         ELSE stored
         /\ UNCHANGED printed

\* case logEntry, ok := <-pool.inputCh with ok: append, and process the
\* batch once it holds batchSize events.
WorkerRecv(x) ==
    LET i == x[1]
        b == Append(wbatch[x], Head(inbox[i])) IN
    /\ Alive /\ ~wdone[x] /\ inbox[i] # <<>>
    /\ inbox' = [inbox EXCEPT ![i] = Tail(@)]
    /\ IF Len(b) >= BatchSize
       THEN ProcessLogs(i, b) /\ wbatch' = NewBatch(x, b)
       ELSE wbatch' = [wbatch EXCEPT ![x] = b] /\ UNCHANGED <<printed, stored>>
    /\ UNCHANGED <<logged, dropped, mainCh, mainClosed, cancelled, overflow,
                   inClosed, fan, wdone, opc, oheld, spc, panicked>>

\* case <-timer.C: process a non-empty batch; the timer is reset either way.
WorkerTimerIdle(x) ==
    /\ Alive /\ ~wdone[x]
    /\ UNCHANGED vars

WorkerTimer(x) ==
    /\ Alive /\ ~wdone[x]
    /\ IF wbatch[x] # <<>>
       THEN ProcessLogs(x[1], wbatch[x]) /\ wbatch' = NewBatch(x, wbatch[x])
       ELSE UNCHANGED <<wbatch, printed, stored>>
    /\ UNCHANGED <<logged, dropped, mainCh, mainClosed, cancelled, overflow,
                   inbox, inClosed, fan, wdone, opc, oheld, spc, panicked>>

\* Fault variant: a worker that returns without processing its partial
\* batch.
WorkerExitNoFlush(x) ==
    /\ Alive /\ ~wdone[x]
    /\ (inClosed[x[1]] /\ inbox[x[1]] = <<>>) \/ cancelled
    /\ wbatch' = [wbatch EXCEPT ![x] = <<>>]
    /\ wdone' = [wdone EXCEPT ![x] = TRUE]
    /\ UNCHANGED <<logged, dropped, mainCh, mainClosed, cancelled, overflow,
                   inbox, inClosed, fan, opc, oheld, printed, stored, spc,
                   panicked>>

\* The input channel closed and drained, or ctx.Done: process the partial
\* batch, then return.
WorkerExit(x) ==
    /\ Alive /\ ~wdone[x]
    /\ (inClosed[x[1]] /\ inbox[x[1]] = <<>>) \/ cancelled
    /\ IF wbatch[x] # <<>> THEN ProcessLogs(x[1], wbatch[x])
                          ELSE UNCHANGED <<printed, stored>>
    /\ wbatch' = [wbatch EXCEPT ![x] = <<>>]
    /\ wdone' = [wdone EXCEPT ![x] = TRUE]
    /\ UNCHANGED <<logged, dropped, mainCh, mainClosed, cancelled, overflow,
                   inbox, inClosed, fan, opc, oheld, spc, panicked>>

WorkerStep(x) == WorkerRecv(x) \/ WorkerTimer(x) \/ WorkerExit(x)

-----------------------------------------------------------------------------
(* processOverflow.                                                        *)

\* A ticker tick or ctx.Done.  Once ctx is cancelled,
\* tryFlushOverflowOnShutdown prints the whole overflow list and the
\* goroutine returns.  Otherwise tryFlushOverflow pops the front event
\* under the mutex; an empty list ends this tick.
FlushOverflowOnShutdown ==
    /\ printed' = [e \in Events |-> printed[e] + Count(overflow, e)]
    /\ overflow' = <<>>

OverflowTick ==
    /\ Alive /\ opc = "tick"
    /\ \/ /\ cancelled
          /\ FlushOverflowOnShutdown
          /\ opc' = "done"
          /\ UNCHANGED oheld
       \/ /\ ~cancelled /\ overflow # <<>>
          /\ oheld' = Head(overflow) /\ overflow' = Tail(overflow)
          /\ opc' = "send"
          /\ UNCHANGED printed
    /\ UNCHANGED <<logged, dropped, mainCh, mainClosed, cancelled, inbox,
                   inClosed, fan, wbatch, wdone, stored, spc, panicked>>

\* overflow.PushFront(log) on ctx.Done or default.
PushBack == overflow' = <<oheld>> \o overflow

\* tryFlushOverflow's select, after the mutex is released: a send to
\* mainLogCh, after which the loop pops the next event; ctx.Done or a full
\* channel (default), which push the event back to the front and end the
\* tick.  A send case on a closed channel is always ready and panics when
\* the select picks it.
OverflowSend ==
    /\ Alive /\ opc = "send"
    /\ \/ /\ mainClosed
          /\ panicked' = TRUE
          /\ UNCHANGED <<mainCh, overflow, opc, oheld>>
       \/ /\ ~mainClosed /\ HasRoom(mainCh)
          /\ mainCh' = Append(mainCh, oheld)
          /\ IF overflow # <<>>
             THEN oheld' = Head(overflow) /\ overflow' = Tail(overflow)
                  /\ UNCHANGED opc
             ELSE opc' = "tick" /\ oheld' = NoEvent /\ UNCHANGED overflow
          /\ UNCHANGED panicked
       \/ /\ cancelled \/ (~mainClosed /\ ~HasRoom(mainCh))
          /\ PushBack /\ opc' = "tick" /\ oheld' = NoEvent
          /\ UNCHANGED <<mainCh, panicked>>
    /\ UNCHANGED <<logged, dropped, mainClosed, cancelled, inbox, inClosed, fan,
                   wbatch, wdone, printed, stored, spc>>

OverflowStep == OverflowTick \/ OverflowSend

-----------------------------------------------------------------------------
(* Shutdown: cancel(), then close(mainLogCh), then the waits.              *)

ShutdownCancel ==
    /\ Alive /\ ShutdownMayHappen /\ spc = "running"
    /\ cancelled' = TRUE /\ spc' = "cancelled"
    /\ UNCHANGED <<logged, dropped, mainCh, mainClosed, overflow, inbox,
                   inClosed, fan, wbatch, wdone, opc, oheld, printed, stored,
                   panicked>>

ShutdownClose ==
    /\ Alive /\ spc = "cancelled"
    /\ mainClosed' = TRUE /\ spc' = "closed"
    /\ UNCHANGED <<logged, dropped, mainCh, cancelled, overflow, inbox,
                   inClosed, fan, wbatch, wdone, opc, oheld, printed, stored,
                   panicked>>

\* fanOutWg.Wait(), each pool's wg.Wait(), overflowWg.Wait(): Shutdown
\* returns once the fan-out, every worker and the overflow goroutine have.
AllReturned ==
    /\ fan.pc = "done" /\ opc = "done"
    /\ \A x \in PW : wdone[x]

ShutdownWait ==
    /\ Alive /\ spc = "closed"
    /\ AllReturned
    /\ spc' = "returned"
    /\ UNCHANGED <<logged, dropped, mainCh, mainClosed, cancelled, overflow,
                   inbox, inClosed, fan, wbatch, wdone, opc, oheld, printed,
                   stored, panicked>>

Next ==
    \/ \E e \in Events : Log(e)
    \/ FanRecv \/ FanSend
    \/ \E x \in PW : WorkerStep(x)
    \/ OverflowStep
    \/ ShutdownCancel \/ ShutdownClose \/ ShutdownWait

\* Every goroutine runs when it can, and its ticker and timers keep firing;
\* Shutdown, once called, runs to its end.  Log callers get no fairness.
Fairness ==
    /\ WF_vars(FanRecv \/ FanSend)
    /\ \A x \in PW : WF_vars(WorkerStep(x))
    /\ WF_vars(OverflowStep)
    /\ WF_vars(ShutdownClose \/ ShutdownWait)

Spec == Init /\ [][Next]_vars /\ Fairness

-----------------------------------------------------------------------------
(* Properties.                                                             *)

\* No event is printed twice or stored twice: the overflow goroutine
\* removes what it re-sends, the fan-out copies each received event once
\* per pool, and the shutdown flush prints only what never entered the
\* channel (spec, scenario 6: multiplicity 1 in each pool).
AtMostOnce == \A e \in Events : printed[e] <= 1 /\ stored[e] <= 1

\* Until Shutdown cancels the logger's context, every event Log accepted,
\* into the channel or into the overflow list, eventually reaches the
\* audit_logs table and, when the stdout filters keep it, the stdout
\* stream (spec 4.4 and scenario 6).
EventuallyDelivered ==
    \A e \in Events :
        e \in logged ~>
            (((printed[e] >= 1 \/ ~Printable(e)) /\ stored[e] >= 1) \/ cancelled)

\* Shutdown, once called, returns unless the process crashed: no goroutine
\* it waits for stays blocked, whether it was sending to a full pool
\* channel, holding a partial batch or holding a popped overflow event
\* when the context was cancelled.
ShutdownReturns == spc = "cancelled" ~> (spc = "returned" \/ panicked)

\* A worker that returns, on ctx.Done or on its closed input channel,
\* first delivers its partial batch (spec 4.4): an event that the stdout
\* worker has taken into its batch is printed, when the filters keep it,
\* whether the batch fills, the timer fires or Shutdown comes first.
InBatch(x, e) == \E k \in DOMAIN wbatch[x] : wbatch[x][k] = e

BatchedEventuallyPrinted ==
    \A e \in Events, w \in Workers :
        (Printable(e) /\ InBatch(<<1, w>>, e)) ~> (printed[e] >= 1 \/ panicked)

\* Shutdown never crashes the process: the overflow goroutine never sends
\* on mainLogCh after Shutdown has closed it.
NoSendOnClosedChannel == ~panicked

=============================================================================
