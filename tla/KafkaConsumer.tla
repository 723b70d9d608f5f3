---------------------------- MODULE KafkaConsumer ----------------------------
(***************************************************************************)
(* The bus consumer of kafka/consumer.go: the goroutine of Consumer.Start *)
(* that calls ConsumerGroup.Consume in a loop, backs off exponentially    *)
(* after an error and awaits the handlerReady handshake after a session;  *)
(* ConsumerHandler.Setup, which closes that channel; ConsumeClaim, which  *)
(* decodes, prints and marks each message; and Consumer.Stop.             *)
(*                                                                         *)
(* Consume itself belongs to the client library.  What the loop relies   *)
(* on is modelled as its possible outcomes: it fails before a session is  *)
(* set up (join or sync error, cancelled context), or it sets a session   *)
(* up (calling Setup once), serves claims until the session ends, and     *)
(* returns nil: once Setup has run, the only error left is the one of     *)
(* releasing the session, which comes from Cleanup (nil here) and from    *)
(* closing the offset manager (nil as well).                               *)
(***************************************************************************)
EXTENDS Naturals

CONSTANTS
    Msgs,            \* messages of the audit topic
    Bad,             \* those whose value does not decode as an AuditLog
    BaseDelay,       \* baseDelay, in ms
    MaxDelay,        \* maxDelay, in ms
    MaxErrors,       \* bound on consecutiveErrors explored
    StopMayHappen    \* Consumer.Stop is called

ASSUME /\ Bad \subseteq Msgs
       /\ BaseDelay \in Nat \ {0} /\ MaxDelay \in Nat /\ MaxErrors \in Nat
       /\ StopMayHappen \in BOOLEAN

VARIABLES
    cpc,          \* the goroutine: "loop", "consume", "backoff", "await", "done"
    readyClosed,  \* the current handlerReady channel has been closed
    setup,        \* the current Consume call has run Setup
    errs,         \* consecutiveErrors
    delay,        \* the backoff last computed, in ms (0: none yet)
    cancelled,    \* the consumer's ctx is cancelled
    emitted,      \* messages printed by ConsumeClaim
    marked        \* messages marked as consumed

vars == <<cpc, readyClosed, setup, errs, delay, cancelled, emitted, marked>>

TypeOK ==
    /\ cpc \in {"loop", "consume", "backoff", "await", "done"}
    /\ {readyClosed, setup, cancelled} \subseteq BOOLEAN
    /\ errs \in 0..MaxErrors /\ delay \in 0..MaxDelay
    /\ emitted \subseteq Msgs /\ marked \subseteq Msgs

Init ==
    /\ cpc = "loop" /\ readyClosed = FALSE /\ setup = FALSE
    /\ errs = 0 /\ delay = 0 /\ cancelled = FALSE
    /\ emitted = {} /\ marked = {}

\* min(maxDelay, baseDelay * 2^(consecutiveErrors-1)), on float64 values
\* that are all exact here.
BackoffUncapped(n) == BaseDelay * 2^(n - 1)

Backoff(n) ==
    IF BaseDelay * 2^(n - 1) < MaxDelay THEN BaseDelay * 2^(n - 1) ELSE MaxDelay

\* Top of the loop: ctx.Done, or call Consume with a fresh handler that
\* shares handlerReady.
LoopTop ==
    /\ cpc = "loop"
    /\ cpc' = IF cancelled THEN "done" ELSE "consume"
    /\ setup' = FALSE
    /\ UNCHANGED <<readyClosed, errs, delay, cancelled, emitted, marked>>

\* ConsumerHandler.Setup: close(c.ready).
Setup ==
    /\ cpc = "consume" /\ ~setup
    /\ readyClosed' = TRUE
    /\ setup' = TRUE
    /\ UNCHANGED <<cpc, errs, delay, cancelled, emitted, marked>>

\* ConsumeClaim: a message is marked whether or not it decodes; only one
\* that decodes is printed first.
ConsumeClaim(m) ==
    /\ cpc = "consume" /\ setup /\ m \notin marked
    /\ emitted' = IF m \in Bad THEN emitted ELSE emitted \cup {m}
    /\ marked' = marked \cup {m}
    /\ UNCHANGED <<cpc, readyClosed, setup, errs, delay, cancelled>>

\* Consume returns.  An error increments consecutiveErrors and computes
\* the backoff; nil resets the counter and, unless ctx is done, goes on to
\* await handlerReady.
ConsumeError ==
    /\ cpc = "consume" /\ ~setup
    /\ errs < MaxErrors
    /\ errs' = errs + 1 /\ delay' = Backoff(errs + 1)
    /\ cpc' = "backoff"
    /\ UNCHANGED <<readyClosed, setup, cancelled, emitted, marked>>

ConsumeReturned ==
    /\ cpc = "consume" /\ setup
    /\ errs' = 0
    /\ cpc' = IF cancelled THEN "done" ELSE "await"
    /\ UNCHANGED <<readyClosed, setup, delay, cancelled, emitted,
                   marked>>

\* select on time.After(backoff) or ctx.Done, then continue.
BackoffWait ==
    /\ cpc = "backoff"
    /\ \/ cpc' = "loop"
       \/ cancelled /\ cpc' = "done"
    /\ UNCHANGED <<readyClosed, setup, errs, delay, cancelled, emitted,
                   marked>>

\* select on <-handlerReady (then a new channel and a reset counter) or
\* ctx.Done.
AwaitReady ==
    /\ cpc = "await"
    /\ \/ /\ readyClosed
          /\ readyClosed' = FALSE /\ errs' = 0 /\ cpc' = "loop"
       \/ /\ cancelled /\ cpc' = "done"
          /\ UNCHANGED <<readyClosed, errs>>
    /\ UNCHANGED <<setup, delay, cancelled, emitted, marked>>

\* Consumer.Stop: cancel(), then wg.Wait and Close.
Stop ==
    /\ StopMayHappen /\ ~cancelled
    /\ cancelled' = TRUE
    /\ UNCHANGED <<cpc, readyClosed, setup, errs, delay, emitted,
                   marked>>

Next ==
    \/ LoopTop \/ Setup \/ \E m \in Msgs : ConsumeClaim(m)
    \/ ConsumeError \/ ConsumeReturned \/ BackoffWait \/ AwaitReady \/ Stop

Spec == Init /\ [][Next]_vars

=============================================================================
