----------------------------- MODULE OutboxTasks -----------------------------
(***************************************************************************)
(* What the audit_tasks table promises (spec 4.5, data model AuditTask),  *)
(* with no workers, batches, contexts or clocks: a task is created        *)
(* CREATED, is reserved while it is dispatchable, may have its message    *)
(* published only while reserved, and leaves PROCESSING either COMPLETED, *)
(* once a message of it is on the bus, or by a failure that spends one    *)
(* attempt.  The backoff of a FAILED task is a refinement of Reserve's    *)
(* guard and is left out.  A PROCESSING task may also stay so forever.    *)
(***************************************************************************)
EXTENDS Naturals

CONSTANTS Tasks, MaxAttempts

VARIABLES status, attempts, sent

avars == <<status, attempts, sent>>

AInit ==
    /\ status = [t \in Tasks |-> "none"]
    /\ attempts = [t \in Tasks |-> MaxAttempts]
    /\ sent = [t \in Tasks |-> 0]

\* The logs of a batch and one CREATED task per log appear in one step.
Create(S) ==
    /\ S # {} /\ \A t \in S : status[t] = "none"
    /\ status' = [t \in Tasks |-> IF t \in S THEN "CREATED" ELSE status[t]]
    /\ UNCHANGED <<attempts, sent>>

CanReserve(t) ==
    \/ status[t] = "CREATED"
    \/ status[t] = "FAILED" /\ attempts[t] > 0

\* A batch of dispatchable tasks becomes PROCESSING at once.
Reserve(S) ==
    /\ S # {} /\ \A t \in S : CanReserve(t)
    /\ status' = [t \in Tasks |-> IF t \in S THEN "PROCESSING" ELSE status[t]]
    /\ UNCHANGED <<attempts, sent>>

\* Only a reserved task's message goes to the bus.
Publish(t) ==
    /\ status[t] = "PROCESSING"
    /\ sent' = [sent EXCEPT ![t] = @ + 1]
    /\ UNCHANGED <<status, attempts>>

Complete(t) ==
    /\ status[t] = "PROCESSING" /\ sent[t] >= 1
    /\ status' = [status EXCEPT ![t] = "COMPLETED"]
    /\ UNCHANGED <<attempts, sent>>

\* A failure spends an attempt; the last one leaves NO_ATTEMPTS_LEFT.
Fail(t) ==
    /\ status[t] = "PROCESSING"
    /\ attempts' = [attempts EXCEPT ![t] = @ - 1]
    /\ status' = [status EXCEPT ![t] =
                     IF attempts[t] > 1 THEN "FAILED" ELSE "NO_ATTEMPTS_LEFT"]
    /\ UNCHANGED sent

ANext ==
    \/ \E S \in SUBSET Tasks : Create(S) \/ Reserve(S)
    \/ \E t \in Tasks : Publish(t) \/ Complete(t) \/ Fail(t)

ASpec == AInit /\ [][ANext]_avars

=============================================================================
