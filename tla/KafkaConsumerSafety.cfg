\* Reconnects: backoff after a failed Consume and the handlerReady handshake.
\* Once Stop has cancelled the context the consumer goroutine returns and
\* the process exits: such states have no successor.
CONSTANTS
    Msgs = {m1, m2}
    Bad = {}
    BaseDelay = 100
    MaxDelay = 30000
    MaxErrors = 10
    StopMayHappen = TRUE
SPECIFICATION Spec
CHECK_DEADLOCK FALSE
INVARIANT TypeOK
