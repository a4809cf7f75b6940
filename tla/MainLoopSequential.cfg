SPECIFICATION Spec
CONSTANTS
    drainer = drainer
    caller = caller
    NoTask = NoTask
    Runners <- OnlyDrainer
    Drainers <- OnlyDrainer
    OnceCallers <- OnlyDrainer
    EventCallers <- OnlyDrainer
    QueueMax = 2
    MaxAttempts = 2
    RetryOnTimeout = TRUE
    RetryOnException = TRUE
    RecoveryMode = TRUE
    MaxRequests = 3
    MaxEvents = 2
INVARIANTS
    SameBaseline
    CancelReachesRunning
CHECK_DEADLOCK FALSE
