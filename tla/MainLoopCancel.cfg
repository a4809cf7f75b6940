SPECIFICATION Spec
CONSTANTS
    drainer = drainer
    caller = caller
    NoTask = NoTask
    Runners <- Both
    Drainers <- OnlyDrainer
    OnceCallers <- OnlyCaller
    EventCallers <- OnlyCaller
    QueueMax = 2
    MaxAttempts = 2
    RetryOnTimeout = TRUE
    RetryOnException = FALSE
    RecoveryMode = FALSE
    MaxRequests = 2
    MaxEvents = 1
INVARIANTS
    CancelReachesRunning
CHECK_DEADLOCK FALSE
