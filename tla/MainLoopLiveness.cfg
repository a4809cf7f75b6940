SPECIFICATION FairSpec
CONSTANTS
    drainer = drainer
    caller = caller
    NoTask = NoTask
    Runners <- Both
    Drainers <- OnlyDrainer
    OnceCallers <- OnlyCaller
    EventCallers <- OnlyCaller
    QueueMax = 1
    MaxAttempts = 2
    RetryOnTimeout = TRUE
    RetryOnException = TRUE
    RecoveryMode = FALSE
    MaxRequests = 2
    MaxEvents = 1
PROPERTIES
    EventuallyAnswered
CHECK_DEADLOCK FALSE
