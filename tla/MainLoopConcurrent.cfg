SPECIFICATION Spec
CONSTANTS
    drainer = drainer
    caller = caller
    NoTask = NoTask
    Runners <- Both
    Drainers <- OnlyDrainer
    OnceCallers <- OnlyCaller
    EventCallers <- OnlyCaller
    QueueMax = 2
    MaxAttempts = 2
    RetryOnTimeout = TRUE
    RetryOnException = FALSE
    RecoveryMode = FALSE
    MaxRequests = 3
    MaxEvents = 1
INVARIANTS
    TypeOK
    EveryRequestInOnePlace
    EventsCarried
    CurrentTaskRunning
    BaselineSettled
    ObservationsBounded
PROPERTIES
    CancelHonoured
CHECK_DEADLOCK FALSE
