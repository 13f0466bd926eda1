\* Every sender and retention on one row; the receiver answers 2xx to anything.
\* Disturbances end; time and the workers go on.
SPECIFICATION FairSpec
CONSTANTS
    d1 = d1
    Deliveries = {d1}
    RetryAttempts = 2
    RetryDelay = 1
    RetryMaxDelay = 1
    Timeout = 1
    ResolveTime = 1
    MaxAttempts = 4
    Concurrency = 1
    Grace = 5
    BackoffInitial = 2
    BackoffMax = 6
    Jitter = 1
    RetentionAge = 2
    PruneBatch = 1
    MaxPerCycle = 2
    EmptyAccepted = TRUE
    MaxCrashes = 1
    MaxDbErrors = 1
    MaxBlocked = 1
    MaxManual = 1
    MaxRequeues = 1
INVARIANTS
    DeliveryInv
    GraceKeepsApart
    DeliveredWasHeard
    LostIsKept
PROPERTIES
    RecordedIsResolved
