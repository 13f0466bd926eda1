SPECIFICATION ReadySpec
CONSTANTS
    poller = poller
    stream = stream
    retention = retention
    Tasks = {poller, retention}
    Required = {poller, retention}
    Disabled = {retention}
    Threshold = 2
    InitialDelay = 1
    MaxDelay = 2
    MaxFaults = 2
    Poller = poller
    Stream = stream
    PollInterval = 1
    Multiple = 2
    PollTime = 2
    BackoffBase = 1
    BackoffMax = 2
    RetryAfters = {3}
    MaxBadPolls = 2
INVARIANTS
    ReadinessInv
PROPERTIES
    HealthRecovers
    FaultIsRestarted
    ShutdownDrains
    ReadyRecovers
