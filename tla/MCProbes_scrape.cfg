\* A worker that crashes and one without work; two requests; a bound for each latency and none.
SPECIFICATION ProbesSpec
CONSTANTS
    poller = poller
    retention = retention
    r1 = r1
    r2 = r2
    d1 = d1
    Tasks = {poller, retention}
    Required = {poller, retention}
    Disabled = {retention}
    Threshold = 1
    Readers = {r1, r2}
    Dispatches = {d1}
    Bounds <- SomeBounds
    Latencies = {10, 60}
    MaxPanics = 1
SYMMETRY RequestsAlike
INVARIANTS
    ProbesInv
    AnswersHold
