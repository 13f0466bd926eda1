\* One request a second for writes, two for reads; limiters outlive a burst
\* by one tick; the cache holds two of the three keys in use.
SPECIFICATION Spec
CONSTANTS
    alice = alice
    bob = bob
    nginx = nginx
    Clients = {alice, bob}
    Proxies = {nginx}
    Traffic <- TwoBuckets
    Garbage = garbage
    Written <- SomeWritten
    NoHeader = NoHeader
    BaseRps = 0
    ReadMultiplier = 2
    Second = 2
    IdleTtl = 3
    MaxKeys = 2
INVARIANTS
    LimiterInv
    PromisesAreKept
