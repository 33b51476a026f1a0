\* Two relays, more rows than one takes, and a Redis that loses what it
\* had not flushed: entries, deliveries and acknowledgements.
SPECIFICATION RedisSpec
CONSTANTS
    e1 = e1  e2 = e2  e3 = e3  a1 = a1  a2 = a2
    Events = {e1, e2}
    Malformed = {}
    Unsupported = {}
    Orphan = {}
    Relays = {r1, r2}
    Workers = {w1}
    Agents = {a1, a2}
    Batch <- MCBatch
    CreatedAt <- MCCreatedAt
    CpuThreshold = 2
    MemoryThreshold = 2
    RelayLimit = 1
    ReadCount = 2
    MaxDelivery = 2
    MaxRelayFaults = 1
    MaxWorkerFaults = 0
SYMMETRY RelaySymmetry
INVARIANTS
    CopiesBoundedByFailures
    EffectsMatchProcessed
    FlushedEventSurvives
