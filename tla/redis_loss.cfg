\* Is an accepted event ever lost with the unflushed tail?
SPECIFICATION RedisSpec
CONSTANTS
    e1 = e1  e2 = e2  e3 = e3  a1 = a1  a2 = a2
    Events = {e1}
    Malformed = {}
    Unsupported = {}
    Orphan = {}
    Relays = {r1}
    Workers = {w1}
    Agents = {a1, a2}
    Batch <- MCBatch
    CreatedAt <- MCCreatedAt
    CpuThreshold = 2
    MemoryThreshold = 2
    RelayLimit = 2
    ReadCount = 2
    MaxDelivery = 2
    MaxRelayFaults = 1
    MaxWorkerFaults = 0
INVARIANTS
    NoAcceptedEventLost
