\* Two workers share the group; a failed publication duplicates entries, an orphan
\* kills the workers that take it, and one of them crashes or is told to stop.
SPECIFICATION Spec
CONSTANTS
    e1 = e1  e2 = e2  e3 = e3  a1 = a1  a2 = a2
    Events = {e1}
    Malformed = {}
    Unsupported = {}
    Orphan = {lost}
    Relays = {r1}
    Workers = {w1, w2}
    Agents = {a1, a2}
    Batch <- MCBatch
    CreatedAt <- MCCreatedAt
    CpuThreshold = 2
    MemoryThreshold = 2
    RelayLimit = 2
    ReadCount = 2
    MaxDelivery = 2
    MaxRelayFaults = 1
    MaxWorkerFaults = 1
SYMMETRY WorkerSymmetry
INVARIANTS
    EffectsExactlyOnce
    NoAcceptedEventLost
