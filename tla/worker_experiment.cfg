\* One worker, then two; a failed publication, a late request.
SPECIFICATION FairExperimentSpec
CONSTANTS
    e1 = e1  e2 = e2  e3 = e3  a1 = a1  a2 = a2  w1 = w1  w2 = w2
    Events = {e1, e2}
    Malformed = {}
    Unsupported = {}
    Orphan = {}
    Relays = {r1}
    Workers = {w1, w2}
    Agents = {a1, a2}
    Batch <- MCBatch
    CreatedAt <- MCCreatedAt
    CpuThreshold = 2
    MemoryThreshold = 2
    RelayLimit = 2
    ReadCount = 1
    MaxDelivery = 2
    MaxRelayFaults = 1
    MaxWorkerFaults = 0
    Rounds <- MCRounds
    MaxLate = 1
CHECK_DEADLOCK FALSE
INVARIANTS
    DrainIsComplete
    MismatchMeansFault
PROPERTIES
    RoundsDrain
