\* An event and an entry of an unknown type, under fairness; one crash or signal.
SPECIFICATION FairSpec
CONSTANTS
    e1 = e1  e2 = e2  e3 = e3  a1 = a1  a2 = a2
    Events = {e1}
    Malformed = {}
    Unsupported = {odd}
    Orphan = {}
    Relays = {r1}
    Workers = {w1, w2}
    Agents = {a1, a2}
    Batch <- MCBatch
    CreatedAt <- MCCreatedAt
    CpuThreshold = 2
    MemoryThreshold = 2
    RelayLimit = 2
    ReadCount = 2
    MaxDelivery = 2
    MaxRelayFaults = 0
    MaxWorkerFaults = 1
INVARIANTS
    AckedMeansSettled
    NoEarlyDeadLetter
    InductiveInvariant
PROPERTIES
    ImplementsLedger
    AcceptedIsProcessed
    FailuresAreDeadLettered
    BacklogDrains
    TerminatedExits
