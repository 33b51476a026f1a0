\* Two readers, two events, a worker that crashes twice.
SPECIFICATION FairSpec
CONSTANTS
    Events = {e1, e2}
    Readers = {r1, r2}
    MaxCrashes = 2
INVARIANTS
    AckedIsInvalidated
PROPERTIES
    CacheConverges
