\* A full spool, partial batches, crashes, a clock set back.
SPECIFICATION FairSpec
CONSTANTS
    BatchSize = 2
    MaxSpoolBatches = 2
    MaxSpoolBytes = 3
    OverflowAttempt = 2
    MaxCreated = 3
    MaxClockSteps = 1
    MaxStops = 2
INVARIANTS
    SpoolBounded
    NoSilentLoss
PROPERTIES
    EvictsOldest
    BatchesArrive
