\* Does the agent run until it is terminated?
SPECIFICATION Spec
CONSTANTS
    BatchSize = 2
    MaxSpoolBatches = 2
    MaxSpoolBytes = 3
    OverflowAttempt = 2
    MaxCreated = 1
    MaxClockSteps = 0
    MaxStops = 0
INVARIANTS
    RunsUntilTerminated
