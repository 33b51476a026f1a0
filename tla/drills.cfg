\* Ticks of 2.5 seconds: a scrape and an evaluation in every other one.
SPECIFICATION FairSpec
CONSTANTS
    Repetitions = 2
    Interval = 2
    Window = 6
    HoldFor = 2
    AlertTimeout = 36
    ReadyTimeout = 24
    ShortTimeout = 12
    MaxCrashes = 1
CHECK_DEADLOCK FALSE
INVARIANTS
    TrialsAreIndependent
    GaugesAreAlerted
PROPERTIES
    DrillsEnd
