\* Two proposals fit the registry, a post is retried once, one restart.
SPECIFICATION FairSpec
CONSTANTS
    a1 = a1  a2 = a2  a3 = a3  v1 = v1  v2 = v2  v3 = v3
    Analyses = {a1, a2, a3}
    Evidence <- MCEvidence
    Reviews = {v1, v2, v3}
    Target <- MCTarget
    Outputs <- MCOutputs
    MaxRetries = 1
    RegistryLimit = 2
    MaxRestarts = 1
INVARIANTS
    FailsClosed
    OneDecision
    RegistryHoldsNewest
PROPERTIES
    AnalysesEnd
\* Every request ends with a response.
CHECK_DEADLOCK FALSE
