\* Two searches per window of three ticks; the code bucket is exhausted with the
\* second access point, the other within the first.
SPECIFICATION SearchSpec
CONSTANTS
    Buckets = {"code", "issues"}
    Plan <- MCPlan
    PerPoint = 3
    Limit = 2
    Window = 3
    Skew = 1
    Margin = 1
    DefaultWait = 3
    MaxRateWait = 4
    HttpTimeout = 1
    RunDeadline = 12
    Unset = Unset
INVARIANTS
    HonestResult
PROPERTIES
    RefusedOnlyIfShared
