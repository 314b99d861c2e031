\* A source that publishes, restarts and fails; no stale caches.
SPECIFICATION PullFairSpec
CONSTANTS
    Edge = 2
    MaxFailures = 2
    MaxEpoch = 2
    MaxSeq = 4
    StaleEdges = FALSE
PROPERTIES
    InOrder
    DeadSourceReported
    KeepsUp
