SPECIFICATION FairSpec
CONSTANTS
    Jobs = {j1}
    Requests <- MCRequests
    None = None
    Horizon = 6
    ChunkBars = 2
    Lookback = 3
    MaxChunks = 3
    SafetyLimit = 5
CHECK_DEADLOCK FALSE
INVARIANTS
    FetchExact
PROPERTIES
    CacheFedWhole
    FetchesSettle
