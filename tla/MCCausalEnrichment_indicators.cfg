CONSTANTS
    MacdFast = 2
    MacdSlow = 3
    MacdSignal = 2
    KamaFast = 1
    KamaSlow = 3
    NumBuckets = 4
    Grain = 60
    Short = 3
    Medium = 3
    Long = 3
    Swing = 1
    AoFast = 2
    AoSlow = 3
    Indicators <- MCIndicators
    MinBars = 3
    WindowFloor = 4
    SessionCountWindow = 6
    BarsPerSession = 2
    WyckoffSessions = 2
    DefaultPeriod = 2
    KerPeriod = 4
    PrimaryChoices <- MCPrimaryChoices
    InfoBars <- MCInfoBars
    InfoIndicators <- MCInfoIndicators
    InfoBarsPerSession = 2
    InfoSpan = 2
    MaxFeeds = 2
    MaxResets = 1
SPECIFICATION Spec
CHECK_DEADLOCK FALSE
INVARIANTS
    StreamExact
    NoLookahead
    EnrichmentAgrees
    ProfileSound
    SignalsSound
