CONSTANTS
    MacdFast = 2
    MacdSlow = 3
    MacdSignal = 2
    KamaFast = 1
    KamaSlow = 3
    NumBuckets = 4
    Grain = 60
    Short = 3
    Medium = 3
    Long = 3
    Swing = 1
    AoFast = 2
    AoSlow = 3
    Indicators <- MCBreakIndicators
    MinBars = 2
    WindowFloor = 3
    SessionCountWindow = 6
    BarsPerSession = 2
    WyckoffSessions = 1
    DefaultPeriod = 2
    KerPeriod = 4
    PrimaryChoices <- MCBreakChoices
    InfoBars <- MCBreak
    InfoIndicators <- MCSessionIndicators
    InfoBarsPerSession = 1
    InfoSpan = 1
    MaxFeeds = 4
    MaxResets = 0
SPECIFICATION Spec
CHECK_DEADLOCK FALSE
INVARIANTS
    ParallelEqualsSequential
