SPECIFICATION FairSpec
CONSTANTS
    InitialCash = 6000
    BarSet <- MCBars
    SignalSet <- MCPolicySignals
    NBars = 6
    FirstTradable = 1
    CommissionPct = 1
    SlippagePct = 1
    Leverage = 1
    MaintenancePct = 5
    FullMargin = FALSE
    EnableFunding = FALSE
    FundingPct = 1
    BorrowPct = 0
    BorrowTimeBasis = "calendar_day"
    BarsPerDay = 2
    RiskPct = 5
    LeverageScaledRisk = FALSE
    RiskPriceBasis = "signal_close"
    CapExplicit = TRUE
    RejectOversized = TRUE
    AllowNegativeCash = FALSE
    DefaultPositionSize = 2
    MinStopDistance = 15
INVARIANTS
    Reconciles
PROPERTIES
    ExitWithinBar
    OrdersWithinMeans
    PositionsClose
