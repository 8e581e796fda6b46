SPECIFICATION Spec
CONSTANTS
    InitialCash = 6000
    BarSet <- MCBars
    SignalSet <- MCMixedSignals
    NBars = 5
    FirstTradable = 0
    CommissionPct = 1
    SlippagePct = 1
    Leverage = 4
    MaintenancePct = 5
    FullMargin = TRUE
    EnableFunding = TRUE
    FundingPct = 1
    BorrowPct = 300
    BorrowTimeBasis = "calendar_day"
    BarsPerDay = 2
    RiskPct = 5
    LeverageScaledRisk = TRUE
    RiskPriceBasis = "entry_fill"
    CapExplicit = TRUE
    RejectOversized = FALSE
    AllowNegativeCash = FALSE
    DefaultPositionSize = 2
    MinStopDistance = 15
INVARIANTS
    TypeOK
    MoneyAccounted
    MarginAccounted
    OrdersLiveOneBar
    StopProtects
    TradesDated
