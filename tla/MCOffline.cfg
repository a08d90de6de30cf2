SPECIFICATION OfflineSpec
CONSTANTS
    None = None
    Members = {"a", "b"}
    Adaptive = {"a"}
    Warmup <- WarmupBars
    OrderQuantity = 2
    ConfirmWindow = 2
    KMin = 0
    KMax = 2
    Defaults <- Thresholds
    MinAgreement = 1
    FixedQuantity = 0
    MaxOrder = 2
    MaxPosition = 2
    MaxNotional = 20
    MaxGross = 20
    AllowShort = FALSE
    Multiplier <- ContractMultiplier
    MaxLoss = 8
    MaxLossPct = 15
    Symbol = "MES"
    InitialCash = 30
    SplitFills = TRUE
    Views <- EnsembleViews
    MaxBars = 6
    SimSlippage = 0
    SimCommission = 1
    SimCloses = {3, 5}
    LastHour = 2
    FirstDay = 1
    LastDay = 2
    BadDays = {1}
    Hashes = {"p", "q"}
    MaxRuns = 6
    MaxCrashes = 1
    Symbols = {"E", "G"}
    Group = {"E", "G"}
    MaxSlots = 1
    MaxConsecutiveLosses = 2
    InitialBalance = 50
    DailyLimit = 17
    OverallLimit = 40
    RiskAmount = 4
    Spread = 1
    Slippage = 0
    Commission = 1
    MinLot = 1
    MaxLot = 2
    TargetR = 2
    BreakevenR = 1
    Closes = {5}
    Prices = {3, 4, 5, 6, 7}
    Distances = {2}
    BacktestDays = 1
    Times = {0, 1, 2, 3, 4, 5, 6}
    Impacts = {"HIGH", "MEDIUM"}
    Before <- Window
    After <- Window
    Horizon = 4
    MaxEvents = 3
    FirstBar = 2
    RangeBars = 1
    LastBar = 5
    Lookback = 5
    NewsWindow = 0
    EventTimes = {3, 4}
    MaxChanges = 1
    MaxFailures = 2
    PaperSymbols <- Universe
    NoTradeBandPct = 5
    FixedMinFee = 1
    PerShareFee = 0
    CostPct = 0
    VenueMaxOrders = 2
    VenueMinNotional = 1
    VenueMaxCostPct = 100
    VenueCash = {0, 3, 8}
    VenueShares = {0, 1, 3}
    VenuePrices = {1, 2}
    VenueWeights = {0, 50}
    PaperMaxOrders = 3
    PaperMinNotional = 2
    PaperMaxCostPct = 50
    PaperPrices = {2, 4}
    BarDays <- Days
    DepositDays = {1, 3}
    Deposit = 2
    DecisionBars = {1, 3}
    InitialEquity = 16
    MaxDrawdownPct = 25
    MaxDailyLossPct = 20
    MinEquityFloor = 3
    MaxPositionPct = 100
    MaxGrossPct = 100
    TopN = 2
    Defensive = "C"
    Scores = {0, 1, 9}
    Missing = 9
    Initial = 20
    EngineDaily = 3
    EngineOverall = 5
    FtmoDaily = 5
    FtmoOverall = 8
    Target = 3
    MinTradingDays = 2
    Results <- TradeResults
    Blocks = 2
    MaxDays = 3
INVARIANTS
    OfflineTypeOK
    AccountsAddUp
    StopsHold
    RebalanceSafe
    DailyLimitHolds
    ChallengeSound
    ResearchSound
    BlackoutFound
    OneEntryPerSession
PROPERTY
    OneLessonPerTrip
CHECK_DEADLOCK FALSE
