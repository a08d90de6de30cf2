SPECIFICATION Spec
CONSTANTS
    Days <- MCDays
    Mondays <- MCMondays
    DecisionDays <- MCDecisionDays
    Period <- MCPeriod
    Contribution = 4
    Prices <- MCPrices
    TargetWeights <- MCTargetWeights
    MaxDrawdownPct = 60
    MaxDailyLossPct = 40
    MinEquityFloor = 3
    NoTradeBandPct = 3
    TolerancePct = 5
    MaxRetries = 2
    PushMayFail = TRUE
    Fresh = Fresh
    Refused = Refused
    None = None
INVARIANTS
    TypeOK
    KillSavedBeforeLiquidation
    DepositsCounted
PROPERTIES
    StoppedBookIsFrozen
    RecordNeverGoesBack
