SPECIFICATION Spec
CONSTANTS
    OrderId = {o1, o2, o3}
    ExecId = {e1, e2, e3}
    Symbols <- MCSymbols
    Contract = "MES"
    MaxQty = 3
    OrderQuantity = 1
    SeedQty = {1}
    NoIntent = NoIntent
    NoExec = NoExec
    MaxBar = 2
    MaxLosses = 1
    MaxOrder = 1
    MaxPosition = 1
    MaxNotional = 1
    MaxGross = 1
    AllowShort = FALSE
    Multiplier <- MCMultiplier
    KillSwitchFlattens = TRUE
    CancelOnShutdown = TRUE
    FlattenOnShutdown = FALSE
    MaxEnds = 1
SYMMETRY Symmetry
INVARIANT NeverShort
CHECK_DEADLOCK FALSE
