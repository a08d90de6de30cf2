SPECIFICATION Spec
CONSTANTS
    OrderId = {o1, o2}
    ExecId = {e1, e2}
    Symbols <- MCSymbols
    Contract = "MES"
    MaxQty = 4
    OrderQuantity = 2
    SeedQty = {}
    NoIntent = NoIntent
    NoExec = NoExec
    MaxBar = 1
    MaxLosses = 2
    MaxOrder = 2
    MaxPosition = 2
    MaxNotional = 2
    MaxGross = 2
    AllowShort = FALSE
    Multiplier <- MCMultiplier
    KillSwitchFlattens = TRUE
    CancelOnShutdown = TRUE
    FlattenOnShutdown = TRUE
    MaxEnds = 1
SYMMETRY Symmetry
INVARIANTS
    TypeOK
    HaltCancels
    LedgerTrue
PROPERTIES
    HaltHolds
CHECK_DEADLOCK FALSE
