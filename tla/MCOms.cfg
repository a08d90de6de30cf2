SPECIFICATION FairSpec
CONSTANTS
    OrderId = {o1, o2}
    ExecId = {e1, e2}
    Symbols <- MCSymbols
    Contract = "MES"
    Untagged = {e2}
    MaxQty = 2
    SeedQty = {1}
    NoIntent = NoIntent
    NoExec = NoExec
INVARIANTS
    TypeOK
    StateMatchesFills
PROPERTIES
    TerminalIsFinal
    ImplementsOrderBook
    OrdersEnd
    OnlyACancelDropsFills
