SPECIFICATION FairSpec
CONSTANTS
    Symbols = {A, B, C}
    Sides = {long, short}
    Signals <- MCSignals
    DayLength = 1
    MaxTime = 0
    WindowEnd = 1
    Stale = 0
    EquityLevels <- MCTwoLevels
    InitialBalance = 4
    DailyLimit = 3
    OverallLimit = 4
    Risk = 0
    MaxSlots = 1
    Groups <- MCGroups
    Mortal = {}
    MaxCrashes = 1
    MaxHuman = 0
    None = None
    A = A
    B = B
    C = C
    long = long
    short = short
INVARIANT
    NoDoubleEntry
PROPERTY
    FlatAfterHalt
