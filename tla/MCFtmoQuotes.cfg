SPECIFICATION FairSpec
CONSTANTS
    Symbols = {A, B}
    Sides = {long}
    Signals <- MCSignals
    DayLength = 2
    MaxTime = 1
    WindowEnd = 2
    Stale = 1
    EquityLevels <- MCEquityLevels
    InitialBalance = 4
    DailyLimit = 3
    OverallLimit = 4
    Risk = 1
    MaxSlots = 2
    Groups <- MCGroups
    Mortal = {A}
    MaxCrashes = 1
    MaxHuman = 0
    None = None
    A = A
    B = B
    long = long
PROPERTY
    FlatAfterHalt
