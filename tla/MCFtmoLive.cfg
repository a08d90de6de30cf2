SPECIFICATION Spec
CONSTANTS
    Symbols = {A}
    Sides = {long}
    Signals <- MCSignals
    DayLength = 2
    MaxTime = 3
    WindowEnd = 1
    Stale = 1
    EquityLevels <- MCEquityLevels
    InitialBalance = 4
    DailyLimit = 3
    OverallLimit = 4
    Risk = 1
    MaxSlots = 2
    Groups <- MCGroups
    Mortal = {A}
    MaxCrashes = 2
    MaxHuman = 1
    None = None
    A = A
    B = B
    long = long
INVARIANTS
    TypeOK
    NoDoubleEntry
    BlindGuardLooksDead
PROPERTIES
    BaselineKeptAllDay
    HaltOutlastsItsCause
