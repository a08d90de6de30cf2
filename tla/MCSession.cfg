SPECIFICATION FairSpec
CONSTANTS
    MaxBar = 2
    MaxLosses = 3
INVARIANTS
    TypeOK
    TradingOnLiveBars
PROPERTY
    TradingResumes
CHECK_DEADLOCK FALSE
