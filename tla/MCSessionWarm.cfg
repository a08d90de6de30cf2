SPECIFICATION FairSpec
CONSTANTS
    MaxBar = 2
    MaxLosses = 3
INVARIANT IndicatorsContinuous
CHECK_DEADLOCK FALSE
