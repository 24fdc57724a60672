SPECIFICATION FairSpec
CONSTANTS
    Locks = {x1}
    Polls = {p1, p2}
    Confirmations = 1
    MaxRange = 2
    Lookback = 3
    ReorgDepth = 1
    ApiMayFail = FALSE
    MaxBlock = 4
    MaxStarts = 2
PROPERTIES
    BackfillCatchesUp
CHECK_DEADLOCK FALSE
