SPECIFICATION Spec
CONSTANTS
    Locks = {x1}
    Polls = {p1}
    Confirmations = 1
    MaxRange = 2
    Lookback = 5
    ReorgDepth = 0
    ApiMayFail = FALSE
    MaxBlock = 5
    MaxStarts = 1
INVARIANT WaitingIsAhead
CHECK_DEADLOCK FALSE
