SPECIFICATION FairSpec
CONSTANTS
    Locks = {x1}
    Requests = {r1, r2}
    Confirmations = 1
    MaxRange = 1
    Lookback = 2
    ReorgDepth = 1
    MayFail = TRUE
    MaxBlock = 4
INVARIANTS
    TypeOK
    CursorsBehindScans
    SignedIsFinal
PROPERTIES
    RangeIsCaught
CHECK_DEADLOCK FALSE
