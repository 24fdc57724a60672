SPECIFICATION Spec
CONSTANTS
    Locks = {x1, x2}
    Polls = {p1, p2}
    Confirmations = 2
    MaxRange = 2
    Lookback = 3
    ReorgDepth = 2
    ApiMayFail = TRUE
    MaxBlock = 4
    MaxStarts = 2
INVARIANTS
    TypeOK
    SignedIsFinal
    AttestedOneAtATime
    ProcessedIsDone
    NoBlockSkipped
SYMMETRY Symmetry
CHECK_DEADLOCK FALSE
