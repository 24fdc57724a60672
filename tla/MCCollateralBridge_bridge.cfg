SPECIFICATION Spec
CONSTANTS
    Requests = {r1, r2}
    Principal = 2
    Interest = 1
    MayFail = TRUE
INVARIANTS
    TypeOK
    SettledTogether
    DisbursedIsBacked

    
SYMMETRY Symmetry
