SPECIFICATION Spec
CONSTANTS
    Apps = {a1, a2}
    Requests = {r1, r2}
    LastId = 1
    Shown = 2
    MaxTx = 3
    None = None
    Demo = Demo
SYMMETRY Symmetry
INVARIANTS
    TypeOK
    RowNamesTheLoan
    EveryLoanIsListed
