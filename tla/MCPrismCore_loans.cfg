SPECIFICATION Spec
CONSTANTS
    Vaults = {v1}
    Loans = {l1}
    Amounts = {1, 2}
    QOne = 2
    MaxU64 = 3
    YearBps = 1
    Apy <- UnitApy
    InitialUsdc = 3
    MaxTime = 0
    MaxEvents = 2
INVARIANTS
    LoanBook
    LossLedger
    DefaultClosesLog
    ReserveIdentity
    WithdrawalsFunded
PROPERTIES
    DefaultIsFinal
    ImplementsLoanGates
CHECK_DEADLOCK FALSE
