SPECIFICATION Spec
CONSTANTS
    Vaults = {v1}
    Loans = {}
    Amounts = {1, 2}
    QOne = 4
    MaxU64 = 4
    YearBps = 1
    Apy <- UnitApy
    InitialUsdc = 4
    MaxTime = 1
    MaxEvents = 1
INVARIANTS
    TypeOK
    NavFresh
    SupplyBacked
    PayoutCovered
PROPERTIES
    Seniority
    YieldSeniority
    NavFallsOnlyByLoss
    RoundTripNeverGains
CHECK_DEADLOCK FALSE
