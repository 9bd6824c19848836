\* Two ticks that may overlap and send the same transaction, a move of the world, a failed
\* call and a crash.
CONSTANTS
    Whole = 10
    UsdcFactor = 1
    Vaults = {"v1"}
    Obligations = {"o1"}
    ObligationOf <- MCObligationOf
    MarketOf <- MCMarketOf
    Trigger <- MCTrigger
    Cap <- MCCap
    SafeBuffer = 6
    Broken = {}
    Runs = {r1, r2}
    StaleAfter = 1
    InitiallyArmed = {"v1"}
    InitialDebt <- MCInitialDebt
    InitialCollateral <- MCInitialCollateral
    InitialReserve <- MCInitialReserve
    Collaterals = {10}
    MaxMoves = 1
    MaxFailures = 1
    MaxCrashes = 1
SYMMETRY Symmetry
SPECIFICATION Spec
INVARIANTS
    TypeOK
    LedgerIsEarned
    MissingRowsHaveACause
