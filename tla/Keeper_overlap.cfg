\* One vault, a reserve for three fires, two ticks that may overlap, one move.
CONSTANTS
    Whole = 10
    UsdcFactor = 1
    Vaults = {"v1"}
    Obligations = {"o1"}
    ObligationOf <- MCObligationOf
    MarketOf <- MCMarketOf
    Trigger <- MCTrigger
    Cap <- MCCap
    SafeBuffer = 6
    Broken = {}
    Runs = {"r1", "r2"}
    StaleAfter = 1
    InitiallyArmed = {"v1"}
    InitialDebt <- MCInitialDebt
    InitialCollateral <- MCInitialCollateral
    InitialReserve <- MCInitialReserve
    Collaterals = {10}
    MaxMoves = 1
    MaxFailures = 0
    MaxCrashes = 0
SPECIFICATION Spec
PROPERTIES
    NeverBeyondTheBuffer
