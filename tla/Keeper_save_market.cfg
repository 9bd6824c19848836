\* One vault of a Save loan.
CONSTANTS
    Whole = 10
    UsdcFactor = 1
    Vaults = {"sv"}
    Obligations = {"so"}
    ObligationOf <- MCObligationOf
    MarketOf <- MCMarketOf
    Trigger <- MCTrigger
    Cap <- MCCap
    SafeBuffer = 6
    Broken = {}
    Runs = {"r1"}
    StaleAfter = 1
    InitiallyArmed = {"sv"}
    InitialDebt <- MCInitialDebt
    InitialCollateral <- MCInitialCollateral
    InitialReserve <- MCInitialReserve
    Collaterals = {10}
    MaxMoves = 0
    MaxFailures = 0
    MaxCrashes = 0
SPECIFICATION Spec
PROPERTIES
    FiresOnlyAtRisk
