\* One vault with a reserve for one fire of two; nothing moves and nothing fails.
CONSTANTS
    Whole = 10
    UsdcFactor = 1
    Vaults = {"poor"}
    Obligations = {"o1"}
    ObligationOf <- MCObligationOf
    MarketOf <- MCMarketOf
    Trigger <- MCTrigger
    Cap <- MCCap
    SafeBuffer = 6
    Broken = {}
    Runs = {"r1"}
    StaleAfter = 1
    InitiallyArmed = {"poor"}
    InitialDebt <- MCInitialDebt
    InitialCollateral <- MCInitialCollateral
    InitialReserve <- MCInitialReserve
    Collaterals = {10}
    MaxMoves = 0
    MaxFailures = 0
    MaxCrashes = 0
SPECIFICATION FairStatusSpec
PROPERTIES
    PartialStaysLoud
