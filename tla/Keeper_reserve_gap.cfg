\* A gap of 2, a cap of 3 and a reserve of 1; nothing moves and nothing fails.
CONSTANTS
    Whole = 10
    UsdcFactor = 1
    Vaults = {"kv"}
    Obligations = {"ko"}
    ObligationOf <- MCObligationOf
    MarketOf <- MCMarketOf
    Trigger <- MCTrigger
    Cap <- MCCap
    SafeBuffer = 6
    Broken = {}
    Runs = {"r1"}
    StaleAfter = 1
    InitiallyArmed = {"kv"}
    InitialDebt <- MCInitialDebt
    InitialCollateral <- MCInitialCollateral
    InitialReserve <- MCSmallReserve
    Collaterals = {10}
    MaxMoves = 0
    MaxFailures = 0
    MaxCrashes = 0
SPECIFICATION FairSpec
PROPERTIES
    RepaysWhatItCan
