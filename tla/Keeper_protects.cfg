\* A vault to protect beside one whose loan cannot be read; ticks may overlap.
CONSTANTS
    Whole = 10
    UsdcFactor = 1
    Vaults = {"kv", "bv"}
    Obligations = {"ko", "bo"}
    ObligationOf <- MCObligationOf
    MarketOf <- MCMarketOf
    Trigger <- MCTrigger
    Cap <- MCCap
    SafeBuffer = 6
    Broken = {"bo"}
    Runs = {"r1", "r2"}
    StaleAfter = 1
    InitiallyArmed = {}
    InitialDebt <- MCInitialDebt
    InitialCollateral <- MCInitialCollateral
    InitialReserve <- MCInitialReserve
    Collaterals = {8, 10}
    MaxMoves = 2
    MaxFailures = 1
    MaxCrashes = 0
SPECIFICATION FairSpec
PROPERTIES
    Protects
    OverRepayTakesTwo
