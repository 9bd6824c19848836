\* Two vaults; the keeper may crash and stay down, and requests may fail.
CONSTANTS
    Whole = 10
    UsdcFactor = 1
    Vaults = {"poor", "empty"}
    Obligations = {"o1", "o2"}
    ObligationOf <- MCObligationOf
    MarketOf <- MCMarketOf
    Trigger <- MCTrigger
    Cap <- MCCap
    SafeBuffer = 6
    Broken = {}
    Runs = {"r1"}
    StaleAfter = 1
    InitiallyArmed = {"poor", "empty"}
    InitialDebt <- MCInitialDebt
    InitialCollateral <- MCInitialCollateral
    InitialReserve <- MCInitialReserve
    Collaterals = {10}
    MaxMoves = 0
    MaxFailures = 0
    MaxCrashes = 1
SPECIFICATION FairStatusSpec
INVARIANTS
    ShownSaveHappened
PROPERTIES
    DownIsShown
