\* Two vaults on one Kamino loan and one on a Save loan; two armings and two transactions.
CONSTANTS
    Parties <- MCParties
    NoKeeper = NoKeeper
    Owners <- MCOwners
    Accounts <- MCAccounts
    HolderOf <- MCHolderOf
    Obligations = {"ob", "saveOb"}
    Reserves = {"usdc", "sol"}
    UsdcReserves = {"usdc"}
    MarketOf <- MCMarketOf
    MaxU64 = 5
    MaxInterest = 1
    MaxSubmits = 4
    Transactions <- MCTransactions
    InitialWallet <- MCInitialWallet
    InitialDebt <- MCInitialDebt
SPECIFICATION Spec
INVARIANTS
    TypeOK
    EveryReleaseRepays
    Custody
    CapPerTransaction
    TotalRepaidIsReal
    
PROPERTIES
    ImplementsPromise
CHECK_DEADLOCK FALSE
