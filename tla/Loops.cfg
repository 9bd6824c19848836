\* Dollars of two base units, an LTV of one is ten: every loan up to 12 base units.  On Save
\* two reserves, amounts up to 7 base units of three fractions (of four on Kamino).
CONSTANTS
    Whole = 10
    UsdcFactor = 2
    MaxDebt = 12
    MaxCollateral = 14
    Caps = {1, 3, 5, 20}
    Buffers = {5, 6}
    Triggers = {4, 6, 7, 8}
    Reserves = {usdc, sol}
    UsdcReserve = usdc
    Zero = zero
    Wad = 3
    Fraction = 4
    SaveCap = 2
    MaxDeposits = 2
    MaxBorrows = 2
    Amounts = {0, 2, 7}
    MaxMoves = 4
SPECIFICATION LoopsSpec
INVARIANTS
    SaveTypeOK
    AmountRestoresBuffer
    CapSplitsTheRepay
    ReadersAgree
    NothingStaysWithKeeper
    RevertsOnlyDisturbedOrStale
PROPERTIES
    Converges
    SaveConverges
CHECK_DEADLOCK FALSE
