\* Two wallets with a loan each; two wallet changes or loads by hand, one click.
CONSTANTS
    Wallets = {"alice", "bob"}
    NoWallet = "nobody"
    Loans = {"la", "lb"}
    NoLoan = "none"
    OwnerOf <- MCOwnerOf
    LoanOf <- MCLoanOf
    Dollar = 2
    Capacity <- MCCapacity
    Liquidation <- MCLiquidation
    DemoLoan = "lb"
    DemoOwner = "nobody"
    Demo = TRUE
    Triggers = {7}
    InitialDebt <- MCInitialDebt
    MaxAmount = 1
    MaxEvents = 2
    MaxClicks = 1
    MaxMoves = 1
    MaxReads = 1
SPECIFICATION FairSpec
INVARIANTS
    TypeOK
    WalletLoanNeedsWallet
    ShownArmedIsArmed
PROPERTIES
    DiscoveryFollowsWallet
    PageCatchesUp
CHECK_DEADLOCK FALSE
