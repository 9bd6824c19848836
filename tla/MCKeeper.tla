------------------------------ MODULE MCKeeper ------------------------------
(***************************************************************************)
(* One vault of a Kamino loan, small enough to let everything happen to    *)
(* it: overlapping ticks, failing calls, crashes, moving prices and owners.*)
(***************************************************************************)
EXTENDS Keeper, TLC

OneVault(x) == [v \in {"v1"} |-> x]
OneLoan(x) == [o \in {"o1"} |-> x]

MCObligationOf == OneVault("o1")
MCMarketOf == OneVault(Kamino)
MCTrigger == OneVault(7)
MCCap == OneVault(2)
MCInitialDebt == OneLoan(8)
MCInitialCollateral == OneLoan(10)
MCInitialReserve == OneVault(4)

Symmetry == Permutations(Runs)
=============================================================================
