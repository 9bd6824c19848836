----------------------------- MODULE MCKeeperTwo -----------------------------
(***************************************************************************)
(* Two vaults: "kv" on a Kamino loan and "sv" on a Save loan, or a second  *)
(* Kamino vault "bv" whose obligation cannot be read.                      *)
(***************************************************************************)
EXTENDS Keeper

MCObligationOf == [v \in Vaults |-> CASE v = "kv" -> "ko" [] v = "sv" -> "so" [] v = "bv" -> "bo"]
MCMarketOf == [v \in Vaults |-> IF v = "sv" THEN Save ELSE Kamino]
MCTrigger == [v \in Vaults |-> 7]
MCCap == [v \in Vaults |-> 3]
MCInitialDebt == [o \in Obligations |-> 8]
MCInitialCollateral == [o \in Obligations |-> 10]
MCInitialReserve == [v \in Vaults |-> 3]
MCSmallReserve == [v \in Vaults |-> 1]
==============================================================================
