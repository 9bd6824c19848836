--------------------------- MODULE MCProtectStatus ---------------------------
(***************************************************************************)
(* The owners of two Kamino vaults ask.  "poor" has a reserve for one fire *)
(* of two; "empty" has no reserve, and a loan (6 of 10, trigger 7) that is *)
(* never at risk, so that no save of its own can ever be shown.            *)
(***************************************************************************)
EXTENDS ProtectStatus

MCObligationOf == [v \in Vaults |-> IF v = "poor" THEN "o1" ELSE "o2"]
MCMarketOf == [v \in Vaults |-> Kamino]
MCTrigger == [v \in Vaults |-> 7]
MCCap == [v \in Vaults |-> 1]
MCInitialDebt == [o \in Obligations |-> IF o = "o1" THEN 8 ELSE 6]
MCInitialCollateral == [o \in Obligations |-> 10]
MCInitialReserve == [v \in Vaults |-> IF v = "poor" THEN 1 ELSE 0]
==============================================================================
