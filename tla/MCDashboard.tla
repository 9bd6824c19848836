---------------------------- MODULE MCDashboard ----------------------------
(***************************************************************************)
(* Alice has a loan with a borrow, Bob one without a loan shown before and *)
(* a lower liquidation LTV.                                                *)
(***************************************************************************)
EXTENDS Dashboard

MCOwnerOf == [l \in Loans |-> IF l = "la" THEN "alice" ELSE "bob"]
MCLoanOf == [w \in Wallets |-> IF w = "alice" THEN "la" ELSE "lb"]
MCCapacity == [l \in Loans |-> 2]
MCLiquidation == [l \in Loans |-> IF l = "la" THEN 8 ELSE 6]
MCInitialDebt == [l \in Loans |-> IF l = "la" THEN 2 ELSE 0]
=============================================================================
