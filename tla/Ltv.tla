--------------------------------- MODULE Ltv ---------------------------------
(***************************************************************************)
(* The trigger arithmetic (core/src/ltv.ts) and the conversion of its      *)
(* result to the amount that is sent (keeper/src/fire-toplevel.ts).        *)
(*                                                                         *)
(* Every amount is in base units of USDC, UsdcFactor of them to a dollar.  *)
(* The code computes with dollars, so its Math.floor rounds to a whole     *)
(* dollar, and compares a cap that is in base units with them.             *)
(***************************************************************************)
EXTENDS Integers

CONSTANTS
    Whole,          \* an LTV of one: 10_000 basis points
    UsdcFactor      \* base units in a dollar: 1_000_000

ASSUME LtvAssumption ==
    /\ Whole \in Nat \ {0}
    /\ UsdcFactor \in Nat \ {0}

Min2(a, b) == IF a <= b THEN a ELSE b

\* debt / collateral in basis points, rounded to the nearest.
LtvOf(debt, collateral) == (2 * debt * Whole + collateral) \div (2 * collateral)

\* The debt that the buffer allows, in whole dollars.
TargetDebt(collateral, buffer) ==
    ((collateral * buffer) \div (Whole * UsdcFactor)) * UsdcFactor

\* Plausible bug: everything is repaid.
NeededEverything(debt, collateral, buffer) == debt

Needed(debt, collateral, buffer) ==
    LET target == TargetDebt(collateral, buffer)
    IN  IF debt > target THEN debt - target ELSE 0

\* Plausible bug: the trigger itself still holds.
RepayAboveTrigger(ltv, trigger, cap, buffer, debt, collateral) ==
    IF ltv <= trigger THEN 0
    ELSE Min2(cap * UsdcFactor, Needed(debt, collateral, buffer))

\* computeRepayToBuffer.  capPerFire comes from the chain in base units; here it bounds a
\* number of dollars.
ComputeRepayToBuffer(ltv, trigger, cap, buffer, debt, collateral) ==
    IF ltv < trigger THEN 0
    ELSE Min2(cap * UsdcFactor, Needed(debt, collateral, buffer))

\* Plausible bug: the amount is taken to be capped already.
UncappedLamports(repay, cap) == repay

ToRepayLamports(repay, cap) == Min2(repay, cap)

FireAmount(trigger, cap, buffer, debt, collateral) ==
    ToRepayLamports(ComputeRepayToBuffer(LtvOf(debt, collateral), trigger, cap, buffer,
                                         debt, collateral),
                    cap)
==============================================================================
