----------------------------- MODULE ProtectLoop -----------------------------
(***************************************************************************)
(* One protected loan while nothing else moves: the keeper reads it, fires *)
(* if the LTV is at the trigger or over it, reads it again, and so on      *)
(* (keeper/src/index.ts, "Self-correction").  Every size of debt,          *)
(* collateral, trigger, cap and buffer within the bounds is an initial     *)
(* state: what is checked is the arithmetic of module Ltv.                 *)
(***************************************************************************)
EXTENDS Ltv

CONSTANTS
    MaxDebt,            \* bound: largest debt
    MaxCollateral,      \* bound: largest collateral
    Caps,               \* values of cap_per_fire
    Buffers,            \* values of SAFE_BUFFER_BPS
    Triggers            \* values of trigger_ltv_bps

ASSUME LoopAssumption ==
    /\ MaxDebt \in Nat
    /\ MaxCollateral \in Nat \ {0}
    /\ Caps \subseteq Nat \ {0}
    /\ Buffers \subseteq 0 .. Whole
    /\ Triggers \subseteq Nat

VARIABLES
    debt,       \* debt of the obligation
    setting,    \* what does not change: collateral, trigger, cap, buffer
    initial,    \* history: the debt before the first fire
    fires       \* history: number of fires

vars == <<debt, setting, initial, fires>>

Amount == FireAmount(setting.trigger, setting.cap, setting.buffer, debt,
                     setting.collateral)

Init ==
    /\ debt \in 1 .. MaxDebt
    /\ setting \in [collateral : 1 .. MaxCollateral, trigger : Triggers, cap : Caps,
                    buffer : Buffers]
    /\ initial = debt
    /\ fires = 0

Fire ==
    /\ Amount > 0
    /\ debt' = debt - Amount
    /\ fires' = fires + 1
    /\ UNCHANGED <<setting, initial>>

Next == Fire

Spec == Init /\ [][Next]_vars /\ WF_vars(Fire)

----------------------------------------------------------------------------
(* Properties.                                                             *)

\* The loan needs a fire in the sense of the trigger (not of the code's comparison).
AtRisk == LtvOf(debt, setting.collateral) >= setting.trigger

\* The whole-dollar debts that keep within the buffer.
SafeLevels == {l \in 0 .. setting.collateral : /\ l % UsdcFactor = 0
                                               /\ l * Whole <= setting.collateral * setting.buffer}

\* computeRepayToBuffer sends exactly what its comment says, "Amount of USDC to repay to
\* bring LTV down to the safe buffer, capped at cap_per_fire", although it compares a cap
\* in base units with dollars: what takes the debt down to the highest safe level, cut at
\* the cap, and nothing below the trigger.
AmountRestoresBuffer ==
    LET level == CHOOSE l \in SafeLevels : \A k \in SafeLevels : k <= l IN
    Amount = IF AtRisk /\ debt > level THEN Min2(setting.cap, debt - level) ELSE 0

\* index.ts, "if still over trigger ... it fires again next tick up to cap": capped fires split
\* the repay of one fire without a cap and never enlarge it.  The debt is down by a whole cap
\* for every fire, or at the target with the last one; and none comes after the target.
CapSplitsTheRepay ==
    LET target == TargetDebt(setting.collateral, setting.buffer)
        left == initial - setting.cap * fires
    IN  fires > 0 => /\ debt = IF left >= target THEN left ELSE target
                     /\ left + setting.cap > target

\* trigger-boundary.test.ts, "no forever-refire on trigger": with the trigger above the
\* buffer the fires bring the LTV below the trigger and then stop.
Converges ==
    (setting.trigger > setting.buffer) => <>[](~AtRisk)
==============================================================================
