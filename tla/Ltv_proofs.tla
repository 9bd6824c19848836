----------------------------- MODULE Ltv_proofs -----------------------------
(***************************************************************************)
(* What computeRepayToBuffer and toRepayLamports return, for every debt,   *)
(* collateral, trigger, cap and buffer.                                    *)
(***************************************************************************)
EXTENDS Ltv, TLAPS

\* Division as the code's Math.floor uses it.
LEMMA FloorDivision ==
    ASSUME NEW n \in Nat, NEW d \in Nat \ {0}
    PROVE  /\ n \div d \in Nat
           /\ (n \div d) * d <= n
BY SMT

\* The target is a debt the buffer allows.
LEMMA TargetWithinBuffer ==
    ASSUME NEW collateral \in Nat, NEW buffer \in Nat
    PROVE  /\ TargetDebt(collateral, buffer) \in Nat
           /\ TargetDebt(collateral, buffer) * Whole <= collateral * buffer
<1> DEFINE n == collateral * buffer
           d == Whole * UsdcFactor
           q == n \div d
<1>1. Whole \in Nat \ {0} /\ UsdcFactor \in Nat \ {0}
  BY LtvAssumption
<1>2. n \in Nat /\ d \in Nat \ {0}
  BY <1>1, SMT
<1>3. q \in Nat /\ q * d <= n
  <2> HIDE DEF n, d
  <2>1. QED
    BY <1>2, FloorDivision DEF q
<1>4. TargetDebt(collateral, buffer) = q * UsdcFactor
  BY DEF TargetDebt
<1>5. q * d = (q * UsdcFactor) * Whole
  <2> HIDE DEF q
  <2>1. QED
    BY <1>1, <1>3, SMT DEF d
<1>6. q * UsdcFactor \in Nat
  <2> HIDE DEF q
  <2>1. QED
    BY <1>1, <1>3, SMT
<1>7. QED
  <2> HIDE DEF q, d
  <2>1. QED
    BY <1>3, <1>4, <1>5, <1>6

\* A fire never sends more than the cap or the debt, never takes the debt below the
\* target, and is only made at the trigger or over it; comparing the cap in base units
\* with dollars costs nothing.
THEOREM FireIsBounded ==
    ASSUME NEW trigger \in Nat, NEW cap \in Nat, NEW buffer \in Nat,
           NEW debt \in Nat, NEW collateral \in Nat \ {0},
           NEW amount, amount = FireAmount(trigger, cap, buffer, debt, collateral)
    PROVE  /\ amount \in Nat
           /\ amount <= cap
           /\ amount <= debt
           /\ amount > 0 => /\ LtvOf(debt, collateral) >= trigger
                            /\ debt - amount >= TargetDebt(collateral, buffer)
<1> DEFINE ltv == LtvOf(debt, collateral)
           target == TargetDebt(collateral, buffer)
<1>1. target \in Nat
  BY TargetWithinBuffer
<1>2. UsdcFactor \in Nat \ {0}
  BY LtvAssumption
<1>3. cap * UsdcFactor \in Nat
  BY <1>2, SMT
<1>4. ltv \in Int
  <2>1. 2 * collateral \in Nat \ {0}
    BY SMT
  <2>2. 2 * debt * Whole + collateral \in Nat
    BY LtvAssumption, SMT
  <2>3. QED
    BY <2>1, <2>2, FloorDivision DEF LtvOf
<1>5. amount = Min2(IF ltv < trigger THEN 0
                    ELSE Min2(cap * UsdcFactor, IF debt > target THEN debt - target ELSE 0),
                    cap)
  BY DEF FireAmount, ToRepayLamports, ComputeRepayToBuffer, Needed
<1>6. QED
  <2> HIDE DEF ltv, target
  <2>1. amount \in Nat /\ amount <= cap /\ amount <= debt
    BY <1>1, <1>3, <1>4, <1>5 DEF Min2
  <2>2. amount > 0 => ltv >= trigger /\ debt - amount >= target
    BY <1>1, <1>3, <1>4, <1>5 DEF Min2
  <2>3. QED
    BY <2>1, <2>2 DEF ltv, target

\* A fire that the cap does not cut brings the debt within the buffer.
THEOREM FireRestoresBuffer ==
    ASSUME NEW trigger \in Nat, NEW cap \in Nat, NEW buffer \in Nat,
           NEW debt \in Nat, NEW collateral \in Nat \ {0},
           LtvOf(debt, collateral) >= trigger,
           Needed(debt, collateral, buffer) <= cap
    PROVE  (debt - FireAmount(trigger, cap, buffer, debt, collateral)) * Whole
                <= collateral * buffer
<1> DEFINE amount == FireAmount(trigger, cap, buffer, debt, collateral)
           target == TargetDebt(collateral, buffer)
           ltv == LtvOf(debt, collateral)
           wide == cap * UsdcFactor
<1>1. target \in Nat /\ target * Whole <= collateral * buffer
  BY TargetWithinBuffer
<1>2. wide \in Nat /\ cap <= wide
  BY LtvAssumption, SMT
<1>3. ltv \in Int
  <2>1. 2 * collateral \in Nat \ {0}
    BY SMT
  <2>2. 2 * debt * Whole + collateral \in Nat
    BY LtvAssumption, SMT
  <2>3. QED
    BY <2>1, <2>2, FloorDivision DEF LtvOf
<1>4. amount = Min2(IF ltv < trigger THEN 0
                    ELSE Min2(wide, IF debt > target THEN debt - target ELSE 0), cap)
  BY DEF FireAmount, ToRepayLamports, ComputeRepayToBuffer, Needed
<1>5. (IF debt > target THEN debt - target ELSE 0) <= cap /\ ltv >= trigger
  BY DEF Needed
<1>6. amount \in Nat /\ debt - amount <= target /\ debt - amount \in Nat
  <2> HIDE DEF amount, target, ltv, wide
  <2>1. QED
    BY <1>1, <1>2, <1>3, <1>4, <1>5 DEF Min2
<1>7. (debt - amount) * Whole <= target * Whole
  <2> HIDE DEF amount, target
  <2>1. Whole \in Nat
    BY LtvAssumption
  <2>2. QED
    BY <1>1, <1>6, <2>1, SMT
<1>8. /\ (debt - amount) * Whole \in Nat
      /\ target * Whole \in Nat
      /\ collateral * buffer \in Nat
  <2> HIDE DEF amount, target
  <2>1. QED
    BY <1>1, <1>6, LtvAssumption, SMT
<1>9. QED
  <2> HIDE DEF amount, target
  <2>1. (debt - amount) * Whole <= collateral * buffer
    BY <1>1, <1>7, <1>8
  <2>2. QED
    BY <2>1 DEF amount

\* With a trigger above the buffer every loan at its trigger gets a fire that repays something,
\* also one that the rounding to basis points has lifted to the trigger.
THEOREM FireMakesProgress ==
    ASSUME NEW trigger \in Nat, NEW cap \in Nat \ {0}, NEW buffer \in Nat,
           NEW debt \in Nat, NEW collateral \in Nat \ {0},
           trigger > buffer,
           LtvOf(debt, collateral) >= trigger
    PROVE  FireAmount(trigger, cap, buffer, debt, collateral) > 0
<1> DEFINE amount == FireAmount(trigger, cap, buffer, debt, collateral)
           target == TargetDebt(collateral, buffer)
           ltv == LtvOf(debt, collateral)
           wide == cap * UsdcFactor
           n == 2 * debt * Whole + collateral
           c2 == 2 * collateral
<1>1. target \in Nat /\ target * Whole <= collateral * buffer
  BY TargetWithinBuffer
<1>2. wide \in Nat /\ cap <= wide
  BY LtvAssumption, SMT
<1>3. n \in Nat /\ c2 \in Nat \ {0}
  BY LtvAssumption, SMT
<1>4. ltv \in Nat /\ ltv * c2 <= n
  <2>1. ltv = n \div c2
    BY DEF LtvOf
  <2> HIDE DEF ltv, n, c2
  <2>2. QED
    BY <1>3, <2>1, FloorDivision
<1>5. (buffer + 1) * c2 <= n
  <2>1. buffer + 1 <= ltv
    <3> HIDE DEF ltv
    <3>1. ltv >= trigger
      BY DEF ltv
    <3>2. QED
      BY <1>4, <3>1
  <2> HIDE DEF ltv, n, c2
  <2>2. (buffer + 1) * c2 <= ltv * c2
    BY <1>3, <1>4, <2>1, SMT
  <2>3. QED
    BY <1>3, <1>4, <2>2, SMT
<1>6. collateral * buffer < debt * Whole
  <2>1. /\ (buffer + 1) * c2 = 2 * (collateral * buffer) + 2 * collateral
        /\ n = 2 * (debt * Whole) + collateral
    BY LtvAssumption, SMT
  <2>2. collateral * buffer \in Nat /\ debt * Whole \in Nat
    BY LtvAssumption, SMT
  <2> HIDE DEF n, c2
  <2>3. QED
    BY <1>5, <2>1, <2>2
<1>7. debt > target
  <2> HIDE DEF target
  <2>1. Whole \in Nat \ {0}
    BY LtvAssumption
  <2>2. target * Whole < debt * Whole
    <3>1. target * Whole \in Nat /\ debt * Whole \in Nat /\ collateral * buffer \in Nat
      BY <1>1, <2>1, SMT
    <3>2. QED
      BY <1>1, <1>6, <3>1
  <2>3. QED
    BY <1>1, <2>1, <2>2, SMT
<1>8. amount = Min2(IF ltv < trigger THEN 0
                    ELSE Min2(wide, IF debt > target THEN debt - target ELSE 0), cap)
  BY DEF FireAmount, ToRepayLamports, ComputeRepayToBuffer, Needed
<1>9. ltv >= trigger
  OBVIOUS
<1>10. amount > 0
  <2> HIDE DEF amount, target, ltv, wide
  <2>1. QED
    BY <1>1, <1>2, <1>4, <1>7, <1>8, <1>9 DEF Min2
<1>11. QED
  BY <1>10
=============================================================================
