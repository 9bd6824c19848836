---------------------------- MODULE Loops_proofs ----------------------------
(***************************************************************************)
(* The fires that bring a loan back, for every debt, collateral, trigger,  *)
(* cap and buffer, any number of deposits and borrows an account has room  *)
(* for, and any number of moves of its owner.                              *)
(*                                                                         *)
(* LoopInv: the fires of ProtectLoop take the debt down by a cap each, and *)
(* to the target with the last.  SaveInv: the bytes of the account say     *)
(* what the market holds, and a fire that nothing disturbed knows the loan *)
(* as it is.                                                               *)
(***************************************************************************)
EXTENDS MCLoops, Ltv_proofs, SequenceTheorems, NaturalsInduction, WellFoundedInduction

----------------------------------------------------------------------------
(* The loop of Kamino fires.                                               *)

Settings == [collateral : Nat \ {0}, trigger : Nat, cap : Nat \ {0}, buffer : 0 .. Whole]

LoopTyped ==
    /\ debt \in Nat
    /\ initial \in Nat
    /\ fires \in Nat
    /\ setting \in Settings

Target == TargetDebt(setting.collateral, setting.buffer)

LoopInv ==
    /\ LoopTyped
    /\ fires = 0 => debt = initial
    /\ CapSplitsTheRepay

LEMMA LoopInitially == LoopsInit => LoopInv
    <1> SUFFICES ASSUME LoopsInit PROVE LoopInv
        OBVIOUS
    <1>1. debt \in Nat /\ initial = debt /\ fires = 0
        BY LoopAssumption DEF LoopsInit, Init
    <1>2. setting \in Settings
        <2>1. CASE Init
            <3>1. /\ 1 .. MaxCollateral \subseteq Nat \ {0} /\ Triggers \subseteq Nat
                  /\ Caps \subseteq Nat \ {0} /\ Buffers \subseteq 0 .. Whole
                BY LoopAssumption
            <3> QED  BY <2>1, <3>1 DEF Init, Settings
        <2>2. CASE setting = [collateral |-> 1, trigger |-> Whole, cap |-> 1, buffer |-> 0]
            BY <2>2, LtvAssumption DEF Settings
        <2> QED  BY <2>1, <2>2 DEF LoopsInit
    <1> QED  BY <1>1, <1>2 DEF LoopInv, LoopTyped, CapSplitsTheRepay

LEMMA SettingTyped ==
    ASSUME LoopTyped
    PROVE  /\ setting.collateral \in Nat \ {0} /\ setting.trigger \in Nat
           /\ setting.cap \in Nat \ {0} /\ setting.buffer \in Nat /\ setting.buffer <= Whole
           /\ Whole \in Nat \ {0} /\ UsdcFactor \in Nat \ {0}
    BY LtvAssumption DEF LoopTyped, Settings

\* The amount in exact terms: the cap in dollars does not matter beside the real one.
LEMMA AmountFormula ==
    ASSUME LoopTyped
    PROVE  Amount = IF AtRisk /\ debt > Target THEN Min2(setting.cap, debt - Target) ELSE 0
    <1> DEFINE ltv == LtvOf(debt, setting.collateral)
               wide == setting.cap * UsdcFactor
    <1>1. /\ debt \in Nat /\ setting.collateral \in Nat \ {0} /\ setting.trigger \in Nat
          /\ setting.cap \in Nat \ {0} /\ setting.buffer \in Nat
          /\ Whole \in Nat \ {0} /\ UsdcFactor \in Nat \ {0}
        BY SettingTyped DEF LoopTyped
    <1>2. Target \in Nat
        BY <1>1, TargetWithinBuffer DEF Target
    <1>3. wide \in Nat /\ setting.cap <= wide
        BY <1>1, SMT
    <1>4. ltv \in Int
        <2>1. 2 * setting.collateral \in Nat \ {0}
            BY <1>1
        <2>2. 2 * debt * Whole + setting.collateral \in Nat
            BY <1>1, SMT
        <2> QED  BY <2>1, <2>2, FloorDivision DEF LtvOf
    <1>5. Amount = Min2(IF ltv < setting.trigger THEN 0
                        ELSE Min2(wide, IF debt > Target THEN debt - Target ELSE 0),
                        setting.cap)
        BY DEF Amount, FireAmount, ToRepayLamports, ComputeRepayToBuffer, Needed, Target
    <1>6. AtRisk <=> ~(ltv < setting.trigger)
        <2> HIDE DEF ltv
        <2>1. AtRisk <=> ltv >= setting.trigger
            BY DEF AtRisk, ltv
        <2> QED  BY <1>1, <1>4, <2>1
    <1> HIDE DEF ltv, wide
    <1>7. CASE ~AtRisk
        BY <1>1, <1>5, <1>6, <1>7 DEF Min2
    <1>8. CASE AtRisk
        BY <1>1, <1>2, <1>3, <1>5, <1>6, <1>8 DEF Min2
    <1> QED  BY <1>7, <1>8

LEMMA LoopStep ==
    ASSUME LoopInv, [LoopsNext]_<<vars, saveVars>>
    PROVE  LoopInv'
    <1>1. CASE Fire
        <2>1. /\ debt \in Nat /\ initial \in Nat /\ fires \in Nat /\ setting \in Settings
              /\ setting.cap \in Nat \ {0} /\ Target \in Nat
            BY SettingTyped, TargetWithinBuffer DEF LoopInv, LoopTyped, Target
        <2>2. /\ Amount > 0 /\ debt' = debt - Amount /\ fires' = fires + 1
              /\ setting' = setting /\ initial' = initial
            BY <1>1 DEF Fire
        <2>3. debt > Target /\ Amount = Min2(setting.cap, debt - Target)
            BY <2>2, AmountFormula DEF LoopInv
        <2>4. PICK d, t, i, c, m \in Nat :
                d = debt /\ t = Target /\ i = initial /\ c = setting.cap /\ m = fires
            BY <2>1
        <2> DEFINE p == c * m
        <2>5. p \in Nat /\ p = setting.cap * fires /\ c * (m + 1) = p + c
            BY <2>4, SMT
        <2> HIDE DEF p
        <2> DEFINE e == d - Amount
        <2>6. e \in Nat /\ e = debt - Amount /\ e = IF d - c >= t THEN d - c ELSE t
            BY <2>3, <2>4 DEF Min2
        <2> HIDE DEF e
        <2>7. setting.cap * (fires + 1) = p + c
            BY <2>4, <2>5
        <2>8. d = i - p
            <3>1. CASE m = 0
                <4>1. p = 0
                    BY <3>1, SMT DEF p
                <4> QED  BY <2>4, <3>1, <4>1 DEF LoopInv
            <3>2. CASE m > 0
                <4>1. d = IF i - p >= t THEN i - p ELSE t
                    BY <2>4, <2>5, <3>2 DEF LoopInv, CapSplitsTheRepay, Target
                <4> QED  BY <2>3, <2>4, <4>1
            <3> QED  BY <3>1, <3>2
        <2>9. /\ e = IF i - (p + c) >= t THEN i - (p + c) ELSE t
              /\ (i - (p + c)) + c > t
            BY <2>3, <2>4, <2>5, <2>6, <2>8
        <2>10. CapSplitsTheRepay'
            BY <2>2, <2>4, <2>6, <2>7, <2>9 DEF CapSplitsTheRepay, Target
        <2>11. LoopTyped' /\ fires' # 0
            BY <2>1, <2>2, <2>6 DEF LoopTyped
        <2> QED  BY <2>10, <2>11 DEF LoopInv
    <1>2. CASE UNCHANGED vars
        BY <1>2 DEF vars, LoopInv, LoopTyped, CapSplitsTheRepay
    <1> QED  BY <1>1, <1>2 DEF LoopsNext, Next

LEMMA LoopAlways == LoopsSpec => []LoopInv
    BY LoopInitially, LoopStep, PTL DEF LoopsSpec

\* However often the keeper fires at a loan, the cap splits the repay of one uncapped fire and
\* never enlarges it, and no fire is made that the repay does not need.
THEOREM FiresAddUp == LoopsSpec => []CapSplitsTheRepay
    <1>1. LoopInv => CapSplitsTheRepay
        BY DEF LoopInv
    <1> QED  BY <1>1, LoopAlways, PTL

\* The target is the highest of the safe levels.
LEMMA TargetIsHighest ==
    ASSUME LoopTyped
    PROVE  Target \in SafeLevels /\ \A l \in SafeLevels : l <= Target
    <1> DEFINE c == setting.collateral
               b == setting.buffer
               d == Whole * UsdcFactor
               q == (c * b) \div d
    <1>1. /\ c \in Nat \ {0} /\ b \in Nat /\ b <= Whole
          /\ Whole \in Nat \ {0} /\ UsdcFactor \in Nat \ {0}
        BY SettingTyped
    <1>2. Target = q * UsdcFactor
        BY DEF Target, TargetDebt
    <1>3. Target \in Nat /\ Target * Whole <= c * b
        BY <1>1, TargetWithinBuffer DEF Target
    <1>4. c * b \in Nat /\ d \in Nat \ {0} /\ c * b <= c * Whole
        <2> HIDE DEF c, b
        <2> QED  BY <1>1, SMT
    <1>5. q \in Nat /\ c * b < (q + 1) * d
        <2> HIDE DEF c, b, d
        <2> QED  BY <1>4, SMT
    <1>6. Target <= c
        <2> HIDE DEF c, b
        <2>1. PICK t \in Nat : t = Target
            BY <1>3
        <2>2. t * Whole <= c * Whole
            BY <1>1, <1>3, <1>4, <2>1, SMT
        <2>3. t <= c
            BY <1>1, <2>2, SMT
        <2> QED  BY <2>1, <2>3
    <1>7. Target % UsdcFactor = 0
        <2> HIDE DEF q
        <2> QED  BY <1>1, <1>2, <1>5, SMT
    <1>8. ASSUME NEW l \in SafeLevels PROVE l <= Target
        <2>1. l \in Nat /\ l % UsdcFactor = 0 /\ l * Whole <= c * b
            BY <1>1, <1>8 DEF SafeLevels
        <2>2. PICK k \in Nat : l = k * UsdcFactor
            <3>1. /\ l = ((l \div UsdcFactor) * UsdcFactor) + (l % UsdcFactor)
                  /\ l \div UsdcFactor \in Nat
                BY <1>1, <2>1, SMT
            <3> DEFINE m == l \div UsdcFactor
            <3>2. m \in Nat /\ l = (m * UsdcFactor) + (l % UsdcFactor)
                BY <3>1
            <3> HIDE DEF m
            <3>3. m * UsdcFactor \in Nat
                BY <1>1, <3>2, SMT
            <3>4. l = m * UsdcFactor
                BY <2>1, <3>2, <3>3
            <3> QED  BY <3>2, <3>4
        <2>3. k * d = l * Whole
            <3> HIDE DEF c, b, q
            <3> QED  BY <1>1, <2>1, <2>2, SMT
        <2>4. k * d < (q + 1) * d
            <3> HIDE DEF c, b, q, d
            <3> QED  BY <1>4, <1>5, <2>1, <2>3, SMT
        <2>5. k <= q
            <3> HIDE DEF c, b, q, d
            <3> QED  BY <1>4, <1>5, <2>4, SMT
        <2>6. k * UsdcFactor <= q * UsdcFactor
            <3> HIDE DEF c, b, q, d
            <3> QED  BY <1>1, <1>5, <2>5, SMT
        <2> QED  BY <1>2, <2>2, <2>6
    <1> QED  BY <1>1, <1>3, <1>6, <1>7, <1>8 DEF SafeLevels

\* What the keeper sends is what takes the debt to the highest safe level, cut at the cap.
THEOREM AmountIsRight == LoopsSpec => []AmountRestoresBuffer
    <1>1. LoopTyped => AmountRestoresBuffer
        <2> SUFFICES ASSUME LoopTyped PROVE AmountRestoresBuffer
            OBVIOUS
        <2> DEFINE level == CHOOSE l \in SafeLevels : \A k \in SafeLevels : k <= l
        <2>1. level = Target
            <3>1. SafeLevels \subseteq Nat
                BY SettingTyped DEF SafeLevels
            <3>2. level \in SafeLevels /\ \A k \in SafeLevels : k <= level
                BY TargetIsHighest
            <3> HIDE DEF level
            <3>3. level <= Target /\ Target <= level
                BY <3>2, TargetIsHighest
            <3>4. level \in Nat /\ Target \in Nat
                BY <3>1, <3>2, TargetIsHighest
            <3> QED  BY <3>3, <3>4
        <2>2. AmountRestoresBuffer <=>
                Amount = IF AtRisk /\ debt > level THEN Min2(setting.cap, debt - level) ELSE 0
            BY DEF AmountRestoresBuffer
        <2> HIDE DEF level
        <2> QED  BY <2>1, <2>2, AmountFormula
    <1> QED  BY <1>1, LoopAlways, PTL DEF LoopInv

----------------------------------------------------------------------------
(* The bytes of an obligation.                                             *)

Slots == [reserve : Reserves \cup {Zero}, sf : Nat]

\* No reserve is borrowed twice, and what is owed nothing is empty.
WellFormed(bs) ==
    /\ bs \in Seq(Slots)
    /\ \A i \in 1 .. Len(bs) : bs[i].reserve # Zero <=> bs[i].sf > 0
    /\ \A i, j \in 1 .. Len(bs) : bs[i].reserve # Zero /\ bs[i].reserve = bs[j].reserve => i = j

\* Where the i-th borrow is.
SaveBase(ds, i) == DataFlatOffset + Len(ds) * DepositStride + (i - 1) * SaveBorrowStride
KaminoBase(i) == KaminoBorrowsOffset + (i - 1) * KaminoBorrowStride

SavePacked(data, ds, bs) ==
    /\ data.len = SaveLen
    /\ NumAt(data, DepositsLenOffset) = Len(ds)
    /\ NumAt(data, BorrowsLenOffset) = Len(bs)
    /\ \A i \in 1 .. Len(ds) : KeyAt(data, DataFlatOffset + (i - 1) * DepositStride) = ds[i]
    /\ \A i \in 1 .. Len(bs) :
        /\ KeyAt(data, SaveBase(ds, i)) = bs[i].reserve
        /\ NumAt(data, SaveBase(ds, i) + SaveAmountOffset) = bs[i].sf

KaminoPacked(data, bs) ==
    /\ data.len = KaminoLen
    /\ \A i \in 1 .. KaminoNumBorrows :
        /\ KeyAt(data, KaminoBase(i)) = bs[i].reserve
        /\ NumAt(data, KaminoBase(i) + KaminoAmountOffset) = bs[i].sf

LEMMA Packing ==
    ASSUME NEW old, NEW ds, NEW bs, Len(ds) \in Nat, Len(bs) \in Nat
    PROVE  SavePacked(PackSave(old, ds, bs), ds, bs)
    <1> DEFINE base == DataFlatOffset + Len(ds) * DepositStride
               end == base + Len(bs) * SaveBorrowStride
               deposit == [o \in {DataFlatOffset + i * DepositStride : i \in 0 .. Len(ds) - 1} |->
                                ds[(o - DataFlatOffset) \div DepositStride + 1]]
               slot(o) == bs[(o - base) \div SaveBorrowStride + 1]
               bases == {base + i * SaveBorrowStride : i \in 0 .. Len(bs) - 1}
               amounts == {b + SaveAmountOffset : b \in bases}
               beyond(f) == [o \in {p \in DOMAIN f : p >= end} |-> f[o]]
               Put(f, g) == [o \in DOMAIN f \cup DOMAIN g |->
                                IF o \in DOMAIN f THEN f[o] ELSE g[o]]
               reserve == [o \in bases |-> slot(o).reserve]
               counts == [o \in {DepositsLenOffset, BorrowsLenOffset} |->
                            IF o = DepositsLenOffset THEN Len(ds) ELSE Len(bs)]
               amount == [o \in amounts |-> slot(o).sf]
               key == Put(Put(deposit, reserve), beyond(old.key))
               num == Put(counts, Put(amount, beyond(old.num)))
               data == PackSave(old, ds, bs)
    <1> USE DEF DataFlatOffset, DepositsLenOffset, BorrowsLenOffset, DepositStride,
                SaveBorrowStride, SaveAmountOffset
    <1>1. data = [len |-> SaveLen, key |-> key, num |-> num]
        BY DEF PackSave
    <1>2. PICK nd, nb \in Nat : nd = Len(ds) /\ nb = Len(bs)
        OBVIOUS
    <1>3. base = 204 + nd * 88 /\ base \in Nat
        BY <1>2
    <1>4. \A f, g : \A o \in DOMAIN f : o \in DOMAIN Put(f, g) /\ Put(f, g)[o] = f[o]
        OBVIOUS
    <1>5. \A f, g : \A o \in DOMAIN g \ DOMAIN f : o \in DOMAIN Put(f, g) /\ Put(f, g)[o] = g[o]
        OBVIOUS
    <1>6. DOMAIN deposit = {204 + i * 88 : i \in 0 .. nd - 1}
        BY <1>2
    <1>7. DOMAIN reserve = bases /\ DOMAIN amount = amounts /\ DOMAIN counts = {202, 203}
        OBVIOUS
    <1>8. ASSUME NEW i \in 1 .. nd
          PROVE  204 + (i - 1) * 88 \in DOMAIN key /\ key[204 + (i - 1) * 88] = ds[i]
        <2>1. i - 1 \in 0 .. nd - 1 /\ 204 + (i - 1) * 88 \in DOMAIN deposit
            BY <1>2, <1>6
        <2>2. (204 + (i - 1) * 88 - 204) \div 88 + 1 = i
            BY <1>2
        <2>3. deposit[204 + (i - 1) * 88] = ds[i]
            BY <2>1, <2>2
        <2> HIDE DEF deposit, reserve, Put, beyond
        <2> QED  BY <1>4, <2>1, <2>3
    <1>9. ASSUME NEW i \in 1 .. nb
          PROVE  LET o == base + (i - 1) * 112
                 IN  /\ o \in bases /\ slot(o) = bs[i]
                     /\ o \in DOMAIN key /\ key[o] = bs[i].reserve
                     /\ o + 48 \in DOMAIN num /\ num[o + 48] = bs[i].sf
        <2> DEFINE o == base + (i - 1) * 112
        <2>1. i - 1 \in 0 .. nb - 1 /\ o \in bases
            BY <1>2
        <2>2. (o - base) \div 112 + 1 = i
            <3> HIDE DEF base
            <3> QED  BY <1>2, <1>3
        <2>3. slot(o) = bs[i]
            BY <2>2
        <2>4. o \notin DOMAIN deposit
            <3> SUFFICES ASSUME NEW k \in 0 .. nd - 1, o = 204 + k * 88 PROVE FALSE
                BY <1>6
            <3> QED  BY <1>2, <1>3
        <2>5. reserve[o] = bs[i].reserve
            BY <2>1, <2>3
        <2>6. o + 48 \in amounts
            BY <2>1
        <2>7. o \in Nat /\ o >= 204
            BY <1>2, <1>3
        <2>8. amount[o + 48] = bs[i].sf
            <3>1. slot(o + 48) = bs[i]
                <4>1. (o + 48 - base) \div 112 + 1 = i
                    <5> HIDE DEF base
                    <5> QED  BY <1>2, <1>3
                <4> QED  BY <4>1
            <3> QED  BY <2>6, <3>1
        <2>9. o + 48 \notin DOMAIN counts
            BY <1>7, <2>7
        <2>10. o \in DOMAIN key /\ key[o] = bs[i].reserve
            <3> HIDE DEF deposit, reserve, Put, beyond, o
            <3> QED  BY <1>4, <1>5, <1>7, <2>1, <2>4, <2>5
        <2>11. o + 48 \in DOMAIN num /\ num[o + 48] = bs[i].sf
            <3> HIDE DEF counts, amount, Put, beyond, o
            <3> QED  BY <1>4, <1>5, <1>7, <2>6, <2>8, <2>9
        <2> QED  BY <2>1, <2>3, <2>10, <2>11
    <1>10. 202 \in DOMAIN num /\ num[202] = nd /\ 203 \in DOMAIN num /\ num[203] = nb
        <2>1. 202 \in DOMAIN counts /\ counts[202] = nd /\ 203 \in DOMAIN counts /\ counts[203] = nb
            BY <1>2
        <2> HIDE DEF counts, amount, Put, beyond
        <2> QED  BY <1>4, <2>1
    <1> HIDE DEF key, num, data
    <1>11. data.len = SaveLen /\ data.key = key /\ data.num = num
        BY <1>1
    <1>12. SavePacked(data, ds, bs)
        <2>1. NumAt(data, 202) = nd /\ NumAt(data, 203) = nb
            BY <1>10, <1>11 DEF NumAt
        <2>2. \A i \in 1 .. nd : KeyAt(data, 204 + (i - 1) * 88) = ds[i]
            BY <1>8, <1>11 DEF KeyAt
        <2>3. \A i \in 1 .. nb : /\ KeyAt(data, base + (i - 1) * 112) = bs[i].reserve
                                 /\ NumAt(data, base + (i - 1) * 112 + 48) = bs[i].sf
            BY <1>9, <1>11 DEF KeyAt, NumAt
        <2> QED  BY <1>2, <1>11, <2>1, <2>2, <2>3 DEF SavePacked, SaveBase
    <1> QED  BY <1>12 DEF data

LEMMA PackingKamino ==
    ASSUME NEW bs, \A i \in 1 .. KaminoNumBorrows : bs[i].reserve = Zero => bs[i].sf = 0
    PROVE  KaminoPacked(PackKamino(bs), bs)
    <1> DEFINE base(i) == KaminoBorrowsOffset + (i - 1) * KaminoBorrowStride
               slot(o) == bs[(o - KaminoBorrowsOffset) \div KaminoBorrowStride + 1]
               used == {i \in 1 .. KaminoNumBorrows : bs[i].reserve # Zero}
               key == [o \in {base(i) : i \in used} |-> slot(o).reserve]
               num == [o \in {base(i) + KaminoAmountOffset : i \in used} |-> slot(o).sf]
               data == PackKamino(bs)
    <1> USE DEF KaminoBorrowsOffset, KaminoBorrowStride, KaminoNumBorrows, KaminoAmountOffset
    <1>1. data = [len |-> KaminoLen, key |-> key, num |-> num]
        BY DEF PackKamino
    <1>2. \A i \in 1 .. 5 : slot(base(i)) = bs[i] /\ slot(base(i) + 88) = bs[i]
        <2>1. \A i \in 1 .. 5 : (1208 + (i - 1) * 200 - 1208) \div 200 + 1 = i
            OBVIOUS
        <2>2. \A i \in 1 .. 5 : (1208 + (i - 1) * 200 + 88 - 1208) \div 200 + 1 = i
            OBVIOUS
        <2> QED  BY <2>1, <2>2
    <1>3. \A i \in 1 .. 5 : /\ base(i) \in DOMAIN key <=> i \in used
                            /\ base(i) + 88 \in DOMAIN num <=> i \in used
        <2>1. \A i, j \in 1 .. 5 : base(i) = base(j) => i = j
            OBVIOUS
        <2>2. \A i, j \in 1 .. 5 : base(i) + 88 = base(j) + 88 => i = j
            OBVIOUS
        <2>3. DOMAIN key = {base(i) : i \in used} /\ DOMAIN num = {base(i) + 88 : i \in used}
            OBVIOUS
        <2> HIDE DEF base, key, num
        <2> QED  BY <2>1, <2>2, <2>3
    <1>4. \A i \in used : key[base(i)] = bs[i].reserve /\ num[base(i) + 88] = bs[i].sf
        BY <1>2
    <1> HIDE DEF key, num, data
    <1>5. data.len = KaminoLen /\ data.key = key /\ data.num = num
        BY <1>1
    <1>6. \A i \in 1 .. 5 :
            KeyAt(data, base(i)) = bs[i].reserve /\ NumAt(data, base(i) + 88) = bs[i].sf
        <2> HIDE DEF base
        <2> QED  BY <1>3, <1>4, <1>5 DEF KeyAt, NumAt
    <1> QED  BY <1>5, <1>6 DEF KaminoPacked, KaminoBase, data

----------------------------------------------------------------------------
(* What a well-formed obligation stays.                                    *)

LEMMA WellFormedAppend ==
    ASSUME NEW bs, WellFormed(bs), NEW b \in Slots, b.reserve # Zero, b.sf > 0,
           \A i \in 1 .. Len(bs) : bs[i].reserve # b.reserve
    PROVE  WellFormed(Append(bs, b)) /\ Len(Append(bs, b)) = Len(bs) + 1
    <1> DEFINE S == Slots
               more == Append(bs, b)
    <1>1. bs \in Seq(S) /\ b \in S
        BY DEF WellFormed
    <1> HIDE DEF S
    <1>2. more \in Seq(S) /\ Len(more) = Len(bs) + 1 /\ Len(bs) \in Nat
        BY <1>1
    <1>3. \A i \in 1 .. Len(more) :
            \/ i \in 1 .. Len(bs) /\ more[i] = bs[i]
            \/ i = Len(bs) + 1 /\ more[i] = b
        BY <1>1
    <1> HIDE DEF more
    <1>4. \A i \in 1 .. Len(more) : more[i].reserve # Zero <=> more[i].sf > 0
        BY <1>3 DEF WellFormed
    <1>5. \A i, j \in 1 .. Len(more) :
            more[i].reserve # Zero /\ more[i].reserve = more[j].reserve => i = j
        BY <1>3 DEF WellFormed
    <1> QED  BY <1>2, <1>4, <1>5 DEF WellFormed, S, more

LEMMA WellFormedReplace ==
    ASSUME NEW bs, WellFormed(bs), NEW k \in 1 .. Len(bs), NEW b \in Slots,
           b.reserve # Zero <=> b.sf > 0,
           \A i \in 1 .. Len(bs) : b.reserve # Zero /\ bs[i].reserve = b.reserve => i = k
    PROVE  WellFormed([bs EXCEPT ![k] = b]) /\ Len([bs EXCEPT ![k] = b]) = Len(bs)
    <1> DEFINE S == Slots
               new == [bs EXCEPT ![k] = b]
    <1>1. bs \in Seq(S) /\ b \in S
        BY DEF WellFormed
    <1> HIDE DEF S
    <1>2. new \in Seq(S) /\ Len(new) = Len(bs) /\ Len(bs) \in Nat
        BY <1>1
    <1>3. \A i \in 1 .. Len(bs) : new[i] = IF i = k THEN b ELSE bs[i]
        BY <1>1
    <1> HIDE DEF new
    <1>4. \A i \in 1 .. Len(bs) : new[i].reserve # Zero <=> new[i].sf > 0
        BY <1>3 DEF WellFormed
    <1>5. \A i, j \in 1 .. Len(bs) :
            new[i].reserve # Zero /\ new[i].reserve = new[j].reserve => i = j
        BY <1>3 DEF WellFormed
    <1> QED  BY <1>2, <1>4, <1>5 DEF WellFormed, S, new

\* What is behind a removed element moves up.
LEMMA Removing ==
    ASSUME NEW S, NEW s \in Seq(S), NEW k \in 1 .. Len(s)
    PROVE  /\ RemoveAt(s, k) \in Seq(S)
           /\ Len(RemoveAt(s, k)) = Len(s) - 1 /\ Len(s) \in Nat
           /\ \A i \in 1 .. Len(s) - 1 :
                RemoveAt(s, k)[i] = s[IF i < k THEN i ELSE i + 1]
    <1> DEFINE before == SubSeq(s, 1, k - 1)
               behind == SubSeq(s, k + 1, Len(s))
    <1>1. PICK n \in Nat : n = Len(s) /\ k \in 1 .. n
        OBVIOUS
    <1>2. \A i \in 1 .. n : s[i] \in S
        BY <1>1
    <1>3. /\ before \in Seq(S) /\ Len(before) = k - 1
          /\ \A i \in 1 .. k - 1 : before[i] = s[i]
        <2>1. \A i \in 1 .. k - 1 : s[i] \in S
            BY <1>1, <1>2
        <2>2. 1 \in Int /\ k - 1 \in Int
            BY <1>1
        <2>3. /\ before \in Seq(S)
              /\ Len(before) = IF 1 <= k - 1 THEN k - 1 - 1 + 1 ELSE 0
              /\ \A i \in 1 .. k - 1 - 1 + 1 : before[i] = s[1 + i - 1]
            BY <2>1, <2>2, SubSeqProperties
        <2> HIDE DEF before
        <2> QED  BY <1>1, <2>3
    <1>4. /\ behind \in Seq(S) /\ Len(behind) = n - k
          /\ \A i \in 1 .. n - k : behind[i] = s[k + i]
        <2>1. \A i \in k + 1 .. n : s[i] \in S
            BY <1>1, <1>2
        <2>2. k + 1 \in Int /\ n \in Int
            BY <1>1
        <2>3. /\ behind \in Seq(S)
              /\ Len(behind) = IF k + 1 <= n THEN n - (k + 1) + 1 ELSE 0
              /\ \A i \in 1 .. n - (k + 1) + 1 : behind[i] = s[k + 1 + i - 1]
            BY <1>1, <2>1, <2>2, SubSeqProperties
        <2> HIDE DEF behind
        <2> QED  BY <1>1, <2>3
    <1> HIDE DEF before, behind
    <1>5. /\ before \o behind \in Seq(S)
          /\ Len(before \o behind) = Len(before) + Len(behind)
          /\ \A i \in 1 .. Len(before) + Len(behind) : (before \o behind)[i] =
                IF i <= Len(before) THEN before[i] ELSE behind[i - Len(before)]
        BY <1>3, <1>4, ConcatProperties
    <1>6. RemoveAt(s, k) = before \o behind
        BY DEF RemoveAt, before, behind
    <1>7. \A i \in 1 .. n - 1 : (before \o behind)[i] = s[IF i < k THEN i ELSE i + 1]
        <2> SUFFICES ASSUME NEW i \in 1 .. n - 1
                     PROVE  (before \o behind)[i] = s[IF i < k THEN i ELSE i + 1]
            OBVIOUS
        <2>1. i \in 1 .. Len(before) + Len(behind)
            BY <1>1, <1>3, <1>4
        <2>2. CASE i < k
            BY <1>1, <1>3, <1>5, <2>1, <2>2
        <2>3. CASE ~(i < k)
            <3>1. i - (k - 1) \in 1 .. n - k /\ k + (i - (k - 1)) = i + 1
                BY <1>1, <2>3
            <3>2. ~(i <= Len(before)) /\ i - Len(before) = i - (k - 1)
                BY <1>1, <1>3, <2>3
            <3>3. (before \o behind)[i] = behind[i - (k - 1)]
                BY <1>5, <2>1, <3>2
            <3>4. behind[i - (k - 1)] = s[k + (i - (k - 1))]
                BY <1>4, <3>1
            <3> QED  BY <2>3, <3>1, <3>3, <3>4
        <2> QED  BY <2>2, <2>3
    <1> QED  BY <1>1, <1>3, <1>4, <1>5, <1>6, <1>7

LEMMA WellFormedRemove ==
    ASSUME NEW bs, WellFormed(bs), NEW k \in 1 .. Len(bs)
    PROVE  WellFormed(RemoveAt(bs, k)) /\ Len(RemoveAt(bs, k)) = Len(bs) - 1
    <1> DEFINE S == Slots
               new == RemoveAt(bs, k)
               at(i) == IF i < k THEN i ELSE i + 1
    <1>1. bs \in Seq(S)
        BY DEF WellFormed
    <1> HIDE DEF S
    <1>2. /\ new \in Seq(S) /\ Len(new) = Len(bs) - 1 /\ Len(bs) \in Nat
          /\ \A i \in 1 .. Len(bs) - 1 : new[i] = bs[at(i)]
        BY <1>1, Removing
    <1>3. \A i, j \in 1 .. Len(bs) - 1 : at(i) \in 1 .. Len(bs) /\ (at(i) = at(j) => i = j)
        BY <1>2
    <1> HIDE DEF new, at
    <1>4. \A i \in 1 .. Len(new) : new[i].reserve # Zero <=> new[i].sf > 0
        BY <1>2, <1>3 DEF WellFormed
    <1>5. \A i, j \in 1 .. Len(new) :
            new[i].reserve # Zero /\ new[i].reserve = new[j].reserve => i = j
        BY <1>2, <1>3 DEF WellFormed
    <1> QED  BY <1>2, <1>4, <1>5 DEF WellFormed, S, new

----------------------------------------------------------------------------
(* The obligation and its account.                                         *)

\* What an obligation of market m can hold.
Shape(m, ds, bs) ==
    /\ ds \in Seq(Reserves) /\ Len(ds) <= MaxDeposits
    /\ WellFormed(bs)
    /\ m = "save" => Len(bs) <= MaxBorrows /\ \A i \in 1 .. Len(bs) : bs[i].reserve # Zero
    /\ m = "kamino" => Len(bs) = KaminoNumBorrows /\ ds = <<>>
    /\ m = "none" => ds = <<>> /\ bs = <<>>

DataInv ==
    /\ market \in {"kamino", "save", "none"}
    /\ Shape(market, deposits, borrows)
    /\ market = "save" => SavePacked(account, deposits, borrows)
    /\ market = "kamino" => KaminoPacked(account, borrows)

\* Written is what was meant to be.
LEMMA Writing ==
    ASSUME DataInv, NEW ds, NEW bs, Shape(market, ds, bs), Write(ds, bs), UNCHANGED market
    PROVE  DataInv'
    <1>1. deposits' = ds /\ borrows' = bs
        BY DEF Write
    <1>2. Shape(market', deposits', borrows')
        BY <1>1 DEF Shape
    <1>3. Len(ds) \in Nat /\ Len(bs) \in Nat
        BY DEF Shape, WellFormed
    <1>4. CASE market = "save"
        <2>1. account' = PackSave(account, ds, bs)
            BY <1>4 DEF Write
        <2>2. SavePacked(account', ds, bs)
            BY <1>3, <2>1, Packing
        <2> QED  BY <1>1, <1>2, <1>4, <2>2 DEF DataInv, SavePacked, KaminoPacked, Shape
    <1>5. CASE market # "save"
        <2>1. account' = PackKamino(bs)
            BY <1>5 DEF Write
        <2>2. market = "kamino" => KaminoPacked(account', bs)
            <3>1. SUFFICES ASSUME market = "kamino" PROVE KaminoPacked(account', bs)
                OBVIOUS
            <3>2. \A i \in 1 .. KaminoNumBorrows : bs[i].reserve = Zero => bs[i].sf = 0
                <4>1. \A i \in 1 .. Len(bs) : bs[i] \in Slots
                    <5> DEFINE S == Slots
                    <5>1. bs \in Seq(S)
                        BY DEF Shape, WellFormed
                    <5> HIDE DEF S
                    <5>2. \A i \in 1 .. Len(bs) : bs[i] \in S
                        BY <5>1
                    <5> QED  BY <5>2 DEF S
                <4> QED  BY <3>1, <4>1 DEF Shape, WellFormed, Slots
            <3> QED  BY <2>1, <3>2, PackingKamino
        <2> QED  BY <1>1, <1>2, <1>5, <2>2 DEF DataInv, SavePacked, KaminoPacked, Shape
    <1> QED  BY <1>4, <1>5

----------------------------------------------------------------------------
(* What the owner and a fire do to an obligation.                          *)

LEMMA SlotTyped ==
    ASSUME NEW bs, WellFormed(bs), NEW i \in 1 .. Len(bs)
    PROVE  bs[i] \in Slots /\ bs[i].sf \in Nat /\ bs[i].reserve \in Reserves \cup {Zero}
    <1> DEFINE S == Slots
    <1>1. bs \in Seq(S)
        BY DEF WellFormed
    <1> HIDE DEF S
    <1>2. bs[i] \in S
        BY <1>1
    <1> QED  BY <1>2 DEF S, Slots

\* Another amount in a slot.
LEMMA NewAmount ==
    ASSUME NEW bs, WellFormed(bs), NEW i \in 1 .. Len(bs), bs[i].sf > 0, NEW n \in Nat, n > 0
    PROVE  LET new == [bs EXCEPT ![i].sf = n]
           IN  /\ WellFormed(new) /\ Len(new) = Len(bs)
               /\ \A j \in 1 .. Len(bs) : new[j].reserve = bs[j].reserve
    <1> DEFINE b == [bs[i] EXCEPT !.sf = n]
    <1>1. b \in Slots /\ b.reserve = bs[i].reserve /\ b.sf = n /\ bs[i].reserve # Zero
        BY SlotTyped DEF Slots, WellFormed
    <1>2. [bs EXCEPT ![i].sf = n] = [bs EXCEPT ![i] = b]
        OBVIOUS
    <1> HIDE DEF b
    <1>3. \A j \in 1 .. Len(bs) : b.reserve # Zero /\ bs[j].reserve = b.reserve => j = i
        BY <1>1 DEF WellFormed
    <1>4. WellFormed([bs EXCEPT ![i] = b]) /\ Len([bs EXCEPT ![i] = b]) = Len(bs)
        BY <1>1, <1>3, WellFormedReplace
    <1>5. \A j \in 1 .. Len(bs) : [bs EXCEPT ![i] = b][j].reserve = bs[j].reserve
        <2> DEFINE S == Slots
        <2>1. bs \in Seq(S)
            BY DEF WellFormed
        <2> HIDE DEF S
        <2> QED  BY <1>1, <2>1
    <1> QED  BY <1>2, <1>4, <1>5

LEMMA Scales == Scale \in Nat \ {0} /\ Wad \in Nat \ {0} /\ Fraction \in Nat \ {0}
    BY LayoutAssumption DEF Scale

LEMMA ShapeRepay ==
    ASSUME DataInv, NEW i \in 1 .. Len(borrows), borrows[i].sf > 0, NEW n \in Nat
    PROVE  Shape(market, deposits, AfterRepay(i, n))
    <1> DEFINE paid == n * (IF market = "save" THEN Wad ELSE Fraction)
               left == borrows[i].sf - paid
    <1>0. WellFormed(borrows) /\ Len(borrows) \in Nat
        BY DEF DataInv, Shape, WellFormed
    <1>1. paid \in Nat
        <2>1. n * Wad \in Nat /\ n * Fraction \in Nat
            BY Scales, SMT
        <2> QED  BY <2>1
    <1>2. left \in Int /\ borrows[i].sf \in Nat
        <2> HIDE DEF paid
        <2> QED  BY <1>0, <1>1, SlotTyped
    <1>3. AfterRepay(i, n) = IF left > 0 THEN [borrows EXCEPT ![i].sf = left]
                             ELSE IF market = "save" THEN RemoveAt(borrows, i)
                             ELSE [borrows EXCEPT ![i] = NoBorrow]
        BY DEF AfterRepay
    <1> HIDE DEF left
    <1>4. CASE left > 0
        <2>1. left \in Nat
            BY <1>2, <1>4
        <2>2. /\ WellFormed([borrows EXCEPT ![i].sf = left])
              /\ Len([borrows EXCEPT ![i].sf = left]) = Len(borrows)
              /\ \A j \in 1 .. Len(borrows) :
                    [borrows EXCEPT ![i].sf = left][j].reserve = borrows[j].reserve
            BY <1>0, <1>4, <2>1, NewAmount
        <2> QED  BY <1>3, <1>4, <2>2 DEF DataInv, Shape
    <1>5. CASE ~(left > 0) /\ market = "save"
        <2>1. WellFormed(RemoveAt(borrows, i)) /\ Len(RemoveAt(borrows, i)) = Len(borrows) - 1
            BY <1>0, WellFormedRemove
        <2>2. \A j \in 1 .. Len(borrows) - 1 : RemoveAt(borrows, i)[j].reserve # Zero
            <3> DEFINE S == Slots
            <3>1. borrows \in Seq(S)
                BY <1>0 DEF WellFormed
            <3> HIDE DEF S
            <3>2. \A j \in 1 .. Len(borrows) - 1 :
                    RemoveAt(borrows, i)[j] = borrows[IF j < i THEN j ELSE j + 1]
                BY <3>1, Removing
            <3>3. \A j \in 1 .. Len(borrows) - 1 :
                    (IF j < i THEN j ELSE j + 1) \in 1 .. Len(borrows)
                BY <1>0
            <3> QED  BY <1>5, <3>2, <3>3 DEF DataInv, Shape
        <2>3. Len(borrows) - 1 <= MaxBorrows
            <3>1. MaxBorrows \in Nat
                BY SaveAssumption
            <3>2. Len(borrows) <= MaxBorrows
                BY <1>5 DEF DataInv, Shape
            <3> QED  BY <1>0, <3>1, <3>2
        <2> QED  BY <1>3, <1>5, <2>1, <2>2, <2>3 DEF DataInv, Shape
    <1>6. CASE ~(left > 0) /\ market # "save"
        <2>1. NoBorrow \in Slots /\ NoBorrow.reserve = Zero /\ ~(NoBorrow.sf > 0)
            BY DEF NoBorrow, Slots
        <2>2. /\ WellFormed([borrows EXCEPT ![i] = NoBorrow])
              /\ Len([borrows EXCEPT ![i] = NoBorrow]) = Len(borrows)
            BY <1>0, <2>1, WellFormedReplace
        <2>3. market # "none"
            BY <1>0 DEF DataInv, Shape
        <2> QED  BY <1>3, <1>6, <2>2, <2>3 DEF DataInv, Shape
    <1> QED  BY <1>4, <1>5, <1>6

LEMMA ShapeAccrue ==
    ASSUME DataInv, NEW i \in 1 .. Len(borrows), borrows[i].sf > 0
    PROVE  Shape(market, deposits, [borrows EXCEPT ![i].sf = @ + 1])
    <1>0. WellFormed(borrows) /\ Len(borrows) \in Nat
        BY DEF DataInv, Shape, WellFormed
    <1> DEFINE n == borrows[i].sf + 1
    <1>1. n \in Nat /\ n > 0
        BY <1>0, SlotTyped
    <1>2. [borrows EXCEPT ![i].sf = @ + 1] = [borrows EXCEPT ![i].sf = n]
        OBVIOUS
    <1> HIDE DEF n
    <1>3. /\ WellFormed([borrows EXCEPT ![i].sf = n])
          /\ Len([borrows EXCEPT ![i].sf = n]) = Len(borrows)
          /\ \A j \in 1 .. Len(borrows) :
                [borrows EXCEPT ![i].sf = n][j].reserve = borrows[j].reserve
        BY <1>0, <1>1, NewAmount
    <1>4. market # "none"
        BY <1>0 DEF DataInv, Shape
    <1> QED  BY <1>2, <1>3, <1>4 DEF DataInv, Shape

\* The least of a set of numbers.
LEMMA MinExists ==
    ASSUME NEW T, T \subseteq Nat, T # {}
    PROVE  Min(T) \in T /\ \A y \in T : Min(T) <= y
    <1>1. PICK x \in T : \A y \in T : ~(<<y, x>> \in OpToRel(<, Nat))
        BY NatLessThanWellFounded, WFMin
    <1>2. \A y \in T : x <= y
        <2> SUFFICES ASSUME NEW y \in T PROVE x <= y
            OBVIOUS
        <2>1. x \in Nat /\ y \in Nat
            OBVIOUS
        <2>2. ~(y < x)
            BY <1>1, <2>1 DEF OpToRel
        <2> QED  BY <2>1, <2>2
    <1> QED  BY <1>2 DEF Min

LEMMA ShapeBorrow ==
    ASSUME DataInv, NEW r \in Reserves, NEW n \in Nat,
           \A i \in DOMAIN borrows : borrows[i].reserve # r
    PROVE  LET b == [reserve |-> r, sf |-> n * Scale + 1]
               empty == {i \in DOMAIN borrows : borrows[i] = NoBorrow}
           IN  /\ market = "save" /\ Len(borrows) < MaxBorrows =>
                    Shape(market, deposits, Append(borrows, b))
               /\ market = "kamino" /\ empty # {} =>
                    Shape(market, deposits, [borrows EXCEPT ![Min(empty)] = b])
    <1> DEFINE b == [reserve |-> r, sf |-> n * Scale + 1]
               empty == {i \in DOMAIN borrows : borrows[i] = NoBorrow}
    <1>0. /\ WellFormed(borrows) /\ Len(borrows) \in Nat /\ DOMAIN borrows = 1 .. Len(borrows)
          /\ MaxBorrows \in Nat
        BY SaveAssumption DEF DataInv, Shape, WellFormed
    <1>1. b \in Slots /\ b.reserve = r /\ r # Zero /\ b.sf > 0
        <2>1. n * Scale \in Nat
            BY Scales, SMT
        <2>2. n * Scale + 1 \in Nat /\ n * Scale + 1 > 0
            BY <2>1
        <2> QED  BY <2>2, LayoutAssumption DEF Slots
    <1> HIDE DEF b
    <1>2. ASSUME market = "save", Len(borrows) < MaxBorrows
          PROVE  Shape(market, deposits, Append(borrows, b))
        <2>1. WellFormed(Append(borrows, b)) /\ Len(Append(borrows, b)) = Len(borrows) + 1
            BY <1>0, <1>1, WellFormedAppend
        <2>2. \A i \in 1 .. Len(borrows) + 1 : Append(borrows, b)[i].reserve # Zero
            <3> DEFINE S == Slots
            <3>1. borrows \in Seq(S)
                BY <1>0 DEF WellFormed
            <3> HIDE DEF S
            <3>2. \A i \in 1 .. Len(borrows) + 1 :
                    \/ i \in 1 .. Len(borrows) /\ Append(borrows, b)[i] = borrows[i]
                    \/ Append(borrows, b)[i] = b
                BY <3>1
            <3> QED  BY <1>1, <1>2, <3>2 DEF DataInv, Shape
        <2>3. Len(borrows) + 1 <= MaxBorrows
            BY <1>0, <1>2
        <2> QED  BY <1>2, <2>1, <2>2, <2>3 DEF DataInv, Shape
    <1>3. ASSUME market = "kamino", empty # {}
          PROVE  Shape(market, deposits, [borrows EXCEPT ![Min(empty)] = b])
        <2>1. Min(empty) \in 1 .. Len(borrows)
            <3>1. empty \subseteq 1 .. Len(borrows) /\ empty \subseteq Nat
                BY <1>0
            <3> HIDE DEF empty
            <3> QED  BY <1>3, <3>1, MinExists
        <2> HIDE DEF empty
        <2>2. PICK k \in 1 .. Len(borrows) : k = Min(empty)
            BY <2>1
        <2>3. WellFormed([borrows EXCEPT ![k] = b]) /\ Len([borrows EXCEPT ![k] = b]) = Len(borrows)
            BY <1>0, <1>1, WellFormedReplace
        <2> QED  BY <1>3, <2>2, <2>3 DEF DataInv, Shape
    <1> QED  BY <1>2, <1>3 DEF b

LEMMA ShapeDeposits ==
    ASSUME DataInv, market = "save"
    PROVE  /\ \A r \in Reserves : Len(deposits) < MaxDeposits =>
                Shape(market, Append(deposits, r), borrows)
           /\ \A i \in 1 .. Len(deposits) : Shape(market, RemoveAt(deposits, i), borrows)
    <1>0. deposits \in Seq(Reserves) /\ Len(deposits) \in Nat /\ Len(deposits) <= MaxDeposits
        BY DEF DataInv, Shape
    <1>1. MaxDeposits \in Nat
        BY SaveAssumption
    <1>2. ASSUME NEW r \in Reserves, Len(deposits) < MaxDeposits
          PROVE  Shape(market, Append(deposits, r), borrows)
        <2>1. Append(deposits, r) \in Seq(Reserves) /\ Len(Append(deposits, r)) = Len(deposits) + 1
            BY <1>0
        <2>2. Len(deposits) + 1 <= MaxDeposits
            BY <1>0, <1>1, <1>2
        <2> QED  BY <2>1, <2>2 DEF DataInv, Shape
    <1>3. ASSUME NEW i \in 1 .. Len(deposits)
          PROVE  Shape(market, RemoveAt(deposits, i), borrows)
        <2>1. /\ RemoveAt(deposits, i) \in Seq(Reserves)
              /\ Len(RemoveAt(deposits, i)) = Len(deposits) - 1
            BY <1>0, Removing
        <2>2. Len(deposits) - 1 <= MaxDeposits
            BY <1>0, <1>1
        <2> QED  BY <2>1, <2>2 DEF DataInv, Shape
    <1> QED  BY <1>2, <1>3

----------------------------------------------------------------------------
(* The readers.                                                            *)

LEMMA ReserveIsSomething == \A r \in Reserves : r # Zero
    BY LayoutAssumption

\* What the market holds for a reserve: of the only slot that has it.
LEMMA TokenDebtOf ==
    ASSUME DataInv, NEW r \in Reserves
    PROVE  /\ \A k \in 1 .. Len(borrows) : borrows[k].reserve = r =>
                TokenDebt(r) = borrows[k].sf \div Scale
           /\ (\A k \in 1 .. Len(borrows) : borrows[k].reserve # r) => TokenDebt(r) = 0
           /\ TokenDebt(r) \in Nat
    <1> DEFINE mine == {i \in DOMAIN borrows : borrows[i].reserve = r}
    <1>0. WellFormed(borrows) /\ Len(borrows) \in Nat /\ DOMAIN borrows = 1 .. Len(borrows)
        BY DEF DataInv, Shape, WellFormed
    <1>1. TokenDebt(r) = IF mine = {} THEN 0
                         ELSE borrows[CHOOSE i \in mine : TRUE].sf \div Scale
        BY DEF TokenDebt
    <1>2. ASSUME NEW k \in 1 .. Len(borrows), borrows[k].reserve = r
          PROVE  TokenDebt(r) = borrows[k].sf \div Scale /\ TokenDebt(r) \in Nat
        <2>1. mine = {k}
            <3>1. \A i \in 1 .. Len(borrows) : borrows[i].reserve = r => i = k
                BY <1>0, <1>2, ReserveIsSomething DEF WellFormed
            <3> QED  BY <1>0, <1>2, <3>1
        <2>2. (CHOOSE i \in mine : TRUE) = k
            BY <2>1
        <2>3. borrows[k].sf \in Nat
            BY <1>0, SlotTyped
        <2>4. borrows[k].sf \div Scale \in Nat
            BY <2>3, Scales, FloorDivision
        <2> HIDE DEF mine
        <2> QED  BY <1>1, <2>1, <2>2, <2>4
    <1>3. (\A k \in 1 .. Len(borrows) : borrows[k].reserve # r) => TokenDebt(r) = 0
        BY <1>0, <1>1
    <1> QED  BY <1>2, <1>3

OnlyAt(data, bases, r, x) ==
    /\ bases \subseteq Nat
    /\ x \in bases
    /\ KeyAt(data, x) = r
    /\ \A y \in bases : KeyAt(data, y) = r => y = x

LEMMA OnlyOneAt ==
    ASSUME NEW data, NEW bases, NEW r, NEW x, OnlyAt(data, bases, r, x)
    PROVE  FirstAt(data, bases, r) = x
    <1> DEFINE found == {b \in bases : KeyAt(data, b) = r}
    <1>1. FirstAt(data, bases, r) = IF found = {} THEN 0 ELSE Min(found)
        BY DEF FirstAt
    <1>2. found = {x} /\ {x} \subseteq Nat
        BY DEF OnlyAt
    <1>3. Min({x}) = x
        BY <1>2, MinExists
    <1> HIDE DEF found
    <1> QED  BY <1>1, <1>2, <1>3

LEMMA NoneAt ==
    ASSUME NEW data, NEW bases, NEW r, \A x \in bases : KeyAt(data, x) # r
    PROVE  FirstAt(data, bases, r) = 0
    BY DEF FirstAt

\* The borrows of an account of Save.
LEMMA SaveBasesAre ==
    ASSUME NEW data, NEW ds, NEW bs, Len(ds) \in Nat, Len(bs) \in Nat, SavePacked(data, ds, bs)
    PROVE  /\ SaveBases(data) = {SaveBase(ds, i) : i \in 1 .. Len(bs)}
           /\ \A i \in 1 .. Len(bs) : SaveBase(ds, i) \in Nat /\ SaveBase(ds, i) > 0
           /\ \A i, j \in 1 .. Len(bs) : SaveBase(ds, i) = SaveBase(ds, j) => i = j
    <1> USE DEF DataFlatOffset, DepositStride, SaveBorrowStride
    <1>1. PICK nd, nb \in Nat : nd = Len(ds) /\ nb = Len(bs)
        OBVIOUS
    <1>2. SaveBases(data) = {204 + nd * 88 + i * 112 : i \in 0 .. nb - 1}
        BY <1>1 DEF SaveBases, SavePacked
    <1>3. \A i : SaveBase(ds, i) = 204 + nd * 88 + (i - 1) * 112
        BY <1>1 DEF SaveBase
    <1>4. {204 + nd * 88 + i * 112 : i \in 0 .. nb - 1} =
            {204 + nd * 88 + (i - 1) * 112 : i \in 1 .. nb}
        <2>1. \A i \in 0 .. nb - 1 : i + 1 \in 1 .. nb /\ (i + 1) - 1 = i
            OBVIOUS
        <2>2. \A i \in 1 .. nb : i - 1 \in 0 .. nb - 1
            OBVIOUS
        <2> DEFINE f(i) == 204 + nd * 88 + i * 112
        <2> HIDE DEF f
        <2>3. {f(i) : i \in 0 .. nb - 1} = {f(i - 1) : i \in 1 .. nb}
            <3>1. \A i \in 0 .. nb - 1 : \E k \in 1 .. nb : f(i) = f(k - 1)
                BY <2>1
            <3>2. \A k \in 1 .. nb : \E i \in 0 .. nb - 1 : f(k - 1) = f(i)
                BY <2>2
            <3> QED  BY <3>1, <3>2
        <2> QED  BY <2>3 DEF f
    <1>5. SaveBases(data) = {SaveBase(ds, i) : i \in 1 .. Len(bs)}
        <2>1. {204 + nd * 88 + (i - 1) * 112 : i \in 1 .. nb} = {SaveBase(ds, i) : i \in 1 .. nb}
            BY <1>3
        <2> QED  BY <1>1, <1>2, <1>4, <2>1
    <1>6. \A i \in 1 .. nb : SaveBase(ds, i) \in Nat /\ SaveBase(ds, i) > 0
        BY <1>1, <1>3
    <1>7. \A i, j \in 1 .. nb : SaveBase(ds, i) = SaveBase(ds, j) => i = j
        BY <1>1, <1>3
    <1> QED  BY <1>1, <1>5, <1>6, <1>7

LEMMA ParsesAsWritten ==
    ASSUME DataInv, market = "save"
    PROVE  Parse(account) = [deposits |-> deposits, borrows |-> borrows]
    <1> DEFINE nd == Len(deposits)
               nb == Len(borrows)
               base == DataFlatOffset + nd * DepositStride
    <1>0. /\ WellFormed(borrows) /\ nb \in Nat /\ nd \in Nat /\ deposits \in Seq(Reserves)
          /\ SavePacked(account, deposits, borrows)
        BY DEF DataInv, Shape, WellFormed
    <1>1. NumAt(account, DepositsLenOffset) = nd /\ NumAt(account, BorrowsLenOffset) = nb
        BY <1>0 DEF SavePacked
    <1>2. Parse(account) =
            [deposits |-> [i \in 1 .. nd |->
                KeyAt(account, DataFlatOffset + (i - 1) * DepositStride)],
             borrows |-> [i \in 1 .. nb |->
                [reserve |-> KeyAt(account, base + (i - 1) * SaveBorrowStride),
                 sf |-> NumAt(account, base + (i - 1) * SaveBorrowStride + SaveAmountOffset)]]]
        BY <1>1 DEF Parse
    <1>3. [i \in 1 .. nd |-> KeyAt(account, DataFlatOffset + (i - 1) * DepositStride)] = deposits
        <2>1. deposits = [i \in 1 .. nd |-> deposits[i]]
            BY <1>0
        <2>2. \A i \in 1 .. nd :
                KeyAt(account, DataFlatOffset + (i - 1) * DepositStride) = deposits[i]
            BY <1>0 DEF SavePacked
        <2> QED  BY <2>1, <2>2, Zenon
    <1>4. [i \in 1 .. nb |->
                [reserve |-> KeyAt(account, base + (i - 1) * SaveBorrowStride),
                 sf |-> NumAt(account, base + (i - 1) * SaveBorrowStride + SaveAmountOffset)]]
          = borrows
        <2>1. borrows = [i \in 1 .. nb |-> borrows[i]]
            <3> DEFINE S == Slots
            <3>1. borrows \in Seq(S)
                BY <1>0 DEF WellFormed
            <3> HIDE DEF S
            <3> QED  BY <3>1
        <2>2. ASSUME NEW i \in 1 .. nb
              PROVE  [reserve |-> KeyAt(account, base + (i - 1) * SaveBorrowStride),
                      sf |-> NumAt(account, base + (i - 1) * SaveBorrowStride + SaveAmountOffset)]
                     = borrows[i]
            <3>1. /\ KeyAt(account, base + (i - 1) * SaveBorrowStride) = borrows[i].reserve
                  /\ NumAt(account, base + (i - 1) * SaveBorrowStride + SaveAmountOffset)
                        = borrows[i].sf
                BY <1>0 DEF SavePacked, SaveBase
            <3>2. borrows[i] \in Slots
                BY <1>0, SlotTyped
            <3>3. borrows[i] = [reserve |-> borrows[i].reserve, sf |-> borrows[i].sf]
                BY <3>2 DEF Slots
            <3> QED  BY <3>1, <3>3
        <2> QED  BY <2>1, <2>2, Zenon
    <1> QED  BY <1>2, <1>3, <1>4

\* The account is long enough for all that it holds.
LEMMA LongEnough ==
    ASSUME DataInv, market = "save"
    PROVE  ~SaveTooShort(account)
    <1>0. /\ Len(deposits) \in Nat /\ Len(borrows) \in Nat
          /\ Len(deposits) <= MaxDeposits /\ Len(borrows) <= MaxBorrows
          /\ SavePacked(account, deposits, borrows)
        BY DEF DataInv, Shape, WellFormed
    <1>1. PICK nd, nb \in Nat : nd = Len(deposits) /\ nb = Len(borrows)
        BY <1>0
    <1>2. MaxDeposits \in Nat /\ MaxBorrows \in Nat /\ MaxDeposits * 88 + MaxBorrows * 112 <= 1096
        BY SaveAssumption DEF DepositStride, SaveBorrowStride, SaveLen, DataFlatOffset
    <1>3. nd * 88 + nb * 112 <= 1096
        BY <1>0, <1>1, <1>2
    <1>4. \A i \in 1 .. nb : ~(1300 < 204 + nd * 88 + (i - 1) * 112 + 112)
        BY <1>3
    <1>5. account.len = 1300
        BY <1>0 DEF SavePacked, SaveLen
    <1>6. \A i \in 1 .. nb : SaveBase(deposits, i) = 204 + nd * 88 + (i - 1) * 112
        BY <1>1 DEF SaveBase, DataFlatOffset, DepositStride, SaveBorrowStride
    <1>7. SaveBases(account) = {SaveBase(deposits, i) : i \in 1 .. nb}
        BY <1>0, <1>1, SaveBasesAre
    <1>8. \A b \in SaveBases(account) : ~(1300 < b + 112)
        BY <1>4, <1>6, <1>7
    <1> QED  BY <1>5, <1>8 DEF SaveTooShort, SaveLen, SaveBorrowStride

\* The program's reader finds the slot of the reserve.
LEMMA SaveFirstAt ==
    ASSUME DataInv, market = "save", NEW r \in Reserves
    PROVE  /\ \A k \in 1 .. Len(borrows) : borrows[k].reserve = r =>
                FirstAt(account, SaveBases(account), r) = SaveBase(deposits, k)
           /\ (\A k \in 1 .. Len(borrows) : borrows[k].reserve # r) =>
                FirstAt(account, SaveBases(account), r) = 0
    <1> DEFINE at(k) == SaveBase(deposits, k)
               bases == SaveBases(account)
    <1>0. /\ WellFormed(borrows) /\ Len(deposits) \in Nat /\ Len(borrows) \in Nat
          /\ SavePacked(account, deposits, borrows)
        BY DEF DataInv, Shape, WellFormed
    <1>1. bases = {at(k) : k \in 1 .. Len(borrows)} /\ bases \subseteq Nat
        BY <1>0, SaveBasesAre
    <1>2. \A k \in 1 .. Len(borrows) : KeyAt(account, at(k)) = borrows[k].reserve
        BY <1>0 DEF SavePacked
    <1>3. \A i, k \in 1 .. Len(borrows) : borrows[i].reserve = r /\ borrows[k].reserve = r => i = k
        BY <1>0, ReserveIsSomething DEF WellFormed
    <1> HIDE DEF at, bases
    <1>4. ASSUME NEW k \in 1 .. Len(borrows), borrows[k].reserve = r
          PROVE  FirstAt(account, bases, r) = at(k)
        <2>1. at(k) \in bases /\ KeyAt(account, at(k)) = r
            BY <1>1, <1>2, <1>4
        <2>2. \A y \in bases : KeyAt(account, y) = r => y = at(k)
            BY <1>1, <1>2, <1>3, <1>4
        <2>3. OnlyAt(account, bases, r, at(k))
            BY <1>1, <2>1, <2>2 DEF OnlyAt
        <2> QED  BY <2>3, OnlyOneAt
    <1>5. ASSUME \A k \in 1 .. Len(borrows) : borrows[k].reserve # r
          PROVE  FirstAt(account, bases, r) = 0
        <2>1. \A y \in bases : KeyAt(account, y) # r
            BY <1>1, <1>2, <1>5
        <2> QED  BY <1>1, <2>1, NoneAt
    <1> QED  BY <1>4, <1>5 DEF at, bases

\* read_debt_save: the debt the market holds.
LEMMA ProgramReads ==
    ASSUME DataInv, market = "save", NEW r \in Reserves
    PROVE  ReadDebtSave(account, r) = DebtIs(TokenDebt(r))
    <1> DEFINE first == FirstAt(account, SaveBases(account), r)
    <1>0. /\ Len(deposits) \in Nat /\ Len(borrows) \in Nat
          /\ SavePacked(account, deposits, borrows)
        BY DEF DataInv, Shape, WellFormed
    <1>1. ReadDebtSave(account, r) =
            DebtIs(IF first = 0 THEN 0 ELSE NumAt(account, first + SaveAmountOffset) \div Wad)
        BY LongEnough DEF ReadDebtSave
    <1>2. Scale = Wad
        BY DEF Scale
    <1>3. ASSUME NEW k \in 1 .. Len(borrows), borrows[k].reserve = r
          PROVE  ReadDebtSave(account, r) = DebtIs(TokenDebt(r))
        <2>1. first = SaveBase(deposits, k)
            BY <1>3, SaveFirstAt
        <2>2. SaveBase(deposits, k) # 0
            BY <1>0, SaveBasesAre
        <2>3. NumAt(account, SaveBase(deposits, k) + SaveAmountOffset) = borrows[k].sf
            BY <1>0 DEF SavePacked
        <2>4. TokenDebt(r) = borrows[k].sf \div Wad
            BY <1>2, <1>3, TokenDebtOf
        <2> HIDE DEF first
        <2> QED  BY <1>1, <2>1, <2>2, <2>3, <2>4
    <1>4. ASSUME \A k \in 1 .. Len(borrows) : borrows[k].reserve # r
          PROVE  ReadDebtSave(account, r) = DebtIs(TokenDebt(r))
        <2>1. first = 0 /\ TokenDebt(r) = 0
            BY <1>4, SaveFirstAt, TokenDebtOf
        <2> HIDE DEF first
        <2> QED  BY <1>1, <2>1
    <1> QED  BY <1>3, <1>4

\* readReserveDebt: the same.
LEMMA AdapterReads ==
    ASSUME DataInv, market = "save", NEW r \in Reserves
    PROVE  ReadReserveDebt(account, r) = TokenDebt(r)
    <1> DEFINE mine == {i \in DOMAIN borrows : borrows[i].reserve = r}
    <1>0. WellFormed(borrows) /\ Len(borrows) \in Nat /\ DOMAIN borrows = 1 .. Len(borrows)
        BY DEF DataInv, Shape, WellFormed
    <1>1. Parse(account).borrows = borrows
        BY ParsesAsWritten
    <1>2. ReadReserveDebt(account, r) = IF mine = {} THEN 0 ELSE borrows[Min(mine)].sf \div Wad
        BY <1>1 DEF ReadReserveDebt
    <1>3. Scale = Wad
        BY DEF Scale
    <1>4. CASE mine = {}
        <2>1. \A k \in 1 .. Len(borrows) : borrows[k].reserve # r
            BY <1>0, <1>4
        <2> HIDE DEF mine
        <2> QED  BY <1>2, <1>4, <2>1, TokenDebtOf
    <1>5. CASE mine # {}
        <2>1. mine \subseteq Nat
            BY <1>0
        <2>2. Min(mine) \in mine
            <3> HIDE DEF mine
            <3> QED  BY <1>5, <2>1, MinExists
        <2>3. Min(mine) \in 1 .. Len(borrows) /\ borrows[Min(mine)].reserve = r
            BY <1>0, <2>2
        <2> HIDE DEF mine
        <2> QED  BY <1>2, <1>3, <1>5, <2>3, TokenDebtOf
    <1> QED  BY <1>4, <1>5

\* The offset gate: the mirror of the program and the SDK see the same borrows.
LEMMA GatePasses ==
    ASSUME DataInv, market = "save", borrows # <<>>
    PROVE  OffsetsMatch(account)
    <1> DEFINE at(k) == SaveBase(deposits, k)
               seen(k) == [reserve |-> borrows[k].reserve, debt |-> borrows[k].sf \div Wad]
               I == 1 .. Len(borrows)
    <1>0. /\ WellFormed(borrows) /\ Len(deposits) \in Nat /\ Len(borrows) \in Nat
          /\ DOMAIN borrows = I /\ SavePacked(account, deposits, borrows)
        BY DEF DataInv, Shape, WellFormed
    <1>1. Parse(account).borrows = borrows
        BY ParsesAsWritten
    <1>2. SdkBorrows(account) = {seen(k) : k \in I}
        BY <1>0, <1>1 DEF SdkBorrows
    <1>3. SaveBases(account) = {at(k) : k \in I}
        BY <1>0, SaveBasesAre
    <1>4. ASSUME NEW k \in I
          PROVE  /\ KeyAt(account, at(k)) = borrows[k].reserve
                 /\ ReadDebtSavePure(account, borrows[k].reserve) = borrows[k].sf \div Wad
        <2>1. /\ KeyAt(account, at(k)) = borrows[k].reserve
              /\ NumAt(account, at(k) + SaveAmountOffset) = borrows[k].sf
            BY <1>0 DEF SavePacked
        <2>2. borrows[k].reserve \in Reserves
            BY <1>0, SlotTyped DEF DataInv, Shape
        <2>3. FirstAt(account, SaveBases(account), borrows[k].reserve) = at(k) /\ at(k) # 0
            BY <1>0, <2>2, SaveFirstAt, SaveBasesAre
        <2> HIDE DEF at
        <2> QED  BY <2>1, <2>3, LongEnough DEF ReadDebtSavePure
    <1>5. RustMirrorAllBorrows(account) = {seen(k) : k \in I}
        <2> HIDE DEF at, I
        <2>1. RustMirrorAllBorrows(account) =
                {[reserve |-> KeyAt(account, at(k)),
                  debt |-> ReadDebtSavePure(account, KeyAt(account, at(k)))] : k \in I}
            BY <1>3 DEF RustMirrorAllBorrows
        <2>2. \A k \in I : [reserve |-> KeyAt(account, at(k)),
                  debt |-> ReadDebtSavePure(account, KeyAt(account, at(k)))] = seen(k)
            BY <1>4
        <2> HIDE DEF seen
        <2> QED  BY <2>1, <2>2
    <1>6. \A k \in I : seen(k).debt \in Nat
        BY <1>0, SlotTyped, Scales, FloorDivision
    <1>7. I # {}
        <2> DEFINE S == Slots
        <2>1. borrows \in Seq(S)
            BY <1>0 DEF WellFormed
        <2> HIDE DEF S
        <2>2. Len(borrows) \in Nat \ {0}
            BY <2>1, EmptySeq
        <2>3. \A n \in Nat \ {0} : 1 \in 1 .. n
            OBVIOUS
        <2> QED  BY <2>2, <2>3
    <1> HIDE DEF seen, I
    <1>8. \A s \in SdkBorrows(account) : \E t \in RustMirrorAllBorrows(account) :
            t.reserve = s.reserve /\ t.debt - s.debt \in -1 .. 1
        <2>1. \A s \in SdkBorrows(account) : s \in RustMirrorAllBorrows(account) /\ s.debt \in Nat
            BY <1>2, <1>5, <1>6
        <2>2. \A n \in Nat : n - n \in -1 .. 1
            OBVIOUS
        <2> QED  BY <2>1, <2>2
    <1>9. RustMirrorAllBorrows(account) # {}
        BY <1>5, <1>7
    <1>10. RustMirrorAllBorrows(account) = SdkBorrows(account)
        BY <1>2, <1>5
    <1> QED  BY <1>8, <1>9, <1>10 DEF OffsetsMatch

\* read_debt_kamino: the debt the market holds.
LEMMA KaminoReads ==
    ASSUME DataInv, market = "kamino", NEW r \in Reserves
    PROVE  ReadDebtKamino(account, r) = DebtIs(TokenDebt(r))
    <1> USE DEF KaminoBorrowsOffset, KaminoBorrowStride, KaminoNumBorrows, KaminoAmountOffset
    <1> DEFINE first == FirstAt(account, KaminoBases, r)
    <1>0. WellFormed(borrows) /\ Len(borrows) = 5 /\ KaminoPacked(account, borrows)
        BY DEF DataInv, Shape
    <1>1. ReadDebtKamino(account, r) =
            DebtIs(IF first = 0 THEN 0 ELSE NumAt(account, first + 88) \div Fraction)
        BY <1>0 DEF ReadDebtKamino, KaminoPacked, KaminoLen
    <1>2. KaminoBases = {KaminoBase(k) : k \in 1 .. 5}
        <2>1. \A k \in 0 .. 4 : k + 1 \in 1 .. 5 /\ (k + 1) - 1 = k
            OBVIOUS
        <2>2. \A k \in 1 .. 5 : k - 1 \in 0 .. 4
            OBVIOUS
        <2>3. KaminoBases = {1208 + k * 200 : k \in 0 .. 4}
            BY DEF KaminoBases
        <2>4. {KaminoBase(k) : k \in 1 .. 5} = {1208 + (k - 1) * 200 : k \in 1 .. 5}
            BY DEF KaminoBase
        <2> QED  BY <2>1, <2>2, <2>3, <2>4
    <1>3. \A k \in 1 .. 5 : KaminoBase(k) \in Nat /\ KaminoBase(k) # 0
        BY DEF KaminoBase
    <1>4. KaminoBases \subseteq Nat
        BY <1>2, <1>3
    <1>5. \A k \in 1 .. 5 : /\ KeyAt(account, KaminoBase(k)) = borrows[k].reserve
                            /\ NumAt(account, KaminoBase(k) + 88) = borrows[k].sf
        BY <1>0 DEF KaminoPacked
    <1>6. \A i, k \in 1 .. 5 : borrows[i].reserve = r /\ borrows[k].reserve = r => i = k
        BY <1>0, ReserveIsSomething DEF WellFormed
    <1>7. Scale = Fraction
        BY DEF Scale
    <1>8. ASSUME NEW k \in 1 .. 5, borrows[k].reserve = r
          PROVE  ReadDebtKamino(account, r) = DebtIs(TokenDebt(r))
        <2>1. KaminoBase(k) \in KaminoBases /\ KeyAt(account, KaminoBase(k)) = r
            BY <1>2, <1>5, <1>8
        <2>2. \A y \in KaminoBases : KeyAt(account, y) = r => y = KaminoBase(k)
            BY <1>2, <1>5, <1>6, <1>8
        <2>3. first = KaminoBase(k)
            <3>1. OnlyAt(account, KaminoBases, r, KaminoBase(k))
                BY <1>4, <2>1, <2>2 DEF OnlyAt
            <3> QED  BY <3>1, OnlyOneAt
        <2>4. TokenDebt(r) = borrows[k].sf \div Fraction
            BY <1>0, <1>7, <1>8, TokenDebtOf
        <2> HIDE DEF first
        <2> QED  BY <1>1, <1>3, <1>5, <2>3, <2>4
    <1>9. ASSUME \A k \in 1 .. 5 : borrows[k].reserve # r
          PROVE  ReadDebtKamino(account, r) = DebtIs(TokenDebt(r))
        <2>1. \A y \in KaminoBases : KeyAt(account, y) # r
            BY <1>2, <1>5, <1>9
        <2>2. first = 0 /\ TokenDebt(r) = 0
            BY <1>0, <1>4, <1>9, <2>1, NoneAt, TokenDebtOf
        <2> HIDE DEF first
        <2> QED  BY <1>1, <2>2
    <1> QED  BY <1>8, <1>9

----------------------------------------------------------------------------
(* The fire.                                                               *)

Coords == [reserve : Reserves \cup {Zero}, deposits : Seq(Reserves),
           borrows : Seq(Reserves \cup {Zero})]
Fires == [pc : {"idle", "debt", "build", "send"}, coords : Coords, amount : 0 .. SaveCap,
          usdc : BOOLEAN, disturbed : BOOLEAN]

HasUsdc == \E i \in DOMAIN borrows : borrows[i].reserve = UsdcReserve

\* A fire at a USDC borrow that nothing disturbed: what it read still holds.
FireInv ==
    /\ fire \in Fires
    /\ market # "save" => fire = NoFire
    /\ fire.pc \in {"build", "send"} => fire.amount > 0
    /\ fire.pc # "idle" /\ ~fire.disturbed /\ fire.usdc =>
        /\ HasUsdc
        /\ CoordsMatch
        /\ fire.pc \in {"build", "send"} => fire.amount <= TokenDebt(UsdcReserve)

HistoryInv ==
    /\ last \in {"none", "landed", "stale", "disturbed"}
    /\ kept = 0
    /\ moves \in 0 .. MaxMoves

SaveInv == DataInv /\ FireInv /\ HistoryInv

LEMMA NoFireTyped == NoFire \in Fires /\ NoFire.pc = "idle" /\ NoFire.amount = 0
    <1>1. NoCoords \in Coords
        BY DEF NoCoords, Coords
    <1>2. 0 \in 0 .. SaveCap
        BY SaveAssumption
    <1> QED  BY <1>1, <1>2 DEF NoFire, Fires

\* Of a sequence of Save borrows every one is owed.
LEMMA SaveDomain ==
    ASSUME DataInv
    PROVE  /\ DOMAIN borrows = 1 .. Len(borrows) /\ Len(borrows) \in Nat
           /\ DOMAIN deposits = 1 .. Len(deposits) /\ Len(deposits) \in Nat
           /\ borrows # <<>> <=> Len(borrows) > 0
           /\ market = "save" => \A i \in 1 .. Len(borrows) :
                    borrows[i].reserve \in Reserves /\ borrows[i].sf > 0
    <1> DEFINE S == Slots
    <1>1. borrows \in Seq(S) /\ deposits \in Seq(Reserves) /\ WellFormed(borrows)
        BY DEF DataInv, Shape, WellFormed
    <1>2. market = "save" => \A i \in 1 .. Len(borrows) :
                    borrows[i].reserve \in Reserves /\ borrows[i].sf > 0
        <2> SUFFICES ASSUME market = "save", NEW i \in 1 .. Len(borrows)
                     PROVE  borrows[i].reserve \in Reserves /\ borrows[i].sf > 0
            OBVIOUS
        <2>1. borrows[i].reserve # Zero
            BY DEF DataInv, Shape
        <2> QED  BY <1>1, <2>1, SlotTyped DEF WellFormed
    <1> HIDE DEF S
    <1>3. borrows # <<>> <=> Len(borrows) > 0
        <2>1. borrows # <<>> => Len(borrows) \in Nat \ {0}
            BY <1>1, EmptySeq
        <2> QED  BY <2>1
    <1> QED  BY <1>1, <1>2, <1>3

\* readRepayCoords: the account as it is, and the USDC borrow where there is one.
LEMMA ReadsCoords ==
    ASSUME DataInv, market = "save", borrows # <<>>
    PROVE  /\ ReadRepayCoords \in Coords
           /\ ReadRepayCoords.deposits = deposits
           /\ ReadRepayCoords.borrows = [i \in DOMAIN borrows |-> borrows[i].reserve]
           /\ HasUsdc => ReadRepayCoords.reserve = UsdcReserve
    <1> DEFINE nonzero == {i \in DOMAIN borrows : borrows[i].sf > 0}
               usdc == {i \in nonzero : borrows[i].reserve = UsdcReserve}
               n == Len(borrows)
               lent == [i \in DOMAIN borrows |-> borrows[i].reserve]
    <1>0. /\ DOMAIN borrows = 1 .. n /\ n \in Nat \ {0} /\ deposits \in Seq(Reserves)
          /\ \A i \in 1 .. n : borrows[i].reserve \in Reserves /\ borrows[i].sf > 0
        BY SaveDomain DEF DataInv, Shape
    <1>1. ReadRepayCoords = [reserve |-> Primary(borrows), deposits |-> deposits, borrows |-> lent]
        BY ParsesAsWritten DEF ReadRepayCoords
    <1>2. nonzero = 1 .. n /\ nonzero # {} /\ usdc \subseteq 1 .. n
        BY <1>0
    <1>3. Max(1 .. n) \in 1 .. n
        <2>1. n \in 1 .. n /\ \A y \in 1 .. n : n >= y
            BY <1>0
        <2> QED  BY <2>1 DEF Max
    <1>4. usdc # {} => Min(usdc) \in usdc
        <2>1. usdc \subseteq Nat
            BY <1>0, <1>2
        <2> HIDE DEF usdc
        <2> QED  BY <2>1, MinExists
    <1>5. Primary(borrows) =
            borrows[IF usdc # {} THEN Min(usdc)
                    ELSE IF nonzero # {} THEN Max(nonzero) ELSE 1].reserve
        BY DEF Primary
    <1>6. HasUsdc => usdc # {}
        BY <1>0, <1>2 DEF HasUsdc
    <1>7. usdc # {} => Primary(borrows) = UsdcReserve
        <2>1. usdc # {} => Primary(borrows) = borrows[Min(usdc)].reserve
            BY <1>5
        <2>2. \A i \in usdc : borrows[i].reserve = UsdcReserve
            OBVIOUS
        <2> HIDE DEF usdc
        <2> QED  BY <1>4, <2>1, <2>2
    <1>8. Primary(borrows) \in Reserves
        <2> HIDE DEF usdc, nonzero
        <2> QED  BY <1>0, <1>2, <1>3, <1>5, <1>7, SaveAssumption
    <1>9. lent \in Seq(Reserves \cup {Zero})
        <2> HIDE DEF n
        <2> QED  BY <1>0
    <1> HIDE DEF lent
    <1>10. ReadRepayCoords \in Coords
        BY <1>0, <1>1, <1>8, <1>9 DEF Coords
    <1> QED  BY <1>1, <1>6, <1>7, <1>10 DEF lent

LEMMA NothingBorrowedIs ==
    ASSUME DataInv, market = "save"
    PROVE  NothingBorrowed <=> borrows = <<>>
    BY ParsesAsWritten DEF NothingBorrowed

----------------------------------------------------------------------------
(* The invariant of a Save loan.                                           *)

LEMMA SaveInitially == LoopsInit => SaveInv
    <1> SUFFICES ASSUME LoopsInit PROVE SaveInv
        OBVIOUS
    <1>1. SaveAtRest \/ SaveInit
        BY DEF LoopsInit
    <1>2. fire = NoFire /\ last = "none" /\ kept = 0 /\ moves = 0 /\ deposits = <<>>
        BY <1>1 DEF SaveAtRest, SaveInit
    <1>3. FireInv
        BY <1>2, NoFireTyped DEF FireInv
    <1>4. HistoryInv
        BY <1>2, SaveAssumption DEF HistoryInv
    <1>5. MaxDeposits \in Nat /\ MaxBorrows \in Nat
        BY SaveAssumption
    <1>6. WellFormed(<<>>) /\ Len(<<>>) = 0
        <2>1. <<>> \in Seq(Slots)
            <3> DEFINE S == Slots
            <3> HIDE DEF S
            <3>1. <<>> \in Seq(S)
                OBVIOUS
            <3> QED  BY <3>1 DEF S
        <2> QED  BY <2>1 DEF WellFormed
    <1>7. <<>> \in Seq(Reserves) /\ Len(<<>>) <= MaxDeposits /\ Len(<<>>) <= MaxBorrows
        BY <1>5
    <1>8. DataInv
        <2>1. CASE SaveAtRest
            BY <1>6, <1>7, <2>1 DEF SaveAtRest, DataInv, Shape
        <2>2. CASE /\ market = "save" /\ borrows = <<>> /\ deposits = <<>>
                   /\ account = PackSave(EmptyAccount, <<>>, <<>>)
            <3>1. SavePacked(account, deposits, borrows)
                BY <1>6, <2>2, Packing
            <3> QED  BY <1>6, <1>7, <2>2, <3>1 DEF DataInv, Shape
        <2>3. CASE /\ market = "kamino" /\ deposits = <<>>
                   /\ borrows = [i \in 1 .. KaminoNumBorrows |-> NoBorrow]
                   /\ account = PackKamino(borrows)
            <3> USE DEF KaminoNumBorrows
            <3>1. \A i \in 1 .. 5 : borrows[i] = NoBorrow
                BY <2>3
            <3>2. KaminoPacked(account, borrows)
                BY <2>3, <3>1, PackingKamino DEF NoBorrow
            <3>3. borrows \in Seq(Slots) /\ Len(borrows) = 5
                <4> DEFINE S == Slots
                <4>1. NoBorrow \in S
                    BY DEF NoBorrow, Slots
                <4> HIDE DEF S
                <4>2. borrows \in Seq(S) /\ Len(borrows) = 5
                    BY <2>3, <4>1
                <4> QED  BY <4>2 DEF S
            <3>4. WellFormed(borrows)
                BY <3>1, <3>3 DEF WellFormed, NoBorrow
            <3> QED  BY <1>7, <2>3, <3>2, <3>3, <3>4 DEF DataInv, Shape
        <2> QED  BY <1>1, <1>2, <2>1, <2>2, <2>3 DEF SaveInit
    <1> QED  BY <1>3, <1>4, <1>8 DEF SaveInv

\* The owner moves: what a fire has read is not trusted any more.
LEMMA Moved ==
    ASSUME SaveInv, NEW ds, NEW bs, Shape(market, ds, bs), Write(ds, bs), Move
    PROVE  SaveInv'
    <1>1. DataInv'
        BY Writing DEF SaveInv, Move
    <1>2. PICK b \in BOOLEAN : b <=> fire.pc # "idle"
        OBVIOUS
    <1>3. fire' = [fire EXCEPT !.disturbed = b]
        BY <1>2 DEF Move
    <1>4. /\ fire' \in Fires /\ fire'.pc = fire.pc /\ fire'.amount = fire.amount
          /\ fire'.disturbed = b
        BY <1>3 DEF SaveInv, FireInv, Fires
    <1>5. fire = NoFire => fire' = NoFire
        <2> SUFFICES ASSUME fire = NoFire PROVE fire' = fire
            OBVIOUS
        <2>1. fire.pc = "idle" /\ fire.disturbed = FALSE
            BY DEF NoFire
        <2>2. b = FALSE /\ fire \in Fires
            BY <1>2, <2>1 DEF SaveInv, FireInv
        <2>3. [fire EXCEPT !.disturbed = FALSE] = fire
            BY <2>1, <2>2 DEF Fires
        <2> QED  BY <1>3, <2>2, <2>3
    <1>6. FireInv'
        BY <1>2, <1>4, <1>5 DEF SaveInv, FireInv, Move
    <1>7. HistoryInv'
        BY SaveAssumption DEF SaveInv, HistoryInv, Move
    <1> QED  BY <1>1, <1>6, <1>7 DEF SaveInv

LEMMA OwnerKeeps ==
    ASSUME SaveInv, OwnerStep
    PROVE  SaveInv'
    <1>0. DataInv
        BY DEF SaveInv
    <1>1. ASSUME NEW r \in Reserves, Deposit(r) PROVE SaveInv'
        BY <1>0, <1>1, ShapeDeposits, Moved DEF Deposit
    <1>2. ASSUME NEW i \in DOMAIN deposits, Withdraw(i) PROVE SaveInv'
        <2>1. market = "save"
            BY <1>0, <1>2 DEF DataInv, Shape
        <2>2. i \in 1 .. Len(deposits)
            BY <1>0, SaveDomain
        <2> QED  BY <1>0, <1>2, <2>1, <2>2, ShapeDeposits, Moved DEF Withdraw
    <1>3. ASSUME NEW r \in Reserves, NEW n \in Amounts, Borrow(r, n) PROVE SaveInv'
        <2> DEFINE b == [reserve |-> r, sf |-> n * Scale + 1]
                   empty == {i \in DOMAIN borrows : borrows[i] = NoBorrow}
        <2>1. n \in Nat
            BY SaveAssumption
        <2>2. /\ market = "save" /\ Len(borrows) < MaxBorrows =>
                    Shape(market, deposits, Append(borrows, b))
              /\ market = "kamino" /\ empty # {} =>
                    Shape(market, deposits, [borrows EXCEPT ![Min(empty)] = b])
            BY <1>0, <1>3, <2>1, ShapeBorrow DEF Borrow
        <2>3. \/ /\ market = "save" /\ Len(borrows) < MaxBorrows
                 /\ Write(deposits, Append(borrows, b))
              \/ /\ market = "kamino" /\ empty # {}
                 /\ Write(deposits, [borrows EXCEPT ![Min(empty)] = b])
            BY <1>3 DEF Borrow
        <2>4. Move
            BY <1>3 DEF Borrow
        <2> HIDE DEF b, empty
        <2> QED  BY <2>2, <2>3, <2>4, Moved
    <1>4. ASSUME NEW i \in DOMAIN borrows, NEW n \in Amounts, OwnerRepay(i, n) PROVE SaveInv'
        <2>1. n \in Nat /\ i \in 1 .. Len(borrows)
            BY <1>0, SaveAssumption, SaveDomain
        <2> QED  BY <1>0, <1>4, <2>1, ShapeRepay, Moved DEF OwnerRepay
    <1>5. ASSUME NEW i \in DOMAIN borrows, Accrue(i) PROVE SaveInv'
        <2>1. i \in 1 .. Len(borrows)
            BY <1>0, SaveDomain
        <2> QED  BY <1>0, <1>5, <2>1, ShapeAccrue, Moved DEF Accrue
    <1>6. Amounts \subseteq Nat
        BY SaveAssumption
    <1> QED  BY <1>1, <1>2, <1>3, <1>4, <1>5, <1>6 DEF OwnerStep

\* No more than owed: a debt in whole base units, rounded down and up.
LEMMA FloorIsBelowCeiling ==
    ASSUME NEW n \in Nat, NEW d \in Nat \ {0}
    PROVE  n \div d \in Nat /\ (n + d - 1) \div d \in Nat /\ n \div d <= (n + d - 1) \div d
    <1>1. n + d - 1 \in Nat
        OBVIOUS
    <1>2. /\ n \div d \in Nat /\ (n \div d) * d <= n
          /\ (n + d - 1) \div d \in Nat
        BY <1>1, FloorDivision
    <1>3. PICK q, c \in Nat : q = n \div d /\ c = (n + d - 1) \div d
        BY <1>2
    <1>4. n + d - 1 < (c + 1) * d
        BY <1>1, <1>3, SMT
    <1>5. q * d < (c + 1) * d
        <2>1. q * d \in Nat /\ (c + 1) * d \in Nat
            BY SMT
        <2> QED  BY <1>2, <1>3, <1>4, <2>1
    <1>6. q < c + 1
        BY <1>5, SMT
    <1> QED  BY <1>3, <1>6

LEMMA SendKeeps ==
    ASSUME SaveInv, Send
    PROVE  SaveInv'
    <1> USE DEF SaveInv
    <1>0. /\ market = "save" /\ fire.pc = "send"
          /\ fire' = NoFire /\ market' = market /\ moves' = moves
        BY NoFireTyped DEF Send, FireInv
    <1>1. fire.amount \in Nat /\ fire.amount > 0
        BY <1>0, SaveAssumption DEF FireInv, Fires
    <1>2. FireInv'
        BY <1>0, NoFireTyped DEF FireInv
    <1>3. UsdcReserve \in Reserves
        BY SaveAssumption
    <1>s. PICK others \in SUBSET Reserves :
            IF WithinLiveDebt /\ MarketTakesIt(others)
            THEN LET i == CHOOSE j \in DOMAIN borrows : borrows[j].reserve = UsdcReserve
                     owed == (borrows[i].sf + Wad - 1) \div Wad
                 IN  /\ Write(deposits, AfterRepay(i, fire.amount))
                     /\ kept' = kept + (IF fire.amount > owed THEN fire.amount - owed ELSE 0)
                     /\ last' = "landed"
            ELSE /\ last' = IF fire.disturbed THEN "disturbed"
                            ELSE IF ~ReservesFresh(others) THEN "stale"
                            ELSE IF fire.usdc THEN "reverted" ELSE "none"
                 /\ UNCHANGED <<deposits, borrows, account, kept>>
        BY DEF Send
    <1>4. CASE WithinLiveDebt /\ MarketTakesIt(others)
        <2> DEFINE i == CHOOSE j \in DOMAIN borrows : borrows[j].reserve = UsdcReserve
                   owed == (borrows[i].sf + Wad - 1) \div Wad
        <2>1. /\ Write(deposits, AfterRepay(i, fire.amount))
              /\ kept' = kept + (IF fire.amount > owed THEN fire.amount - owed ELSE 0)
              /\ last' = "landed"
            BY <1>s, <1>4
        <2>2. fire.coords.reserve = UsdcReserve
            BY <1>4 DEF MarketTakesIt, CoordsMatch
        <2>3. ReadDebtSave(account, UsdcReserve) = DebtIs(TokenDebt(UsdcReserve))
            BY <1>0, <1>3, ProgramReads
        <2>4. fire.amount <= TokenDebt(UsdcReserve)
            BY <1>4, <2>2, <2>3 DEF WithinLiveDebt, DebtIs
        <2>5. \E j \in DOMAIN borrows : borrows[j].reserve = UsdcReserve
            <3>1. TokenDebt(UsdcReserve) # 0 /\ TokenDebt(UsdcReserve) \in Nat
                BY <1>1, <1>3, <2>4, TokenDebtOf
            <3> QED  BY <1>3, <3>1, SaveDomain, TokenDebtOf
        <2>6. i \in 1 .. Len(borrows) /\ borrows[i].reserve = UsdcReserve
            BY <2>5, SaveDomain
        <2>7. borrows[i].sf \in Nat /\ borrows[i].sf > 0
            <3> HIDE DEF i
            <3>1. WellFormed(borrows)
                BY DEF DataInv, Shape
            <3> QED  BY <1>0, <2>6, <3>1, SlotTyped, SaveDomain
        <2>8. TokenDebt(UsdcReserve) = borrows[i].sf \div Wad
            <3> HIDE DEF i
            <3>1. Scale = Wad
                BY <1>0 DEF Scale
            <3> QED  BY <1>3, <2>6, <3>1, TokenDebtOf
        <2>9. ~(fire.amount > owed) /\ owed \in Nat
            <3> HIDE DEF i
            <3>1. /\ borrows[i].sf \div Wad \in Nat /\ owed \in Nat
                  /\ borrows[i].sf \div Wad <= owed
                BY <2>7, Scales, FloorIsBelowCeiling
            <3> HIDE DEF owed
            <3> QED  BY <1>1, <2>4, <2>8, <3>1
        <2> HIDE DEF i, owed
        <2>10. DataInv'
            BY <1>0, <1>1, <2>1, <2>6, <2>7, ShapeRepay, Writing
        <2>11. HistoryInv'
            BY <1>0, <2>1, <2>9 DEF HistoryInv
        <2> QED  BY <1>2, <2>10, <2>11
    <1>5. CASE ~(WithinLiveDebt /\ MarketTakesIt(others))
        <2>1. /\ last' = IF fire.disturbed THEN "disturbed"
                       ELSE IF ~ReservesFresh(others) THEN "stale"
                       ELSE IF fire.usdc THEN "reverted" ELSE "none"
              /\ UNCHANGED <<deposits, borrows, account, kept>>
            BY <1>s, <1>5
        <2>2. ~(~fire.disturbed /\ ReservesFresh(others) /\ fire.usdc)
            <3> SUFFICES ASSUME ~fire.disturbed, ReservesFresh(others), fire.usdc PROVE FALSE
                OBVIOUS
            <3>1. CoordsMatch /\ fire.amount <= TokenDebt(UsdcReserve)
                BY <1>0 DEF FireInv
            <3>2. ReadDebtSave(account, fire.coords.reserve) = DebtIs(TokenDebt(UsdcReserve))
                BY <1>0, <1>3, <3>1, ProgramReads DEF CoordsMatch
            <3>3. WithinLiveDebt
                BY <3>1, <3>2 DEF WithinLiveDebt, DebtIs
            <3> QED  BY <1>5, <3>1, <3>3 DEF MarketTakesIt
        <2>3. DataInv'
            BY <1>0, <2>1 DEF DataInv, Shape, SavePacked, KaminoPacked
        <2>4. HistoryInv'
            BY <1>0, <2>1, <2>2 DEF HistoryInv
        <2> QED  BY <1>2, <2>3, <2>4
    <1> QED  BY <1>4, <1>5

LEMMA KeeperKeeps ==
    ASSUME SaveInv, KeeperStep
    PROVE  SaveInv'
    <1> USE DEF SaveInv
    <1>0. ASSUME UNCHANGED <<market, deposits, borrows, account, last, kept, moves>>
          PROVE  DataInv' /\ HistoryInv'
        BY <1>0 DEF DataInv, Shape, SavePacked, KaminoPacked, HistoryInv
    <1>1. CASE FetchCoords
        <2>1. /\ market = "save" /\ borrows # <<>>
              /\ UNCHANGED <<market, deposits, borrows, account, last, kept, moves>>
            BY <1>1, NothingBorrowedIs DEF FetchCoords
        <2>2. PICK u \in BOOLEAN : u <=> HasUsdc
            OBVIOUS
        <2>3. fire' = [NoFire EXCEPT !.pc = "debt", !.coords = ReadRepayCoords, !.usdc = u]
            BY <1>1, <2>2 DEF FetchCoords, HasUsdc
        <2>4. PICK c \in Coords : c = ReadRepayCoords
            BY <2>1, ReadsCoords
        <2>5. /\ fire' \in Fires /\ fire'.pc = "debt" /\ fire'.coords = c /\ fire'.usdc = u
            BY <2>3, <2>4, NoFireTyped DEF Fires
        <2>6. u => HasUsdc' /\ CoordsMatch'
            BY <2>1, <2>2, <2>4, <2>5, ReadsCoords DEF CoordsMatch, HasUsdc
        <2>7. FireInv'
            BY <2>1, <2>5, <2>6 DEF FireInv
        <2> QED  BY <1>0, <2>1, <2>7
    <1>2. CASE FetchDebt
        <2> DEFINE read == ReadReserveDebt(account, fire.coords.reserve)
                   amount == SaveAmount(read)
        <2>1. /\ fire.pc = "debt" /\ market = "save"
              /\ UNCHANGED <<market, deposits, borrows, account, last, kept, moves>>
              /\ \/ amount = 0 /\ fire' = NoFire
                 \/ amount # 0 /\ fire' = [fire EXCEPT !.pc = "build", !.amount = amount]
            BY <1>2, NoFireTyped DEF FetchDebt, FireInv
        <2>2. read \in Nat
            <3>1. Parse(account).borrows = borrows
                BY <2>1, ParsesAsWritten
            <3>2. \A i \in DOMAIN borrows : borrows[i].sf \in Nat /\ borrows[i].sf \div Wad \in Nat
                BY SaveDomain, SlotTyped, Scales, FloorDivision DEF DataInv, Shape
            <3> DEFINE mine == {i \in DOMAIN borrows : borrows[i].reserve = fire.coords.reserve}
            <3>3. read = IF mine = {} THEN 0 ELSE borrows[Min(mine)].sf \div Wad
                BY <3>1 DEF ReadReserveDebt
            <3>4. mine # {} => Min(mine) \in mine
                <4>1. mine \subseteq Nat
                    BY SaveDomain
                <4> HIDE DEF mine
                <4> QED  BY <4>1, MinExists
            <3>5. mine \subseteq DOMAIN borrows
                OBVIOUS
            <3> HIDE DEF read, mine
            <3> QED  BY <3>2, <3>3, <3>4, <3>5
        <2>3. amount \in 0 .. SaveCap /\ amount <= read
            <3> HIDE DEF read
            <3>1. read \div 2 \in Nat /\ read \div 2 <= read /\ SaveCap \in Nat
                BY <2>2, SaveAssumption
            <3> QED  BY <2>2, <3>1 DEF SaveAmount
        <2> HIDE DEF amount
        <2>4. CASE amount = 0 /\ fire' = NoFire
            BY <1>0, <2>1, <2>4, NoFireTyped DEF FireInv
        <2>5. CASE amount # 0 /\ fire' = [fire EXCEPT !.pc = "build", !.amount = amount]
            <3>1. /\ fire' \in Fires /\ fire'.pc = "build" /\ fire'.amount = amount
                  /\ fire'.coords = fire.coords /\ fire'.usdc = fire.usdc
                  /\ fire'.disturbed = fire.disturbed
                BY <2>3, <2>5 DEF FireInv, Fires
            <3>2. ~fire.disturbed /\ fire.usdc => HasUsdc /\ CoordsMatch
                BY <2>1 DEF FireInv
            <3>3. CoordsMatch => amount <= TokenDebt(UsdcReserve)
                BY <2>1, <2>3, AdapterReads, SaveAssumption DEF CoordsMatch
            <3>4. (CoordsMatch => CoordsMatch') /\ (HasUsdc => HasUsdc')
                BY <2>1, <3>1 DEF CoordsMatch, HasUsdc
            <3>5. TokenDebt(UsdcReserve)' = TokenDebt(UsdcReserve)
                BY <2>1 DEF TokenDebt, Scale
            <3>6. amount > 0
                BY <2>3, <2>5
            <3>7. FireInv'
                BY <2>1, <3>1, <3>2, <3>3, <3>4, <3>5, <3>6 DEF FireInv
            <3> QED  BY <1>0, <2>1, <3>7
        <2> QED  BY <2>1, <2>4, <2>5
    <1>3. CASE BuildRepay
        <2>1. /\ fire.pc = "build" /\ market = "save"
              /\ UNCHANGED <<market, deposits, borrows, account, last, kept, moves>>
              /\ \/ fire' = NoFire
                 \/ /\ borrows # <<>>
                    /\ fire' = [fire EXCEPT !.pc = "send", !.coords = ReadRepayCoords]
            BY <1>3, NothingBorrowedIs, NoFireTyped DEF BuildRepay, FireInv
        <2>2. CASE fire' = NoFire
            BY <1>0, <2>1, <2>2, NoFireTyped DEF FireInv
        <2>3. CASE borrows # <<>> /\ fire' = [fire EXCEPT !.pc = "send", !.coords = ReadRepayCoords]
            <3>1. PICK c \in Coords : c = ReadRepayCoords
                BY <2>1, <2>3, ReadsCoords
            <3>2. /\ fire' \in Fires /\ fire'.pc = "send" /\ fire'.amount = fire.amount
                  /\ fire'.coords = c /\ fire'.usdc = fire.usdc /\ fire'.disturbed = fire.disturbed
                BY <2>3, <3>1 DEF FireInv, Fires
            <3>3. ~fire.disturbed /\ fire.usdc => HasUsdc /\ fire.amount <= TokenDebt(UsdcReserve)
                BY <2>1 DEF FireInv
            <3>4. HasUsdc => HasUsdc' /\ CoordsMatch'
                BY <2>1, <2>3, <3>1, <3>2, ReadsCoords DEF CoordsMatch, HasUsdc
            <3>5. TokenDebt(UsdcReserve)' = TokenDebt(UsdcReserve)
                BY <2>1 DEF TokenDebt, Scale
            <3>6. fire.amount > 0
                BY <2>1 DEF FireInv
            <3>7. FireInv'
                BY <2>1, <3>2, <3>3, <3>4, <3>5, <3>6 DEF FireInv
            <3> QED  BY <1>0, <2>1, <3>7
        <2> QED  BY <2>1, <2>2, <2>3
    <1>4. CASE Send
        BY <1>4, SendKeeps
    <1> QED  BY <1>1, <1>2, <1>3, <1>4 DEF KeeperStep

LEMMA SaveStep ==
    ASSUME SaveInv, [LoopsNext]_<<vars, saveVars>>
    PROVE  SaveInv'
    <1>1. CASE SaveNext
        BY <1>1, OwnerKeeps, KeeperKeeps DEF SaveNext
    <1>2. CASE UNCHANGED saveVars
        BY <1>2 DEF saveVars, SaveInv, DataInv, Shape, SavePacked, KaminoPacked, FireInv,
                    HistoryInv, HasUsdc, CoordsMatch, TokenDebt, Scale
    <1> QED  BY <1>1, <1>2 DEF LoopsNext

LEMMA SaveAlways == LoopsSpec => []SaveInv
    BY SaveInitially, SaveStep, PTL DEF LoopsSpec

----------------------------------------------------------------------------
(* The theorems of a Save loan.                                            *)

\* Every variable of the Save loan has its type.
THEOREM SaveTypeCorrect == LoopsSpec => []SaveTypeOK
    <1>1. SaveInv => SaveTypeOK
        <2> SUFFICES ASSUME SaveInv PROVE SaveTypeOK
            OBVIOUS
        <2>1. deposits \in BoundedSeq(Reserves, MaxDeposits)
            <3>1. /\ deposits \in [1 .. Len(deposits) -> Reserves]
                  /\ Len(deposits) \in 0 .. MaxDeposits
                BY SaveAssumption DEF SaveInv, DataInv, Shape
            <3> QED  BY <3>1 DEF BoundedSeq, SeqOf
        <2>2. \A i \in DOMAIN borrows :
                borrows[i].reserve \in Reserves \cup {Zero} /\ borrows[i].sf \in Nat
            BY SaveDomain, SlotTyped DEF SaveInv, DataInv, Shape
        <2> QED  BY <2>1, <2>2 DEF SaveInv, DataInv, FireInv, Fires, HistoryInv, SaveTypeOK
    <1> QED  BY <1>1, SaveAlways, PTL

\* The D2.3a gate for every obligation: the readers of the program and the one of the SDK
\* find the debt the market holds, however borrows have moved.
THEOREM ReadersAlwaysAgree == LoopsSpec => []ReadersAgree
    <1>1. SaveInv => ReadersAgree
        BY ProgramReads, AdapterReads, GatePasses, KaminoReads DEF SaveInv, ReadersAgree
    <1> QED  BY <1>1, SaveAlways, PTL

\* The market takes all that is released for it.
THEOREM MarketTakesAll == LoopsSpec => []NothingStaysWithKeeper
    <1>1. SaveInv => NothingStaysWithKeeper
        BY DEF SaveInv, HistoryInv, NothingStaysWithKeeper
    <1> QED  BY <1>1, SaveAlways, PTL

\* A fire at a loan with a USDC borrow lands, unless its owner moved meanwhile or a reserve
\* of the loan was not refreshed in the slot, be it by the fire or by somebody else.
THEOREM FreshFiresLand == LoopsSpec => []RevertsOnlyDisturbedOrStale
    <1>1. SaveInv => RevertsOnlyDisturbedOrStale
        BY DEF SaveInv, HistoryInv, RevertsOnlyDisturbedOrStale
    <1> QED  BY <1>1, SaveAlways, PTL
=============================================================================
