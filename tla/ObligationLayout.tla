--------------------------- MODULE ObligationLayout ---------------------------
(***************************************************************************)
(* The bytes of an obligation and what reads them: the vault program       *)
(* (markets.rs), the replica the tests use and the parser of the lending   *)
(* market's SDK (adapters/save/src/obligation.ts).                         *)
(*                                                                         *)
(* An account is [len, key, num]: its length and, by offset, the public    *)
(* keys and the numbers written there; what is at no offset is zero.       *)
(* Offsets and strides are the real ones.  Only the two scales, 1e18 and   *)
(* 2^60 fractions to a base unit, are constants.                           *)
(***************************************************************************)
EXTENDS Integers, Sequences, SequencesExt, FiniteSetsExt

CONSTANTS
    Reserves,       \* reserves of the lending markets
    Zero,           \* the key of zero bytes, which is no reserve
    Wad,            \* SAVE_WAD: fractions in a base unit of Save
    Fraction        \* 2 ^ KAMINO_FRACTION_SHIFT: fractions in a base unit of Kamino

ASSUME LayoutAssumption ==
    /\ Zero \notin Reserves
    /\ Wad \in Nat \ {0}
    /\ Fraction \in Nat \ {0}

SaveLen == 1300
DataFlatOffset == 204
DepositsLenOffset == 202
BorrowsLenOffset == 203
DepositStride == 88
SaveBorrowStride == 112
SaveAmountOffset == 48
KaminoBorrowsOffset == 1208
KaminoBorrowStride == 200
KaminoAmountOffset == 88
KaminoNumBorrows == 5
KaminoLen == 3344

KeyAt(data, o) == IF o \in DOMAIN data.key THEN data.key[o] ELSE Zero
NumAt(data, o) == IF o \in DOMAIN data.num THEN data.num[o] ELSE 0

----------------------------------------------------------------------------
(* What the markets write (external): deposits, a sequence of reserves, and *)
(* borrows, a sequence of [reserve, sf] with sf the debt in fractions.      *)

\* Save packs borrows behind deposits; what was written beyond them before stays there.
PackSave(old, deposits, borrows) ==
    LET base == DataFlatOffset + Len(deposits) * DepositStride
        end == base + Len(borrows) * SaveBorrowStride
        deposit == [o \in {DataFlatOffset + i * DepositStride : i \in 0 .. Len(deposits) - 1} |->
                        deposits[(o - DataFlatOffset) \div DepositStride + 1]]
        slot(o) == borrows[(o - base) \div SaveBorrowStride + 1]
        bases == {base + i * SaveBorrowStride : i \in 0 .. Len(borrows) - 1}
        amounts == {b + SaveAmountOffset : b \in bases}
        beyond(f) == [o \in {p \in DOMAIN f : p >= end} |-> f[o]]
        Put(f, g) == [o \in DOMAIN f \cup DOMAIN g |-> IF o \in DOMAIN f THEN f[o] ELSE g[o]]
    IN  [len |-> SaveLen,
         key |-> Put(Put(deposit, [o \in bases |-> slot(o).reserve]), beyond(old.key)),
         num |-> Put([o \in {DepositsLenOffset, BorrowsLenOffset} |->
                          IF o = DepositsLenOffset THEN Len(deposits) ELSE Len(borrows)],
                     Put([o \in amounts |-> slot(o).sf], beyond(old.num)))]

\* Kamino keeps five slots where they are; one that is empty holds zeros.
PackKamino(borrows) ==
    LET base(i) == KaminoBorrowsOffset + (i - 1) * KaminoBorrowStride
        slot(o) == borrows[(o - KaminoBorrowsOffset) \div KaminoBorrowStride + 1]
        used == {i \in 1 .. KaminoNumBorrows : borrows[i].reserve # Zero}
    IN  [len |-> KaminoLen,
         key |-> [o \in {base(i) : i \in used} |-> slot(o).reserve],
         num |-> [o \in {base(i) + KaminoAmountOffset : i \in used} |-> slot(o).sf]]

----------------------------------------------------------------------------
(* The readers.  A read is [ok, debt]; one that is not ok is BadObligation. *)

BadObligation == [ok |-> FALSE, debt |-> 0]
DebtIs(n) == [ok |-> TRUE, debt |-> n]

\* The first of the slots at the given bases that holds the reserve, or 0.
FirstAt(data, bases, reserve) ==
    LET found == {b \in bases : KeyAt(data, b) = reserve}
    IN  IF found = {} THEN 0 ELSE Min(found)

KaminoBases ==
    {KaminoBorrowsOffset + slot * KaminoBorrowStride : slot \in 0 .. KaminoNumBorrows - 1}

ReadDebtKamino(data, reserve) ==
    LET base == FirstAt(data, KaminoBases, reserve)
    IN  IF data.len < KaminoBorrowsOffset + KaminoNumBorrows * KaminoBorrowStride
        THEN BadObligation
        ELSE DebtIs(IF base = 0 THEN 0 ELSE NumAt(data, base + KaminoAmountOffset) \div Fraction)

\* Plausible bug: the borrows are looked for until one matches, however few there are.
ReadDebtSaveAnywhere(data, reserve) ==
    LET borrowsBase == DataFlatOffset + NumAt(data, DepositsLenOffset) * DepositStride
        base == FirstAt(data, {borrowsBase + i * SaveBorrowStride : i \in 0 .. 7}, reserve)
    IN  DebtIs(IF base = 0 THEN 0 ELSE NumAt(data, base + SaveAmountOffset) \div Wad)

\* Where the borrows of a Save obligation are.
SaveBases(data) ==
    LET base == DataFlatOffset + NumAt(data, DepositsLenOffset) * DepositStride
    IN  {base + i * SaveBorrowStride : i \in 0 .. NumAt(data, BorrowsLenOffset) - 1}

SaveTooShort(data) ==
    data.len < SaveLen \/ \E b \in SaveBases(data) : data.len < b + SaveBorrowStride

ReadDebtSave(data, reserve) ==
    LET base == FirstAt(data, SaveBases(data), reserve)
    IN  IF SaveTooShort(data) THEN BadObligation
        ELSE DebtIs(IF base = 0 THEN 0 ELSE NumAt(data, base + SaveAmountOffset) \div Wad)

\* readDebtSavePure and rustMirrorDebt, the replicas in TypeScript: the same walk, with null
\* for an account that is too short and for a reserve that is not there.
Null == -1
ReadDebtSavePure(data, reserve) ==
    LET base == FirstAt(data, SaveBases(data), reserve)
    IN  IF SaveTooShort(data) \/ base = 0 THEN Null
        ELSE NumAt(data, base + SaveAmountOffset) \div Wad

\* parseObligation of the SDK (external), on an account the market wrote.
Parse(data) ==
    LET nd == NumAt(data, DepositsLenOffset)
        base == DataFlatOffset + nd * DepositStride
    IN  [deposits |-> [i \in 1 .. nd |-> KeyAt(data, DataFlatOffset + (i - 1) * DepositStride)],
         borrows |-> [i \in 1 .. NumAt(data, BorrowsLenOffset) |->
                        LET b == base + (i - 1) * SaveBorrowStride
                        IN  [reserve |-> KeyAt(data, b),
                             sf |-> NumAt(data, b + SaveAmountOffset)]]]

\* readReserveDebt: the first borrow of that reserve.
ReadReserveDebt(data, reserve) ==
    LET borrows == Parse(data).borrows
        mine == {i \in DOMAIN borrows : borrows[i].reserve = reserve}
    IN  IF mine = {} THEN 0 ELSE borrows[Min(mine)].sf \div Wad

----------------------------------------------------------------------------
(* The D2.3a offset gate, save-seed-fork.ts --verify-offsets.              *)

RustMirrorAllBorrows(data) ==
    {[reserve |-> KeyAt(data, b), debt |-> ReadDebtSavePure(data, KeyAt(data, b))] :
        b \in SaveBases(data)}

SdkBorrows(data) ==
    LET borrows == Parse(data).borrows
    IN  {[reserve |-> borrows[i].reserve, debt |-> borrows[i].sf \div Wad] :
            i \in DOMAIN borrows}

\* allMatch: every borrow of the SDK is one of the mirror, off by one at most.  (The second
\* half of the gate, that a wrong offset does not match, is about the gate itself.)
OffsetsMatch(data) ==
    LET rust == RustMirrorAllBorrows(data)
        sdk == SdkBorrows(data)
    IN  /\ rust # {}
        /\ Cardinality(rust) = Cardinality(sdk)
        /\ \A s \in sdk : \E r \in rust : r.reserve = s.reserve /\ r.debt - s.debt \in -1 .. 1
==============================================================================
