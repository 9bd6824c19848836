------------------------ MODULE VaultProgram_proofs ------------------------
(***************************************************************************)
(* What VaultProgram promises, proved for every set of owners, keepers,    *)
(* accounts, obligations and reserves and every set of transactions.       *)
(***************************************************************************)
EXTENDS VaultProgram, TLAPS

\* The op of an instruction tells its fields.
LEMMA InstructionShape ==
    ASSUME NEW ix \in Instructions
    PROVE  /\ ix.op = "init_vault" => ix \in InitIx
           /\ ix.op = "fund_reserve" => ix \in FundIx
           /\ ix.op = "reclaim" => ix \in ReclaimIx
           /\ ix.op = "release_to_keeper" => ix \in ReleaseIx
           /\ ix.op = "refresh" => ix \in RefreshIx
           /\ ix.op = "repay" => ix \in RepayIx
           /\ ix.op = "borrow" => ix \in BorrowIx
<1> USE DEF InitIx, FundIx, ReclaimIx, ReleaseIx, ReleaseRepayIx, RefreshIx, RepayIx,
            BorrowIx
<1>1. ix.op = "init_vault" => ix \in InitIx
  BY DEF Instructions
<1>2. ix.op = "fund_reserve" => ix \in FundIx
  BY DEF Instructions
<1>3. ix.op = "reclaim" => ix \in ReclaimIx
  BY DEF Instructions
<1>4. ix.op = "release_to_keeper" => ix \in ReleaseIx
  BY DEF Instructions
<1>5. ix.op = "refresh" => ix \in RefreshIx
  BY DEF Instructions
<1>6. ix.op = "repay" => ix \in RepayIx
  BY DEF Instructions
<1>7. ix.op = "borrow" => ix \in BorrowIx
  BY DEF Instructions
<1>8. QED
  BY <1>1, <1>2, <1>3, <1>4, <1>5, <1>6, <1>7

\* The instruction that executes is one of the transaction, and the program counter
\* moves to the next index.
LEMMA ExecutingInstruction ==
    ASSUME TypeOK, NEW op, Executes(op)
    PROVE  /\ pc \in DOMAIN tx.ixs
           /\ tx.ixs[pc] \in Instructions
           /\ tx.ixs[pc].op = op
           /\ Succeeds(tx.ixs[pc])
           /\ pc' \in 1 .. Len(tx.ixs) + 1
BY DEF TypeOK, Executes, TxType

LEMMA AmountsNat == Amounts \subseteq Nat
BY ConstantsAssumption DEF ConstantsAssumption, Amounts

\* A repay pulls no more than it declares and no more than is owed, and one of the two
\* exactly.
LEMMA PulledBounds ==
    ASSUME NEW ix, ix.amount \in Nat, debt[ix.obligation][ix.reserve] \in Nat
    PROVE  /\ Pulled(ix) \in Nat
           /\ Pulled(ix) <= ix.amount
           /\ Pulled(ix) <= debt[ix.obligation][ix.reserve]
           /\ Pulled(ix) = ix.amount \/ Pulled(ix) = debt[ix.obligation][ix.reserve]
BY DEF Pulled, Min2

\* Before the first instruction of a transaction, and between transactions, the accounts
\* are those the last commit left and nothing has been paid.
AtStart ==
    /\ ~running => tx = NoTx /\ pc = 1
    /\ pc = 1 => /\ vault = before.vault
                 /\ reserve = before.reserve
                 /\ wallet = before.wallet
                 /\ debt = before.debt
                 /\ paid = NothingPaid

TypeInv == TypeOK /\ AtStart

\* A balance that is paid into, and one that is paid from within what it holds, stays a
\* natural number, as every token account of the program does.
LEMMA AddKeepsNat ==
    ASSUME NEW S, NEW f \in [S -> Nat], NEW s \in S, NEW n \in Nat
    PROVE  [f EXCEPT ![s] = @ + n] \in [S -> Nat]
OBVIOUS

LEMMA TakeKeepsNat ==
    ASSUME NEW S, NEW f \in [S -> Nat], NEW s \in S, NEW n \in Nat, n <= f[s]
    PROVE  [f EXCEPT ![s] = @ - n] \in [S -> Nat]
<1>1. f[s] - n \in Nat
  OBVIOUS
<1>2. QED
  BY <1>1

\* Every action keeps every variable's type.
LEMMA TypeInductive == TypeInv /\ [Next]_vars => TypeOK'
<1> SUFFICES ASSUME TypeOK, AtStart, [Next]_vars
             PROVE  TypeOK'
  BY DEF TypeInv
<1> USE ConstantsAssumption
<1>0. /\ reserve \in [Vaults -> Nat]
      /\ wallet \in [Accounts -> Nat]
      /\ debt \in [Obligations -> [Reserves -> Nat]]
      /\ paid \in [Obligations -> Nat]
  BY DEF TypeOK
<1>1. ASSUME NEW t \in Transactions, Submit(t)
      PROVE  TypeOK'
  BY <1>1 DEF Submit, TypeOK, TxType, accounts, AtStart, NoTx
<1>2. CASE InitVault
  <2> DEFINE ix == tx.ixs[pc]
  <2>1. ix \in InitIx /\ InitOk(ix) /\ pc' \in 1 .. Len(tx.ixs) + 1
    BY <1>2, ExecutingInstruction, InstructionShape DEF InitVault, Succeeds
  <2>2. vault' \in [Vaults -> VaultState]
    BY <1>2, <2>1 DEF InitVault, InitIx, TypeOK, VaultState
  <2>3. QED
    BY <1>2, <2>1, <2>2 DEF InitVault, Executes, TypeOK
<1>3. CASE FundReserve
  <2> DEFINE ix == tx.ixs[pc]
  <2>1. ix \in FundIx /\ FundOk(ix) /\ pc' \in 1 .. Len(tx.ixs) + 1
    BY <1>3, ExecutingInstruction, InstructionShape DEF FundReserve, Succeeds
  <2>2. /\ ix.vault \in Vaults
        /\ ix.from \in Accounts
        /\ ix.amount \in Nat
        /\ ix.amount <= wallet[ix.from]
    BY <2>1, AmountsNat DEF FundIx, FundOk
  <2>3. /\ wallet' = [wallet EXCEPT ![ix.from] = @ - ix.amount]
        /\ reserve' = [reserve EXCEPT ![ix.vault] = @ + ix.amount]
    BY <1>3 DEF FundReserve
  <2> HIDE DEF ix
  <2>4. wallet' \in [Accounts -> Nat] /\ reserve' \in [Vaults -> Nat]
    <3>1. wallet \in [Accounts -> Nat] /\ reserve \in [Vaults -> Nat]
      BY DEF TypeOK
    <3>2. wallet' \in [Accounts -> Nat]
      BY <2>2, <2>3, <3>1, TakeKeepsNat
    <3>3. reserve' \in [Vaults -> Nat]
      BY <2>2, <2>3, <3>1, AddKeepsNat
    <3>4. QED
      BY <3>2, <3>3
  <2>5. QED
    BY <1>3, <2>1, <2>4 DEF FundReserve, Executes, TypeOK
<1>4. CASE Reclaim
  <2> DEFINE ix == tx.ixs[pc]
  <2>1. ix \in ReclaimIx /\ ReclaimOk(ix) /\ pc' \in 1 .. Len(tx.ixs) + 1
    BY <1>4, ExecutingInstruction, InstructionShape DEF Reclaim, Succeeds
  <2>2. /\ ix.vault \in Vaults
        /\ ix.to \in Accounts
        /\ ix.amount \in Nat
        /\ ix.amount <= reserve[ix.vault]
    BY <2>1, AmountsNat DEF ReclaimIx, ReclaimOk
  <2>3. /\ wallet' = [wallet EXCEPT ![ix.to] = @ + ix.amount]
        /\ reserve' = [reserve EXCEPT ![ix.vault] = @ - ix.amount]
    BY <1>4 DEF Reclaim
  <2> HIDE DEF ix
  <2>4. wallet' \in [Accounts -> Nat] /\ reserve' \in [Vaults -> Nat]
    <3>1. wallet \in [Accounts -> Nat] /\ reserve \in [Vaults -> Nat]
      BY DEF TypeOK
    <3>2. wallet' \in [Accounts -> Nat]
      BY <2>2, <2>3, <3>1, AddKeepsNat
    <3>3. reserve' \in [Vaults -> Nat]
      BY <2>2, <2>3, <3>1, TakeKeepsNat
    <3>4. QED
      BY <3>2, <3>3
  <2>5. QED
    BY <1>4, <2>1, <2>4 DEF Reclaim, Executes, TypeOK
<1>5. CASE ReleaseToKeeper
  <2> DEFINE ix == tx.ixs[pc]
  <2>1. ix \in ReleaseIx /\ ReleaseOk(ix) /\ pc' \in 1 .. Len(tx.ixs) + 1
    BY <1>5, ExecutingInstruction, InstructionShape DEF ReleaseToKeeper, Succeeds
  <2>2. /\ ix.vault \in Vaults
        /\ ix.to \in Accounts
        /\ ix.amount \in Nat
        /\ ix.amount <= reserve[ix.vault]
    BY <2>1, AmountsNat DEF ReleaseIx, ReleaseOk
  <2>3. /\ wallet' = [wallet EXCEPT ![ix.to] = @ + ix.amount]
        /\ reserve' = [reserve EXCEPT ![ix.vault] = @ - ix.amount]
    BY <1>5 DEF ReleaseToKeeper
  <2>31. vault' = [vault EXCEPT ![ix.vault].totalRepaid = Min2(MaxU64, @ + ix.amount)]
    BY <1>5 DEF ReleaseToKeeper
  <2> HIDE DEF ix
  <2>4. wallet' \in [Accounts -> Nat] /\ reserve' \in [Vaults -> Nat]
    <3>1. wallet \in [Accounts -> Nat] /\ reserve \in [Vaults -> Nat]
      BY DEF TypeOK
    <3>2. wallet' \in [Accounts -> Nat]
      BY <2>2, <2>3, <3>1, AddKeepsNat
    <3>3. reserve' \in [Vaults -> Nat]
      BY <2>2, <2>3, <3>1, TakeKeepsNat
    <3>4. QED
      BY <3>2, <3>3
  <2>5. \A n \in Nat : Min2(MaxU64, n + ix.amount) \in Nat
    BY <2>2, ConstantsAssumption DEF ConstantsAssumption, Min2
  <2>6. vault' \in [Vaults -> VaultState]
    <3>1. vault \in [Vaults -> VaultState]
      BY DEF TypeOK
    <3>2. vault[ix.vault] \in VaultState
      BY <2>2, <3>1
    <3>3. [vault[ix.vault] EXCEPT !.totalRepaid = Min2(MaxU64, @ + ix.amount)] \in VaultState
      BY <3>2, <2>5 DEF VaultState
    <3>4. QED
      BY <2>2, <2>31, <3>1, <3>3
  <2>7. QED
    BY <1>5, <2>1, <2>4, <2>6 DEF ReleaseToKeeper, Executes, TypeOK
<1>6. CASE Refresh
  <2> DEFINE ix == tx.ixs[pc]
  <2>1. ix \in RefreshIx /\ pc' \in 1 .. Len(tx.ixs) + 1
    BY <1>6, ExecutingInstruction, InstructionShape DEF Refresh
  <2>2. ix.obligation \in Obligations
    BY <2>1 DEF RefreshIx
  <2>3. PICK interest \in [Reserves -> 0 .. MaxInterest] :
            debt' = [debt EXCEPT ![ix.obligation] =
                        [r \in Reserves |->
                            IF debt[ix.obligation][r] > 0
                            THEN debt[ix.obligation][r] + interest[r] ELSE 0]]
    BY <1>6 DEF Refresh
  <2>4. fresh' \subseteq Obligations
    BY <1>6, <2>2 DEF Refresh, TypeOK
  <2> HIDE DEF ix
  <2>5. debt' \in [Obligations -> [Reserves -> Nat]]
    <3> DEFINE row == [r \in Reserves |->
                          IF debt[ix.obligation][r] > 0
                          THEN debt[ix.obligation][r] + interest[r] ELSE 0]
    <3>1. \A r \in Reserves : interest[r] \in Nat /\ debt[ix.obligation][r] \in Nat
      BY <1>0, <2>2, <2>3 DEF ConstantsAssumption
    <3>2. row \in [Reserves -> Nat]
      BY <3>1
    <3>3. debt' = [debt EXCEPT ![ix.obligation] = row]
      BY <2>3
    <3> HIDE DEF row
    <3>4. QED
      BY <1>0, <3>2, <3>3
  <2>6. QED
    BY <1>6, <2>1, <2>4, <2>5 DEF Refresh, Executes, TypeOK
<1>7. CASE Repay
  <2> DEFINE ix == tx.ixs[pc]
  <2>1. ix \in RepayIx /\ RepayOk(ix) /\ pc' \in 1 .. Len(tx.ixs) + 1
    BY <1>7, ExecutingInstruction, InstructionShape DEF Repay, Succeeds
  <2>2. /\ ix.obligation \in Obligations
        /\ ix.reserve \in Reserves
        /\ ix.from \in Accounts
        /\ ix.amount \in Nat
        /\ Pulled(ix) <= wallet[ix.from]
    BY <2>1, AmountsNat DEF RepayIx, RepayOk
  <2>3. /\ debt' = [debt EXCEPT ![ix.obligation][ix.reserve] = @ - Pulled(ix)]
        /\ wallet' = [wallet EXCEPT ![ix.from] = @ - Pulled(ix)]
        /\ paid' = [paid EXCEPT ![ix.obligation] = @ + Pulled(ix)]
    BY <1>7 DEF Repay
  <2> HIDE DEF ix
  <2>4. Pulled(ix) \in Nat /\ Pulled(ix) <= debt[ix.obligation][ix.reserve]
    BY <2>2, PulledBounds DEF TypeOK
  <2>5. debt' \in [Obligations -> [Reserves -> Nat]]
    <3> DEFINE row == [debt[ix.obligation] EXCEPT ![ix.reserve] = @ - Pulled(ix)]
    <3>0. debt' = [debt EXCEPT ![ix.obligation] = row]
      BY <2>3
    <3>1. debt[ix.obligation] \in [Reserves -> Nat]
      BY <2>2 DEF TypeOK
    <3>2. debt[ix.obligation][ix.reserve] - Pulled(ix) \in Nat
      BY <2>2, <2>4, <3>1
    <3>3. row \in [Reserves -> Nat]
      BY <2>2, <3>1, <3>2
    <3> HIDE DEF row
    <3>4. QED
      BY <1>0, <2>2, <3>0, <3>3
  <2>6. wallet' \in [Accounts -> Nat] /\ paid' \in [Obligations -> Nat]
    <3>1. wallet[ix.from] - Pulled(ix) \in Nat /\ paid[ix.obligation] + Pulled(ix) \in Nat
      BY <1>0, <2>2, <2>4
    <3>2. QED
      BY <2>2, <2>3, <3>1 DEF TypeOK
  <2>7. QED
    BY <1>7, <2>1, <2>5, <2>6 DEF Repay, Executes, TypeOK
<1>8. CASE Borrow
  <2> DEFINE ix == tx.ixs[pc]
  <2>1. ix \in BorrowIx /\ pc' \in 1 .. Len(tx.ixs) + 1
    BY <1>8, ExecutingInstruction, InstructionShape DEF Borrow
  <2>2. /\ ix.obligation \in Obligations
        /\ ix.reserve \in Reserves
        /\ ix.to \in Accounts
        /\ ix.amount \in Nat
    BY <2>1, AmountsNat, ConstantsAssumption DEF BorrowIx, ConstantsAssumption
  <2>3. /\ debt' = [debt EXCEPT ![ix.obligation][ix.reserve] = @ + ix.amount]
        /\ wallet' = [wallet EXCEPT ![ix.to] = @ + ix.amount]
    BY <1>8 DEF Borrow
  <2> HIDE DEF ix
  <2>4. debt' \in [Obligations -> [Reserves -> Nat]] /\ wallet' \in [Accounts -> Nat]
    <3> DEFINE row == [debt[ix.obligation] EXCEPT ![ix.reserve] = @ + ix.amount]
    <3>0. debt' = [debt EXCEPT ![ix.obligation] = row]
      BY <2>3
    <3>1. debt[ix.obligation] \in [Reserves -> Nat]
      BY <2>2 DEF TypeOK
    <3>2. row \in [Reserves -> Nat]
      BY <2>2, <3>1
    <3> HIDE DEF row
    <3>3. wallet[ix.to] + ix.amount \in Nat
      BY <2>2 DEF TypeOK
    <3>4. QED
      BY <1>0, <2>2, <2>3, <3>0, <3>2, <3>3
  <2>5. QED
    BY <1>8, <2>1, <2>4 DEF Borrow, Executes, TypeOK
<1>9. NoTx \in TxType /\ NothingPaid \in [Obligations -> Nat] /\ 1 \in 1 .. Len(NoTx.ixs) + 1
  BY DEF NoTx, TxType, NothingPaid
<1>10. CASE Abort
  BY <1>9, <1>10 DEF Abort, Finish, TypeOK
<1>101. CASE Commit
  <2>1. everPaid' \in [Obligations -> Nat]
    BY <1>101 DEF Commit, TypeOK
  <2>2. before' \in [vault : [Vaults -> VaultState], reserve : [Vaults -> Nat],
                     wallet : [Accounts -> Nat], debt : [Obligations -> [Reserves -> Nat]]]
    BY <1>101 DEF Commit, TypeOK
  <2>3. QED
    BY <1>9, <1>101, <2>1, <2>2 DEF Commit, Finish, TypeOK, accounts
<1>11. CASE UNCHANGED vars
  BY <1>11 DEF vars, TypeOK
<1>12. QED
  BY <1>1, <1>2, <1>3, <1>4, <1>5, <1>6, <1>7, <1>8, <1>10, <1>101, <1>11 DEF Next

LEMMA TypeInitial == Init => TypeOK
<1> SUFFICES ASSUME Init
             PROVE  TypeOK
  OBVIOUS
<1> USE ConstantsAssumption
<1>1. vault \in [Vaults -> VaultState]
  BY DEF Init, VaultState, MarketIds, Kamino, Amounts
<1>2. NoTx \in TxType /\ NothingPaid \in [Obligations -> Nat] /\ 1 \in 1 .. Len(NoTx.ixs) + 1
  BY DEF NoTx, TxType, NothingPaid
<1>3. reserve \in [Vaults -> Nat] /\ everPaid \in [Obligations -> Nat]
  BY DEF Init
<1>4. /\ wallet \in [Accounts -> Nat]
      /\ debt \in [Obligations -> [Reserves -> Nat]]
      /\ submits \in 0 .. MaxSubmits
  BY ConstantsAssumption DEF ConstantsAssumption, Init
<1>5. QED
  BY <1>1, <1>2, <1>3, <1>4 DEF Init, TypeOK

\* Every action keeps AtStart: only an aborted or a committed transaction stops, and it
\* leaves nothing behind.
LEMMA StartInductive == TypeInv /\ [Next]_vars => AtStart'
<1> SUFFICES ASSUME TypeOK, AtStart, [Next]_vars
             PROVE  AtStart'
  BY DEF TypeInv
<1>1. ASSUME NEW t \in Transactions, Submit(t)
      PROVE  AtStart'
  BY <1>1 DEF Submit, AtStart, accounts
<1>2. ASSUME NEW op, Executes(op)
      PROVE  AtStart'
  BY <1>2 DEF Executes, AtStart, TypeOK
<1>3. CASE Abort
  BY <1>3 DEF Abort, Finish, AtStart
<1>4. CASE Commit
  BY <1>4 DEF Commit, Finish, AtStart, accounts
<1>5. CASE UNCHANGED vars
  BY <1>5 DEF vars, AtStart
<1>6. QED
  BY <1>1, <1>2, <1>3, <1>4, <1>5
     DEF Next, InitVault, FundReserve, Reclaim, ReleaseToKeeper, Refresh, Repay, Borrow

LEMMA StartInitial == Init => AtStart
BY DEF Init, AtStart

LEMMA TypeInvariant == Spec => []TypeInv
<1>1. Init => TypeInv
  BY TypeInitial, StartInitial DEF TypeInv
<1>2. TypeInv /\ [Next]_vars => TypeInv'
  BY TypeInductive, StartInductive DEF TypeInv
<1>3. QED
  BY <1>1, <1>2, PTL DEF Spec

\* Type correctness: no balance and no debt of the model ever goes negative.
THEOREM TypeCorrect == Spec => []TypeOK
<1>1. TypeInv => TypeOK
  BY DEF TypeInv
<1>2. QED
  BY TypeInvariant, <1>1, PTL

----------------------------------------------------------------------------
(* Custody.  Between a release and its bound repay the keeper holds money  *)
(* of the reserve, so the promise does not hold instruction by instruction *)
(* and is not inductive.  What is: every release executed so far, at the   *)
(* top level or called, is still covered, by what has been paid off the    *)
(* obligation plus what the bound repay can still pull; and where none is  *)
(* called there is only one.                                               *)

\* Instruction i is a release this transaction has executed.
Released(i) == i \in DOMAIN tx.ixs /\ i < pc /\ IsSelfRelease(tx.ixs[i])

Covered(i) ==
    LET ix == tx.ixs[i]
        o == ix.vault.obligation
    IN  /\ OnlyRelease
        /\ Exists(ix.vault)
        /\ ix.amount <= vault[ix.vault].cap
        /\ \E j \in DOMAIN tx.ixs :
            /\ i < j
            /\ tx.ixs[j].op = "repay"
            /\ tx.ixs[j].obligation = o
            /\ tx.ixs[j].amount = ix.amount
            /\ pc <= j => ix.amount <= paid[o] + debt[o][tx.ixs[j].reserve]
            /\ j < pc => ix.amount <= paid[o]

ReleasesCovered == \A i \in DOMAIN tx.ixs : Released(i) => Covered(i)

\* Without the owner's signature a reserve is down only if a release of it was executed,
\* and where none is called by no more than that one.
ReservesAccounted ==
    \A v \in Vaults : ~Signed(v.owner) =>
        \/ before.reserve[v] <= reserve[v]
        \/ \E i \in DOMAIN tx.ixs :
            /\ Released(i)
            /\ tx.ixs[i].vault = v
            /\ tx.ixs[i].amount > 0
            /\ Direct => before.reserve[v] <= reserve[v] + tx.ixs[i].amount

\* Where no release is called, total_repaid is ahead of the last commit by no more than the
\* executed release.
TotalsAccounted ==
    Direct => \A v \in Vaults :
        \/ vault[v].totalRepaid <= before.vault[v].totalRepaid
        \/ \E i \in DOMAIN tx.ixs :
            /\ Released(i)
            /\ tx.ixs[i].vault = v
            /\ vault[v].totalRepaid <= before.vault[v].totalRepaid + tx.ixs[i].amount

CustodyInv == ReleasesCovered /\ ReservesAccounted /\ TotalsAccounted

\* The execution of one instruction.
Step == InitVault \/ FundReserve \/ Reclaim \/ ReleaseToKeeper \/ Refresh \/ Repay \/ Borrow

LEMMA StepFrame ==
    ASSUME TypeOK, Step
    PROVE  /\ running
           /\ pc \in DOMAIN tx.ixs
           /\ pc \in Nat
           /\ pc' = pc + 1
           /\ tx' = tx
           /\ before' = before
           /\ everPaid' = everPaid
           /\ Succeeds(tx.ixs[pc])
           /\ tx.ixs[pc] \in Instructions
<1>1. PICK op : Executes(op)
  BY DEF Step, InitVault, FundReserve, Reclaim, ReleaseToKeeper, Refresh, Repay, Borrow
<1>2. pc \in Nat
  BY DEF TypeOK
<1>3. QED
  BY <1>1, <1>2, ExecutingInstruction DEF Executes

\* No step undoes a payment, and what a debt loses is paid.
LEMMA DebtStep ==
    ASSUME TypeOK, Step, NEW o \in Obligations, NEW r \in Reserves
    PROVE  /\ paid[o] <= paid'[o]
           /\ paid[o] + debt[o][r] <= paid'[o] + debt'[o][r]
<1>0. paid[o] \in Nat /\ debt[o][r] \in Nat
  BY DEF TypeOK
<1>1. CASE UNCHANGED <<debt, paid>>
  BY <1>0, <1>1
<1>2. CASE Refresh
  <2>1. tx.ixs[pc].obligation \in Obligations
    BY <1>2, ExecutingInstruction, InstructionShape DEF Refresh, RefreshIx
  <2> DEFINE at == tx.ixs[pc].obligation
             row(interest) == [x \in Reserves |-> IF debt[at][x] > 0
                                                 THEN debt[at][x] + interest[x] ELSE 0]
  <2>2. PICK interest \in [Reserves -> 0 .. MaxInterest] :
            debt' = [debt EXCEPT ![at] = row(interest)]
    BY <1>2 DEF Refresh
  <2>3. interest[r] \in Nat
    BY ConstantsAssumption DEF ConstantsAssumption
  <2>4. row(interest)[r] = IF debt[at][r] > 0 THEN debt[at][r] + interest[r] ELSE 0
    OBVIOUS
  <2>5. debt \in [Obligations -> [Reserves -> Nat]] /\ paid' = paid
    BY <1>2 DEF Refresh, TypeOK
  <2> HIDE DEF at, row
  <2>6. debt'[o][r] = IF o = at THEN row(interest)[r] ELSE debt[o][r]
    BY <2>2, <2>5
  <2>7. debt[o][r] <= debt'[o][r]
    BY <1>0, <2>3, <2>4, <2>6
  <2>8. debt'[o][r] \in Nat
    BY <1>0, <2>3, <2>4, <2>6
  <2>9. QED
    BY <1>0, <2>5, <2>7, <2>8
<1>3. CASE Repay
  <2> DEFINE ix == tx.ixs[pc]
  <2>1. ix \in RepayIx
    BY <1>3, ExecutingInstruction, InstructionShape DEF Repay
  <2>2. ix.obligation \in Obligations /\ ix.reserve \in Reserves /\ ix.amount \in Nat
    BY <2>1, AmountsNat DEF RepayIx
  <2>3. /\ debt' = [debt EXCEPT ![ix.obligation][ix.reserve] = @ - Pulled(ix)]
        /\ paid' = [paid EXCEPT ![ix.obligation] = @ + Pulled(ix)]
    BY <1>3 DEF Repay
  <2> HIDE DEF ix
  <2>4. /\ paid \in [Obligations -> Nat]
        /\ debt \in [Obligations -> [Reserves -> Nat]]
    BY DEF TypeOK
  <2>5. Pulled(ix) \in Nat /\ Pulled(ix) <= debt[ix.obligation][ix.reserve]
    <3>1. debt[ix.obligation][ix.reserve] \in Nat
      BY <2>2, <2>4
    <3>2. QED
      BY <2>2, <3>1, PulledBounds
  <2>6. CASE o = ix.obligation
    <3>1. paid'[o] = paid[o] + Pulled(ix)
      BY <2>2, <2>3, <2>4, <2>6
    <3>2. debt'[o][r] = debt[o][r] \/ debt'[o][r] = debt[o][r] - Pulled(ix)
      BY <2>2, <2>3, <2>4, <2>6
    <3>3. QED
      BY <1>0, <2>5, <3>1, <3>2
  <2>7. CASE o # ix.obligation
    BY <1>0, <2>3, <2>4, <2>7
  <2>8. QED
    BY <2>6, <2>7
<1>4. CASE Borrow
  <2> DEFINE ix == tx.ixs[pc]
  <2>1. ix \in BorrowIx
    BY <1>4, ExecutingInstruction, InstructionShape DEF Borrow
  <2>2. ix.obligation \in Obligations /\ ix.reserve \in Reserves /\ ix.amount \in Nat
    BY <2>1, AmountsNat, ConstantsAssumption DEF BorrowIx, ConstantsAssumption
  <2>3. /\ debt' = [debt EXCEPT ![ix.obligation][ix.reserve] = @ + ix.amount]
        /\ paid' = paid
    BY <1>4 DEF Borrow
  <2> HIDE DEF ix
  <2>4. debt \in [Obligations -> [Reserves -> Nat]]
    BY DEF TypeOK
  <2>5. debt'[o][r] = debt[o][r] \/ debt'[o][r] = debt[o][r] + ix.amount
    BY <2>2, <2>3, <2>4
  <2>6. QED
    BY <1>0, <2>2, <2>3, <2>5
<1>5. QED
  BY <1>1, <1>2, <1>3, <1>4 DEF Step, InitVault, FundReserve, Reclaim, ReleaseToKeeper

\* A repay pays what it declares, or everything that was owed.
LEMMA RepayPays ==
    ASSUME TypeOK, Repay
    PROVE  LET ix == tx.ixs[pc]
               o == ix.obligation
           IN  /\ o \in Obligations
               /\ ix.amount \in Nat
               /\ \/ ix.amount <= paid'[o]
                  \/ paid'[o] = paid[o] + debt[o][ix.reserve]
<1> DEFINE ix == tx.ixs[pc]
<1>1. ix \in RepayIx
  BY ExecutingInstruction, InstructionShape DEF Repay
<1>2. ix.obligation \in Obligations /\ ix.reserve \in Reserves /\ ix.amount \in Nat
  BY <1>1, AmountsNat DEF RepayIx
<1>3. paid' = [paid EXCEPT ![ix.obligation] = @ + Pulled(ix)]
  BY DEF Repay
<1> HIDE DEF ix
<1>4. /\ Pulled(ix) \in Nat
      /\ Pulled(ix) = ix.amount \/ Pulled(ix) = debt[ix.obligation][ix.reserve]
  BY <1>2, PulledBounds DEF TypeOK
<1>5. paid \in [Obligations -> Nat]
  BY DEF TypeOK
<1>6. paid'[ix.obligation] = paid[ix.obligation] + Pulled(ix) /\ paid[ix.obligation] \in Nat
  BY <1>2, <1>3, <1>5
<1>7. QED
  BY <1>2, <1>4, <1>6 DEF ix

\* A vault that exists keeps its keeper and its cap.
LEMMA VaultStep ==
    ASSUME TypeOK, Step, NEW v \in Vaults, Exists(v)
    PROVE  Exists(v)' /\ vault'[v].cap = vault[v].cap
<1>0. vault \in [Vaults -> VaultState]
  BY DEF TypeOK
<1>1. CASE UNCHANGED vault
  BY <1>1 DEF Exists
<1>2. CASE InitVault
  <2>1. InitOk(tx.ixs[pc]) /\ tx.ixs[pc] \in InitIx
    BY <1>2, ExecutingInstruction, InstructionShape DEF InitVault, Succeeds
  <2>2. tx.ixs[pc].vault # v
    BY <2>1 DEF InitOk
  <2>3. vault'[v] = vault[v]
    BY <1>0, <1>2, <2>2 DEF InitVault
  <2>4. QED
    BY <2>3 DEF Exists
<1>3. CASE ReleaseToKeeper
  <2>1. tx.ixs[pc] \in ReleaseIx
    BY <1>3, ExecutingInstruction, InstructionShape DEF ReleaseToKeeper
  <2>2. /\ vault'[v].cap = vault[v].cap
        /\ vault'[v].keeper = vault[v].keeper
    BY <1>0, <1>3, <2>1 DEF ReleaseToKeeper, ReleaseIx, VaultState
  <2>3. QED
    BY <2>2 DEF Exists
<1>4. QED
  BY <1>1, <1>2, <1>3 DEF Step, FundReserve, Reclaim, Refresh, Repay, Borrow

\* Only a release takes from a reserve whose owner did not sign.
LEMMA ReserveStep ==
    ASSUME TypeOK, Step, NEW v \in Vaults, ~Signed(v.owner)
    PROVE  LET ix == tx.ixs[pc]
           IN  \/ reserve[v] <= reserve'[v]
               \/ /\ IsSelfRelease(ix)
                  /\ ix.vault = v
                  /\ reserve'[v] = reserve[v] - ix.amount
<1>0. reserve \in [Vaults -> Nat]
  BY DEF TypeOK
<1>1. CASE UNCHANGED reserve
  BY <1>0, <1>1
<1>2. CASE FundReserve
  <2>1. tx.ixs[pc] \in FundIx
    BY <1>2, ExecutingInstruction, InstructionShape DEF FundReserve
  <2>2. tx.ixs[pc].amount \in Nat
    BY <2>1, AmountsNat DEF FundIx
  <2>3. QED
    BY <1>0, <1>2, <2>2 DEF FundReserve
<1>3. CASE Reclaim
  <2>1. ReclaimOk(tx.ixs[pc])
    BY <1>3, ExecutingInstruction DEF Reclaim, Succeeds
  <2>2. tx.ixs[pc].vault # v
    BY <2>1 DEF ReclaimOk
  <2>3. QED
    BY <1>0, <1>3, <2>2 DEF Reclaim
<1>4. CASE ReleaseToKeeper
  <2>1. IsSelfRelease(tx.ixs[pc])
    BY <1>4, ExecutingInstruction DEF ReleaseToKeeper, IsSelfRelease
  <2>2. reserve'[v] = IF tx.ixs[pc].vault = v THEN reserve[v] - tx.ixs[pc].amount
                                              ELSE reserve[v]
    BY <1>0, <1>4 DEF ReleaseToKeeper
  <2>3. QED
    BY <1>0, <2>1, <2>2
<1>5. QED
  BY <1>1, <1>2, <1>3, <1>4 DEF Step, InitVault, Refresh, Repay, Borrow

\* Only a release raises total_repaid, by no more than its amount.
LEMMA TotalStep ==
    ASSUME TypeOK, Step, NEW v \in Vaults
    PROVE  LET ix == tx.ixs[pc]
           IN  \/ vault'[v].totalRepaid <= vault[v].totalRepaid
               \/ /\ IsSelfRelease(ix)
                  /\ ix.vault = v
                  /\ vault'[v].totalRepaid <= vault[v].totalRepaid + ix.amount
<1>0. vault \in [Vaults -> VaultState] /\ vault[v].totalRepaid \in Nat
  BY DEF TypeOK, VaultState
<1>1. CASE UNCHANGED vault
  BY <1>0, <1>1
<1>2. CASE InitVault
  <2>1. vault'[v].totalRepaid = 0 \/ vault'[v].totalRepaid = vault[v].totalRepaid
    BY <1>0, <1>2 DEF InitVault
  <2>2. QED
    BY <1>0, <2>1
<1>3. CASE ReleaseToKeeper
  <2> DEFINE ix == tx.ixs[pc]
  <2>1. ix \in ReleaseIx /\ IsSelfRelease(ix)
    BY <1>3, ExecutingInstruction, InstructionShape DEF ReleaseToKeeper, IsSelfRelease
  <2>2. ix.amount \in Nat
    BY <2>1, AmountsNat DEF ReleaseIx
  <2>3. vault' = [vault EXCEPT ![ix.vault].totalRepaid = Min2(MaxU64, @ + ix.amount)]
    BY <1>3 DEF ReleaseToKeeper
  <2>4. CASE ix.vault = v
    <3>1. vault'[v].totalRepaid = Min2(MaxU64, vault[v].totalRepaid + ix.amount)
      BY <1>0, <2>3, <2>4 DEF VaultState
    <3>2. QED
      BY <1>0, <2>1, <2>2, <2>4, <3>1, ConstantsAssumption DEF ConstantsAssumption, Min2
  <2>5. CASE ix.vault # v
    BY <1>0, <2>3, <2>5
  <2>6. QED
    BY <2>4, <2>5
<1>4. QED
  BY <1>1, <1>2, <1>3 DEF Step, FundReserve, Reclaim, Refresh, Repay, Borrow

\* An execution step keeps the types (TypeInductive, for a step).
LEMMA StepTypes == ASSUME TypeInv, Step PROVE TypeOK'
BY TypeInductive DEF Step, Next

\* Every release executed before a step is covered after it.
LEMMA CoverageKept ==
    ASSUME TypeInv, Step, NEW i \in DOMAIN tx.ixs, IsSelfRelease(tx.ixs[i]), Covered(i)
    PROVE  Covered(i)'
<1> DEFINE ix == tx.ixs[i]
           o == ix.vault.obligation
<1>0. TypeOK
  BY DEF TypeInv
<1>1. /\ pc \in Nat
      /\ pc' = pc + 1
      /\ tx' = tx
      /\ tx.ixs[pc] \in Instructions
      /\ pc \in DOMAIN tx.ixs
  BY <1>0, StepFrame
<1>2. tx.ixs \in Seq(Instructions) /\ ix \in ReleaseIx
  BY <1>0, InstructionShape DEF IsSelfRelease, TypeOK, TxType
<1>3. ix.vault \in Vaults /\ o \in Obligations /\ ix.amount \in Nat
  BY <1>2, AmountsNat DEF ReleaseIx, Vaults
<1>4. Exists(ix.vault)' /\ vault'[ix.vault].cap = vault[ix.vault].cap
  <2>1. Exists(ix.vault)
    BY DEF Covered
  <2>2. PICK v \in Vaults : v = ix.vault
    BY <1>3
  <2>3. Exists(v)' /\ vault'[v].cap = vault[v].cap
    BY <1>0, <2>1, <2>2, VaultStep
  <2>4. QED
    BY <1>1, <2>2, <2>3 DEF Exists
<1>5. PICK j \in DOMAIN tx.ixs :
        /\ i < j
        /\ tx.ixs[j].op = "repay"
        /\ tx.ixs[j].obligation = o
        /\ tx.ixs[j].amount = ix.amount
        /\ pc <= j => ix.amount <= paid[o] + debt[o][tx.ixs[j].reserve]
        /\ j < pc => ix.amount <= paid[o]
  BY DEF Covered
<1>6. tx.ixs[j] \in RepayIx /\ j \in Nat
  BY <1>2, <1>5, InstructionShape
<1>7. tx.ixs[j].reserve \in Reserves
  BY <1>6 DEF RepayIx
<1>8. /\ paid[o] <= paid'[o]
      /\ paid[o] + debt[o][tx.ixs[j].reserve] <= paid'[o] + debt'[o][tx.ixs[j].reserve]
  BY <1>0, <1>3, <1>7, DebtStep
<1>9. /\ paid[o] \in Nat /\ debt[o][tx.ixs[j].reserve] \in Nat
      /\ paid'[o] \in Nat /\ debt'[o][tx.ixs[j].reserve] \in Nat
  <2>1. /\ paid \in [Obligations -> Nat]
        /\ debt \in [Obligations -> [Reserves -> Nat]]
    BY <1>0 DEF TypeOK
  <2>2. /\ paid' \in [Obligations -> Nat]
        /\ debt' \in [Obligations -> [Reserves -> Nat]]
    BY StepTypes DEF TypeOK
  <2>3. paid[o] \in Nat /\ paid'[o] \in Nat
    BY <1>3, <2>1, <2>2
  <2>4. debt[o] \in [Reserves -> Nat] /\ debt'[o] \in [Reserves -> Nat]
    BY <1>3, <2>1, <2>2
  <2>5. debt[o][tx.ixs[j].reserve] \in Nat /\ debt'[o][tx.ixs[j].reserve] \in Nat
    BY <1>7, <2>4
  <2>6. QED
    BY <2>3, <2>5
<1>10. pc' <= j => ix.amount <= paid'[o] + debt'[o][tx.ixs[j].reserve]
  <2> DEFINE a  == ix.amount
             p0 == paid[o]
             d0 == debt[o][tx.ixs[j].reserve]
             p1 == paid'[o]
             d1 == debt'[o][tx.ixs[j].reserve]
  <2>1. a \in Nat /\ p0 \in Nat /\ d0 \in Nat /\ p1 \in Nat /\ d1 \in Nat
    BY <1>3, <1>9, Zenon
  <2>2. p0 + d0 <= p1 + d1 /\ (pc <= j => a <= p0 + d0)
    BY <1>5, <1>8, Zenon
  <2>3. pc' <= j => pc <= j
    BY <1>1, <1>6
  <2> HIDE DEF a, p0, d0, p1, d1
  <2>4. pc' <= j => a <= p1 + d1
    BY <2>1, <2>2, <2>3
  <2>5. QED
    BY <2>4, Zenon DEF a, p1, d1
<1>11. j < pc' => ix.amount <= paid'[o]
  <2>1. CASE j < pc
    <3> DEFINE a == ix.amount
               p == paid[o]
               q == paid'[o]
    <3>1. a \in Nat /\ p \in Nat /\ q \in Nat
      BY <1>3, <1>9, Zenon
    <3>2. p <= q /\ a <= p
      BY <1>5, <1>8, <2>1, Zenon
    <3> HIDE DEF a, p, q
    <3>3. a <= q
      BY <3>1, <3>2
    <3>4. QED
      BY <3>3, Zenon DEF a, q
  <2>2. CASE j = pc
    <3>1. Repay
      BY <1>5, <2>2 DEF Step, Executes, InitVault, FundReserve, Reclaim, ReleaseToKeeper,
                        Refresh, Repay, Borrow
    <3>2. \/ ix.amount <= paid'[o]
          \/ paid'[o] = paid[o] + debt[o][tx.ixs[j].reserve]
      BY <1>0, <1>5, <2>2, <3>1, RepayPays
    <3>3. ix.amount <= paid[o] + debt[o][tx.ixs[j].reserve]
      BY <1>1, <1>5, <2>2
    <3>4. QED
      BY <3>2, <3>3
  <2>3. QED
    BY <1>1, <1>6, <2>1, <2>2
<1>12. OnlyRelease'
  BY <1>1 DEF Covered, OnlyRelease, SeenReleases, TopLevel, IsSelfRelease
<1>13. QED
  BY <1>1, <1>4, <1>5, <1>10, <1>11, <1>12 DEF Covered

\* A release that executes is covered: the debt it was checked against is still there.
LEMMA CoverageStarts ==
    ASSUME TypeOK, Step, IsSelfRelease(tx.ixs[pc])
    PROVE  Covered(pc) /\ OnlyRelease
<1> DEFINE ix == tx.ixs[pc]
           o == ix.vault.obligation
<1>1. /\ pc \in DOMAIN tx.ixs
      /\ pc \in Nat
      /\ ix \in Instructions
      /\ Succeeds(ix)
  BY StepFrame
<1>2. ix \in ReleaseIx /\ ReleaseOk(ix)
  BY <1>1, InstructionShape DEF IsSelfRelease, Succeeds
<1>3. o \in Obligations /\ ix.amount \in Nat
  BY <1>2, AmountsNat DEF ReleaseIx, Vaults
<1>4. PICK j \in DOMAIN tx.ixs :
        FirstBoundRepay(pc, j) /\ WithinStoredDebt(ix.vault, tx.ixs[j].reserve, ix.amount)
  BY <1>2 DEF ReleaseOk, EnforceBoundRepay
<1>5. /\ j > pc
      /\ IsBoundRepay(tx.ixs[j], ix.vault, ix.to, ix.amount)
  BY <1>4 DEF FirstBoundRepay
<1>6. /\ tx.ixs[j].op = "repay"
      /\ tx.ixs[j].obligation = o
      /\ tx.ixs[j].amount = ix.amount
  BY <1>5 DEF IsBoundRepay
<1>7. tx.ixs \in Seq(Instructions)
  BY DEF TypeOK, TxType
<1>8. tx.ixs[j] \in RepayIx /\ j \in Nat
  BY <1>6, <1>7, InstructionShape
<1>9. tx.ixs[j].reserve \in Reserves
  BY <1>8 DEF RepayIx
<1>10. paid[o] \in Nat /\ debt[o][tx.ixs[j].reserve] \in Nat
  <2>1. paid \in [Obligations -> Nat] /\ debt \in [Obligations -> [Reserves -> Nat]]
    BY DEF TypeOK
  <2>2. paid[o] \in Nat /\ debt[o] \in [Reserves -> Nat]
    BY <1>3, <2>1
  <2>3. QED
    BY <1>9, <2>2
<1>11. ix.amount <= debt[o][tx.ixs[j].reserve]
  BY <1>4 DEF WithinStoredDebt
<1>12. ix.amount <= paid[o] + debt[o][tx.ixs[j].reserve] /\ pc < j /\ ~(j < pc)
  <2> DEFINE a == ix.amount
             p == paid[o]
             d == debt[o][tx.ixs[j].reserve]
  <2>1. pc < j /\ ~(j < pc)
    BY <1>1, <1>5, <1>8
  <2>2. a \in Nat /\ p \in Nat /\ d \in Nat /\ a <= d
    BY <1>3, <1>10, <1>11, Zenon
  <2> HIDE DEF a, p, d
  <2>3. a <= p + d
    BY <2>2
  <2>4. QED
    BY <2>1, <2>3 DEF a, p, d
<1>13. OnlyRelease /\ Exists(ix.vault) /\ ix.amount <= vault[ix.vault].cap
  BY <1>2 DEF ReleaseOk, EnforceBoundRepay
<1>14. QED
  BY <1>1, <1>6, <1>12, <1>13 DEF Covered

LEMMA ReleaseFields ==
    ASSUME TypeOK, NEW i \in DOMAIN tx.ixs, IsSelfRelease(tx.ixs[i])
    PROVE  tx.ixs[i].amount \in Nat /\ tx.ixs[i].vault \in Vaults
<1>1. tx.ixs[i] \in Instructions
  BY DEF TypeOK, TxType
<1>2. tx.ixs[i] \in ReleaseIx
  BY <1>1, InstructionShape DEF IsSelfRelease
<1>3. QED
  BY <1>2, AmountsNat DEF ReleaseIx

\* Instructions executed after a step: those executed before it, and the one it executes.
LEMMA ReleasedAfter ==
    ASSUME TypeOK, Step, NEW i
    PROVE  Released(i)' <=> Released(i) \/ (i = pc /\ IsSelfRelease(tx.ixs[pc]))
<1>1. /\ pc \in DOMAIN tx.ixs
      /\ pc \in Nat
      /\ pc' = pc + 1
      /\ tx' = tx
      /\ tx.ixs \in Seq(Instructions)
  BY StepFrame DEF TypeOK, TxType
<1>2. QED
  BY <1>1 DEF Released, IsSelfRelease

LEMMA StepKeepsCoverage ==
    ASSUME TypeInv, ReleasesCovered, Step
    PROVE  ReleasesCovered'
<1>1. TypeOK /\ tx' = tx /\ pc \in DOMAIN tx.ixs
  BY StepFrame DEF TypeInv
<1>2. SUFFICES ASSUME NEW i \in DOMAIN tx.ixs, Released(i)'
               PROVE  Covered(i)'
  BY <1>1 DEF ReleasesCovered
<1>3. Covered(i) /\ IsSelfRelease(tx.ixs[i])
  <2>1. CASE Released(i)
    BY <2>1 DEF ReleasesCovered, Released
  <2>2. CASE i = pc /\ IsSelfRelease(tx.ixs[pc])
    BY <1>1, <2>2, CoverageStarts
  <2>3. QED
    BY <1>1, <1>2, <2>1, <2>2, ReleasedAfter
<1>4. QED
  BY <1>3, CoverageKept

\* Where no release is called there is only one, so it is the first of its transaction.
LEMMA OneRelease ==
    ASSUME Direct, OnlyRelease,
           NEW i \in DOMAIN tx.ixs, IsSelfRelease(tx.ixs[i]),
           NEW j \in DOMAIN tx.ixs, IsSelfRelease(tx.ixs[j])
    PROVE  i = j
<1>1. i \in SeenReleases /\ j \in SeenReleases
  BY DEF Direct, SeenReleases
<1>2. PICK k \in SeenReleases : SeenReleases = {k}
  BY DEF OnlyRelease
<1>3. QED
  BY <1>1, <1>2

LEMMA NoEarlierRelease ==
    ASSUME TypeOK, Step, Direct, IsSelfRelease(tx.ixs[pc]), NEW i \in DOMAIN tx.ixs
    PROVE  ~Released(i)
<1>1. OnlyRelease /\ pc \in Nat /\ pc \in DOMAIN tx.ixs
  BY CoverageStarts, StepFrame
<1>2. IsSelfRelease(tx.ixs[i]) => i = pc
  BY <1>1, OneRelease
<1>3. QED
  BY <1>1, <1>2 DEF Released

LEMMA DirectKept == ASSUME TypeOK, Step PROVE Direct' <=> Direct
BY StepFrame DEF Direct, TopLevel, IsSelfRelease

LEMMA StepKeepsReserves ==
    ASSUME TypeInv, ReservesAccounted, Step
    PROVE  ReservesAccounted'
<1>1. /\ TypeOK
      /\ tx' = tx
      /\ before' = before
      /\ pc \in DOMAIN tx.ixs
      /\ Direct' <=> Direct
  BY StepFrame, DirectKept DEF TypeInv
<1>2. SUFFICES ASSUME NEW v \in Vaults, ~Signed(v.owner)
               PROVE  \/ before.reserve[v] <= reserve'[v]
                      \/ \E i \in DOMAIN tx.ixs :
                          /\ Released(i)'
                          /\ tx.ixs[i].vault = v
                          /\ tx.ixs[i].amount > 0
                          /\ Direct => before.reserve[v] <= reserve'[v] + tx.ixs[i].amount
  BY <1>1 DEF ReservesAccounted, Signed
<1>3. before.reserve[v] \in Nat /\ reserve[v] \in Nat
  BY <1>1 DEF TypeOK
<1>4. reserve'[v] \in Nat
  BY StepTypes DEF TypeOK
<1>5. \A i \in DOMAIN tx.ixs : IsSelfRelease(tx.ixs[i]) => tx.ixs[i].amount \in Nat
  BY <1>1, ReleaseFields
<1>6. CASE reserve[v] <= reserve'[v]
  <2>1. CASE before.reserve[v] <= reserve[v]
    BY <1>3, <1>4, <1>6, <2>1
  <2>2. ASSUME NEW i \in DOMAIN tx.ixs,
               Released(i),
               tx.ixs[i].vault = v,
               tx.ixs[i].amount > 0,
               Direct => before.reserve[v] <= reserve[v] + tx.ixs[i].amount
        PROVE  \/ before.reserve[v] <= reserve'[v]
               \/ \E k \in DOMAIN tx.ixs :
                   /\ Released(k)'
                   /\ tx.ixs[k].vault = v
                   /\ tx.ixs[k].amount > 0
                   /\ Direct => before.reserve[v] <= reserve'[v] + tx.ixs[k].amount
    <3>2. Released(i)' /\ tx.ixs[i].amount \in Nat
      BY <1>1, <1>5, <2>2, ReleasedAfter DEF Released
    <3>3. Direct => before.reserve[v] <= reserve'[v] + tx.ixs[i].amount
      BY <1>3, <1>4, <1>6, <2>2, <3>2
    <3>4. QED
      BY <2>2, <3>2, <3>3
  <2>3. QED
    BY <1>2, <2>1, <2>2 DEF ReservesAccounted
<1>7. CASE /\ IsSelfRelease(tx.ixs[pc])
           /\ tx.ixs[pc].vault = v
           /\ reserve'[v] = reserve[v] - tx.ixs[pc].amount
           /\ ~(reserve[v] <= reserve'[v])
  <2>1. Direct => before.reserve[v] <= reserve[v]
    BY <1>1, <1>2, <1>7, NoEarlierRelease DEF ReservesAccounted
  <2>2. tx.ixs[pc].amount \in Nat
    BY <1>1, <1>5, <1>7
  <2>3. PICK k \in DOMAIN tx.ixs : k = pc
    BY <1>1
  <2>4. Released(k)'
    BY <1>1, <1>7, <2>3, ReleasedAfter
  <2>5. /\ tx.ixs[pc].amount > 0
        /\ Direct => before.reserve[v] <= reserve'[v] + tx.ixs[pc].amount
    BY <1>3, <1>4, <1>7, <2>1, <2>2
  <2>6. QED
    BY <1>7, <2>3, <2>4, <2>5
<1>8. QED
  BY <1>1, <1>2, <1>6, <1>7, ReserveStep

LEMMA StepKeepsTotals ==
    ASSUME TypeInv, TotalsAccounted, Step
    PROVE  TotalsAccounted'
<1>1. /\ TypeOK
      /\ tx' = tx
      /\ before' = before
      /\ pc \in DOMAIN tx.ixs
      /\ Direct' <=> Direct
  BY StepFrame, DirectKept DEF TypeInv
<1>2. SUFFICES ASSUME Direct, NEW v \in Vaults
               PROVE  \/ vault'[v].totalRepaid <= before.vault[v].totalRepaid
                      \/ \E i \in DOMAIN tx.ixs :
                          /\ Released(i)'
                          /\ tx.ixs[i].vault = v
                          /\ vault'[v].totalRepaid
                                <= before.vault[v].totalRepaid + tx.ixs[i].amount
  BY <1>1 DEF TotalsAccounted
<1>3. before.vault[v].totalRepaid \in Nat /\ vault[v].totalRepaid \in Nat
  BY <1>1 DEF TypeOK, VaultState
<1>4. vault'[v].totalRepaid \in Nat
  BY StepTypes DEF TypeOK, VaultState
<1>5. \A i \in DOMAIN tx.ixs : IsSelfRelease(tx.ixs[i]) => tx.ixs[i].amount \in Nat
  BY <1>1, ReleaseFields
<1>6. CASE vault'[v].totalRepaid <= vault[v].totalRepaid
  <2>1. CASE vault[v].totalRepaid <= before.vault[v].totalRepaid
    BY <1>3, <1>4, <1>6, <2>1
  <2>2. ASSUME NEW i \in DOMAIN tx.ixs,
               Released(i),
               tx.ixs[i].vault = v,
               vault[v].totalRepaid <= before.vault[v].totalRepaid + tx.ixs[i].amount
        PROVE  \E k \in DOMAIN tx.ixs :
                  /\ Released(k)'
                  /\ tx.ixs[k].vault = v
                  /\ vault'[v].totalRepaid
                        <= before.vault[v].totalRepaid + tx.ixs[k].amount
    <3>2. Released(i)' /\ tx.ixs[i].amount \in Nat
      BY <1>1, <1>5, <2>2, ReleasedAfter DEF Released
    <3>3. vault'[v].totalRepaid <= before.vault[v].totalRepaid + tx.ixs[i].amount
      BY <1>3, <1>4, <1>6, <2>2, <3>2
    <3>4. QED
      BY <2>2, <3>2, <3>3
  <2>3. QED
    BY <1>2, <2>1, <2>2 DEF TotalsAccounted
<1>7. CASE /\ IsSelfRelease(tx.ixs[pc])
           /\ tx.ixs[pc].vault = v
           /\ vault'[v].totalRepaid <= vault[v].totalRepaid + tx.ixs[pc].amount
  <2>1. vault[v].totalRepaid <= before.vault[v].totalRepaid
    BY <1>1, <1>2, <1>7, NoEarlierRelease DEF TotalsAccounted
  <2>2. vault'[v].totalRepaid <= before.vault[v].totalRepaid + tx.ixs[pc].amount
    BY <1>1, <1>3, <1>4, <1>5, <1>7, <2>1
  <2>3. PICK k \in DOMAIN tx.ixs : k = pc
    BY <1>1
  <2>4. Released(k)'
    BY <1>1, <1>7, <2>3, ReleasedAfter
  <2>5. QED
    BY <1>7, <2>2, <2>3, <2>4
<1>8. QED
  BY <1>1, <1>2, <1>6, <1>7, TotalStep

\* At the end of a transaction every release has been paid off its own obligation.
LEMMA CompletePaid ==
    ASSUME TypeOK, ReleasesCovered, Complete, NEW i \in DOMAIN tx.ixs, Released(i)
    PROVE  /\ tx.ixs[i].amount <= paid[tx.ixs[i].vault.obligation]
           /\ tx.ixs[i].amount <= vault[tx.ixs[i].vault].cap
           /\ OnlyRelease
<1>1. Covered(i)
  BY DEF ReleasesCovered
<1>2. PICK j \in DOMAIN tx.ixs :
        j < pc => tx.ixs[i].amount <= paid[tx.ixs[i].vault.obligation]
  BY <1>1 DEF Covered
<1>3. j < pc
  <2>1. tx.ixs \in Seq(Instructions) /\ pc \in 1 .. Len(tx.ixs) + 1
    BY DEF TypeOK, TxType
  <2>2. QED
    BY <2>1 DEF Complete
<1>4. QED
  BY <1>1, <1>2, <1>3 DEF Covered

\* Where no instruction is executing, nothing is to be accounted for.
LEMMA NothingExecuted ==
    ASSUME TypeOK, \A i \in DOMAIN tx.ixs : ~Released(i),
           vault = before.vault, reserve = before.reserve
    PROVE  CustodyInv
<1>1. ReleasesCovered
  BY DEF ReleasesCovered
<1>2. ReservesAccounted
  <2>1. before.reserve \in [Vaults -> Nat]
    BY DEF TypeOK
  <2>2. \A v \in Vaults : before.reserve[v] <= reserve[v]
    BY <2>1
  <2>3. QED
    BY <2>2 DEF ReservesAccounted
<1>3. TotalsAccounted
  <2>1. \A v \in Vaults : vault[v].totalRepaid \in Nat
    BY DEF TypeOK, VaultState
  <2>2. \A v \in Vaults : vault[v].totalRepaid <= before.vault[v].totalRepaid
    BY <2>1
  <2>3. QED
    BY <2>2 DEF TotalsAccounted
<1>4. QED
  BY <1>1, <1>2, <1>3 DEF CustodyInv

\* So it is at the start of a transaction and between two.
LEMMA StartAccounted == TypeInv /\ pc = 1 => CustodyInv
<1> SUFFICES ASSUME TypeInv, pc = 1
             PROVE  CustodyInv
  OBVIOUS
<1>1. /\ TypeOK
      /\ vault = before.vault
      /\ reserve = before.reserve
  BY DEF TypeInv, AtStart
<1>2. tx.ixs \in Seq(Instructions)
  BY <1>1 DEF TypeOK, TxType
<1>3. \A i \in DOMAIN tx.ixs : ~Released(i)
  BY <1>2 DEF Released
<1>4. QED
  BY <1>1, <1>3, NothingExecuted

LEMMA CustodyInitial == Init => CustodyInv
BY TypeInitial, StartInitial, StartAccounted DEF TypeInv, Init

\* No action breaks the custody invariant.
LEMMA CustodyInductive == TypeInv /\ CustodyInv /\ [Next]_vars => CustodyInv'
<1>s. (TypeInv /\ pc = 1 => CustodyInv)'
  BY StartAccounted, PTL
<1> SUFFICES ASSUME TypeInv, CustodyInv, [Next]_vars
             PROVE  CustodyInv'
  OBVIOUS
<1>0. TypeInv'
  BY TypeInductive, StartInductive DEF TypeInv
<1>1. CASE \/ \E t \in Transactions : Submit(t)
           \/ Abort
           \/ Commit
  <2>1. TypeOK /\ AtStart
    BY DEF TypeInv
  <2>2. pc' = 1
    BY <1>1, <2>1 DEF Submit, Abort, Commit, Finish, AtStart
  <2>3. QED
    BY <1>s, <1>0, <2>2
<1>2. CASE Step
  BY <1>2, StepKeepsCoverage, StepKeepsReserves, StepKeepsTotals DEF CustodyInv
<1>3. CASE UNCHANGED vars
  BY <1>3 DEF vars, CustodyInv, ReleasesCovered, ReservesAccounted, TotalsAccounted,
              Released, Covered, OnlyRelease, SeenReleases, TopLevel, Direct, Exists, Signed
<1>4. QED
  BY <1>1, <1>2, <1>3 DEF Next, Step

LEMMA CustodyInvariant == Spec => [](TypeInv /\ CustodyInv)
<1>1. Init => CustodyInv
  BY CustodyInitial
<1>2. TypeInv /\ CustodyInv /\ [Next]_vars => CustodyInv'
  BY CustodyInductive
<1>3. QED
  BY <1>1, <1>2, TypeInvariant, PTL DEF Spec

\* A commit leaves no release behind that was not executed.
LEMMA CompleteReleased ==
    ASSUME TypeOK, Complete, NEW i \in DOMAIN tx.ixs, IsSelfRelease(tx.ixs[i])
    PROVE  Released(i)
<1>1. tx.ixs \in Seq(Instructions) /\ pc \in 1 .. Len(tx.ixs) + 1
  BY DEF TypeOK, TxType
<1>2. QED
  BY <1>1 DEF Complete, Released

\* Whatever the instructions of a transaction that commits, and whoever calls them, each of
\* its releases is within the cap and no more than what the transaction has paid off the
\* obligation of the release's vault.
THEOREM ReleasesRepay == Spec => []EveryReleaseRepays
<1>1. ASSUME TypeInv, CustodyInv
      PROVE  EveryReleaseRepays
  BY <1>1, CompleteReleased, CompletePaid DEF EveryReleaseRepays, TypeInv, CustodyInv
<1>2. QED
  BY <1>1, CustodyInvariant, PTL

\* Whatever leaves a reserve without its owner's signature, in a transaction in which no
\* program calls a release, has come off the debt of the vault's own obligation by the
\* time the transaction commits.
THEOREM ReserveCustody == Spec => []Custody
<1>1. ASSUME TypeInv, CustodyInv
      PROVE  Custody
  <2> SUFFICES ASSUME Complete, Direct, NEW v \in Vaults, ~Signed(v.owner)
               PROVE  before.reserve[v] <= reserve[v] + paid[v.obligation]
    BY DEF Custody
  <2>1. /\ TypeOK
        /\ before.reserve[v] \in Nat
        /\ reserve[v] \in Nat
        /\ paid[v.obligation] \in Nat
    BY <1>1 DEF TypeInv, TypeOK, Vaults
  <2>2. CASE before.reserve[v] <= reserve[v]
    BY <2>1, <2>2
  <2>3. ASSUME NEW i \in DOMAIN tx.ixs,
               Released(i),
               tx.ixs[i].vault = v,
               before.reserve[v] <= reserve[v] + tx.ixs[i].amount
        PROVE  before.reserve[v] <= reserve[v] + paid[v.obligation]
    <3>1. tx.ixs[i].amount <= paid[v.obligation] /\ tx.ixs[i].amount \in Nat
      BY <1>1, <2>1, <2>3, CompletePaid, ReleaseFields DEF CustodyInv, Released
    <3>2. QED
      BY <2>1, <2>3, <3>1
  <2>4. QED
    BY <1>1, <2>2, <2>3 DEF CustodyInv, ReservesAccounted
<1>2. QED
  BY <1>1, CustodyInvariant, PTL

\* No transaction in which no program calls a release takes more than the cap from a
\* reserve whose owner did not sign it.
THEOREM CapHolds == Spec => []CapPerTransaction
<1>1. ASSUME TypeInv, CustodyInv
      PROVE  CapPerTransaction
  <2> SUFFICES ASSUME Complete, Direct, NEW v \in Vaults, ~Signed(v.owner)
               PROVE  before.reserve[v] <= reserve[v] + vault[v].cap
    BY DEF CapPerTransaction
  <2>1. /\ TypeOK
        /\ before.reserve[v] \in Nat
        /\ reserve[v] \in Nat
        /\ vault[v].cap \in Nat
    BY <1>1, AmountsNat DEF TypeInv, TypeOK, VaultState
  <2>2. CASE before.reserve[v] <= reserve[v]
    BY <2>1, <2>2
  <2>3. ASSUME NEW i \in DOMAIN tx.ixs,
               Released(i),
               tx.ixs[i].vault = v,
               before.reserve[v] <= reserve[v] + tx.ixs[i].amount
        PROVE  before.reserve[v] <= reserve[v] + vault[v].cap
    <3>1. tx.ixs[i].amount <= vault[v].cap /\ tx.ixs[i].amount \in Nat
      BY <1>1, <2>1, <2>3, CompletePaid, ReleaseFields DEF CustodyInv, Released
    <3>2. QED
      BY <2>1, <2>3, <3>1
  <2>4. QED
    BY <1>1, <2>2, <2>3 DEF CustodyInv, ReservesAccounted
<1>2. QED
  BY <1>1, CustodyInvariant, PTL

\* What a committed transaction in which no program calls a release adds to a vault's
\* total it has paid off the vault's obligation; an aborted one adds nothing.
THEOREM TotalsAreReal == Spec => []TotalRepaidIsReal
<1>1. ASSUME TypeInv, CustodyInv
      PROVE  TotalRepaidIsReal
  <2>1. ASSUME Complete, Direct, NEW v \in Vaults
        PROVE  vault[v].totalRepaid <= before.vault[v].totalRepaid + paid[v.obligation]
    <3>1. /\ TypeOK
          /\ vault[v].totalRepaid \in Nat
          /\ before.vault[v].totalRepaid \in Nat
          /\ paid[v.obligation] \in Nat
      BY <1>1 DEF TypeInv, TypeOK, Vaults, VaultState
    <3>2. CASE vault[v].totalRepaid <= before.vault[v].totalRepaid
      BY <3>1, <3>2
    <3>3. ASSUME NEW i \in DOMAIN tx.ixs,
                 Released(i),
                 tx.ixs[i].vault = v,
                 vault[v].totalRepaid <= before.vault[v].totalRepaid + tx.ixs[i].amount
          PROVE  vault[v].totalRepaid <= before.vault[v].totalRepaid + paid[v.obligation]
      <4>1. tx.ixs[i].amount <= paid[v.obligation] /\ tx.ixs[i].amount \in Nat
        BY <1>1, <2>1, <3>1, <3>3, CompletePaid, ReleaseFields DEF CustodyInv, Released
      <4>2. QED
        BY <3>1, <3>3, <4>1
    <3>4. QED
      BY <1>1, <2>1, <3>2, <3>3 DEF CustodyInv, TotalsAccounted
  <2>2. ~running => vault = before.vault
    BY <1>1 DEF TypeInv, AtStart
  <2>3. QED
    BY <2>1, <2>2 DEF TotalRepaidIsReal
<1>2. QED
  BY <1>1, CustodyInvariant, PTL

----------------------------------------------------------------------------
(* The program implements ReserveCustody: a commit is a settlement its     *)
(* signers consent to, a submission or an abort changes only the consent,  *)
(* and the steps of a transaction leave the promise's state alone.         *)

LEMMA CommitSettles ==
    ASSUME TypeInv, CustodyInv, Commit
    PROVE  Promise!Settle
<1>1. TypeOK /\ Complete
  BY DEF TypeInv, Commit
<1>2. /\ before'.reserve = reserve
      /\ everPaid' = [o \in Obligations |-> everPaid[o] + paid[o]]
  BY DEF Commit
<1>3. /\ reserve \in [Vaults -> Nat]
      /\ before.reserve \in [Vaults -> Nat]
      /\ paid \in [Obligations -> Nat]
      /\ everPaid \in [Obligations -> Nat]
  BY <1>1 DEF TypeOK
<1>4. Promise!Vaults = Vaults
  BY DEF Promise!Vaults, Vaults
<1>5. before'.reserve \in [Promise!Vaults -> Nat]
  BY <1>2, <1>3, <1>4
<1>6. everPaid' \in [Obligations -> Nat] /\ \A o \in Obligations : everPaid[o] <= everPaid'[o]
  BY <1>2, <1>3
<1>7. ASSUME NEW v \in Vaults, v.owner \notin tx.signers \cap Owners,
             before'.reserve[v] < before.reserve[v]
      PROVE  /\ everPaid[v.obligation] < everPaid'[v.obligation]
             /\ Direct => before.reserve[v] - before'.reserve[v]
                            <= everPaid'[v.obligation] - everPaid[v.obligation]
             /\ \E i \in DOMAIN tx.ixs : Released(i) /\ tx.ixs[i].vault = v
  <2>1. ~Signed(v.owner) /\ v.obligation \in Obligations
    BY <1>7 DEF Signed, Vaults
  <2>2. /\ before.reserve[v] \in Nat /\ reserve[v] \in Nat
        /\ paid[v.obligation] \in Nat /\ everPaid[v.obligation] \in Nat
    BY <1>3, <2>1
  <2>3. PICK i \in DOMAIN tx.ixs :
            /\ Released(i)
            /\ tx.ixs[i].vault = v
            /\ tx.ixs[i].amount > 0
            /\ Direct => before.reserve[v] <= reserve[v] + tx.ixs[i].amount
    <3>1. ~(before.reserve[v] <= reserve[v])
      BY <1>2, <1>7, <2>2
    <3>2. QED
      BY <2>1, <3>1 DEF CustodyInv, ReservesAccounted
  <2>4. tx.ixs[i].amount <= paid[v.obligation] /\ tx.ixs[i].amount \in Nat
    BY <1>1, <2>3, CompletePaid, ReleaseFields DEF CustodyInv, Released
  <2>5. everPaid'[v.obligation] = everPaid[v.obligation] + paid[v.obligation]
    BY <1>2, <2>1
  <2>6. /\ everPaid[v.obligation] < everPaid'[v.obligation]
        /\ Direct => before.reserve[v] - before'.reserve[v]
                        <= everPaid'[v.obligation] - everPaid[v.obligation]
    BY <1>2, <2>2, <2>3, <2>4, <2>5
  <2>7. QED
    BY <2>3, <2>6
<1>8. ASSUME Direct,
             NEW v \in Vaults, NEW w \in Vaults,
             v.owner \notin tx.signers \cap Owners,
             w.owner \notin tx.signers \cap Owners,
             before'.reserve[v] < before.reserve[v],
             before'.reserve[w] < before.reserve[w]
      PROVE  v = w
  <2>1. PICK i \in DOMAIN tx.ixs : Released(i) /\ tx.ixs[i].vault = v
    BY <1>7, <1>8
  <2>2. PICK j \in DOMAIN tx.ixs : Released(j) /\ tx.ixs[j].vault = w
    BY <1>7, <1>8
  <2>3. /\ OnlyRelease
        /\ IsSelfRelease(tx.ixs[i])
        /\ IsSelfRelease(tx.ixs[j])
    BY <1>1, <2>1, <2>2, CompletePaid DEF CustodyInv, Released
  <2>4. i = j
    BY <1>8, <2>3, OneRelease
  <2>5. QED
    BY <2>1, <2>2, <2>4
<1>9. tx'.signers \cap Owners = {} /\ Direct' = TRUE
  BY DEF Commit, Finish, NoTx, Direct
<1>10. QED
  BY <1>4, <1>5, <1>6, <1>7, <1>8, <1>9 DEF Promise!Settle, Promise!Taken

\* Every behaviour of the program is, between transactions, a behaviour of the promise.
THEOREM ProgramKeepsPromise == Spec => ImplementsPromise
<1>1. Init => Promise!Init
  BY DEF Init, Promise!Init, Promise!Vaults, Vaults, NothingPaid, NoTx, Direct
<1>2. ASSUME TypeInv, CustodyInv, [Next]_vars
      PROVE  [Promise!Next]_<<before.reserve, everPaid, tx.signers \cap Owners, Direct>>
  <2>1. CASE Commit
    BY <1>2, <2>1, CommitSettles DEF Promise!Next
  <2>2. CASE \E t \in Transactions : Submit(t)
    BY <2>2 DEF Submit, Promise!Next, Promise!Agree, Direct
  <2>3. CASE Step
    BY <1>2, <2>3, StepFrame DEF TypeInv, Direct, TopLevel, IsSelfRelease
  <2>4. CASE Abort
    BY <2>4 DEF Abort, Promise!Next, Promise!Agree, Direct
  <2>5. CASE UNCHANGED vars
    BY <2>5 DEF vars, Direct, TopLevel
  <2>6. QED
    BY <1>2, <2>1, <2>2, <2>3, <2>4, <2>5 DEF Next, Step
<1>3. QED
  BY <1>1, <1>2, CustodyInvariant, PTL DEF Spec, ImplementsPromise, Promise!Spec

----------------------------------------------------------------------------
(* The guards let the keeper's own fire through.                           *)

\* An executing fire that the cap, the reserve and the stored debt allow.
AllowedFire(v, to, r, amount) ==
    /\ running
    /\ HonestFire(tx, v, to, r, amount)
    /\ amount <= before.reserve[v]
    /\ amount <= before.vault[v].cap
    /\ amount <= before.debt[v.obligation][r]

\* After its release the keeper holds the amount and the debt is still there to pull.
FireOnTrack ==
    \A v \in Vaults, to \in Accounts, r \in Reserves, amount \in Nat :
        AllowedFire(v, to, r, amount) /\ pc \in {2, 3} =>
            /\ amount <= wallet[to]
            /\ amount <= debt[v.obligation][r]
            /\ pc = 3 => v.obligation \in fresh

LEMMA FireShape ==
    ASSUME NEW v, NEW to, NEW r, NEW amount, HonestFire(tx, v, to, r, amount)
    PROVE  /\ DOMAIN tx.ixs = 1 .. 3
           /\ tx.ixs[1] = [op |-> "release_to_keeper", vault |-> v, to |-> to,
                           amount |-> amount]
           /\ tx.ixs[2] = [op |-> "refresh", obligation |-> v.obligation]
           /\ tx.ixs[3] = [op |-> "repay", market |-> MarketOf[v.obligation],
                           obligation |-> v.obligation, reserve |-> r, from |-> to,
                           amount |-> amount]
BY DEF HonestFire

\* The op of the instruction names the action that executes it.
LEMMA StepByOp ==
    ASSUME Step
    PROVE  /\ tx.ixs[pc].op = "release_to_keeper" => ReleaseToKeeper
           /\ tx.ixs[pc].op = "refresh" => Refresh
<1>1. CASE InitVault
  <2>1. tx.ixs[pc].op = "init_vault"
    BY <1>1 DEF InitVault, Executes
  <2>2. QED BY <2>1
<1>2. CASE FundReserve
  <2>1. tx.ixs[pc].op = "fund_reserve"
    BY <1>2 DEF FundReserve, Executes
  <2>2. QED BY <2>1
<1>3. CASE Reclaim
  <2>1. tx.ixs[pc].op = "reclaim"
    BY <1>3 DEF Reclaim, Executes
  <2>2. QED BY <2>1
<1>4. CASE ReleaseToKeeper
  <2>1. tx.ixs[pc].op = "release_to_keeper"
    BY <1>4 DEF ReleaseToKeeper, Executes
  <2>2. QED BY <1>4, <2>1
<1>5. CASE Refresh
  <2>1. tx.ixs[pc].op = "refresh"
    BY <1>5 DEF Refresh, Executes
  <2>2. QED BY <1>5, <2>1
<1>6. CASE Repay
  <2>1. tx.ixs[pc].op = "repay"
    BY <1>6 DEF Repay, Executes
  <2>2. QED BY <2>1
<1>7. CASE Borrow
  <2>1. tx.ixs[pc].op = "borrow"
    BY <1>7 DEF Borrow, Executes
  <2>2. QED BY <2>1
<1>8. QED
  BY <1>1, <1>2, <1>3, <1>4, <1>5, <1>6, <1>7 DEF Step

LEMMA FireInductive == TypeInv /\ FireOnTrack /\ [Next]_vars => FireOnTrack'
<1> SUFFICES ASSUME TypeInv, FireOnTrack, [Next]_vars,
                    NEW v \in Vaults, NEW to \in Accounts, NEW r \in Reserves,
                    NEW amount \in Nat,
                    AllowedFire(v, to, r, amount)', pc' \in {2, 3}
             PROVE  /\ amount <= wallet'[to]
                    /\ amount <= debt'[v.obligation][r]
                    /\ pc' = 3 => v.obligation \in fresh'
  BY DEF FireOnTrack
<1>0. TypeOK /\ AtStart /\ running'
  BY DEF TypeInv, AllowedFire
<1>1. ASSUME NEW t \in Transactions, Submit(t)
      PROVE  FALSE
  BY <1>0, <1>1 DEF Submit, AtStart
<1>2. CASE Step
  <2>1. /\ running
        /\ pc \in DOMAIN tx.ixs
        /\ pc \in Nat
        /\ pc' = pc + 1
        /\ tx' = tx
        /\ before' = before
    BY <1>0, <1>2, StepFrame
  <2>2. AllowedFire(v, to, r, amount)
    BY <2>1 DEF AllowedFire, HonestFire
  <2>7. HonestFire(tx, v, to, r, amount)
    BY <2>2 DEF AllowedFire
  <2>3. /\ tx.ixs[1] = [op |-> "release_to_keeper", vault |-> v, to |-> to,
                        amount |-> amount]
        /\ tx.ixs[2] = [op |-> "refresh", obligation |-> v.obligation]
    BY <2>7 DEF HonestFire
  <2>4. CASE pc = 1
    <3>1. ReleaseToKeeper
      BY <1>2, <2>3, <2>4, StepByOp
    <3>2. /\ wallet' = [wallet EXCEPT ![to] = @ + amount]
          /\ debt' = debt
      BY <2>3, <2>4, <3>1 DEF ReleaseToKeeper
    <3>3. wallet \in [Accounts -> Nat]
      BY <1>0 DEF TypeOK
    <3>4. wallet'[to] = wallet[to] + amount /\ wallet[to] \in Nat
      BY <3>2, <3>3
    <3>5. debt = before.debt
      BY <1>0, <2>4 DEF AtStart
    <3>6. QED
      BY <2>1, <2>2, <2>4, <3>2, <3>4, <3>5 DEF AllowedFire
  <2>5. CASE pc = 2
    <3>1. Refresh
      BY <1>2, <2>3, <2>5, StepByOp
    <3>2. amount <= wallet[to] /\ amount <= debt[v.obligation][r]
      BY <2>2, <2>5 DEF FireOnTrack
    <3>3. wallet' = wallet /\ paid' = paid /\ fresh' = fresh \cup {v.obligation}
      BY <2>3, <2>5, <3>1 DEF Refresh
    <3>4. v.obligation \in Obligations
      BY DEF Vaults
    <3>5. paid[v.obligation] + debt[v.obligation][r] <= paid'[v.obligation] + debt'[v.obligation][r]
      BY <1>0, <1>2, <3>4, DebtStep
    <3>6. /\ paid[v.obligation] \in Nat
          /\ debt[v.obligation][r] \in Nat
          /\ debt'[v.obligation][r] \in Nat
      BY <1>0, <1>2, <3>4, StepTypes DEF TypeOK
    <3>7. QED
      BY <3>2, <3>3, <3>5, <3>6
  <2>6. QED
    BY <2>1, <2>4, <2>5
<1>3. CASE Abort \/ Commit
  BY <1>0, <1>3 DEF Abort, Commit, Finish
<1>4. CASE UNCHANGED vars
  BY <1>4 DEF vars, FireOnTrack, AllowedFire, HonestFire
<1>5. QED
  BY <1>1, <1>2, <1>3, <1>4 DEF Next, Step

\* The keeper's fire is never refused for an amount within the cap, the reserve and the
\* stored debt: interest accruing under the transaction cannot make it fail.
THEOREM HonestFireLands == Spec => []HonestFireNeverAborts
<1>1. Init => FireOnTrack
  BY DEF Init, FireOnTrack
<1>2. ASSUME TypeInv, FireOnTrack
      PROVE  HonestFireNeverAborts
  <2> SUFFICES ASSUME NEW v \in Vaults, NEW to \in Accounts, NEW r \in Reserves,
                      NEW amount \in 0 .. before.reserve[v],
                      running, pc \in DOMAIN tx.ixs,
                      HonestFire(tx, v, to, r, amount),
                      amount <= before.vault[v].cap,
                      amount <= before.debt[v.obligation][r]
               PROVE  Succeeds(tx.ixs[pc])
    BY DEF HonestFireNeverAborts
  <2>0. /\ TypeOK
        /\ AtStart
        /\ before.reserve[v] \in Nat
        /\ amount \in Nat
        /\ amount <= before.reserve[v]
    <3>1. TypeOK /\ AtStart
      BY <1>2 DEF TypeInv
    <3>2. before.reserve \in [Vaults -> Nat]
      BY <3>1 DEF TypeOK
    <3>3. before.reserve[v] \in Nat
      BY <3>2
    <3>4. amount \in Nat /\ amount <= before.reserve[v]
      BY <3>3
    <3>5. QED
      BY <3>1, <3>3, <3>4
  <2>1. AllowedFire(v, to, r, amount)
    BY <2>0 DEF AllowedFire
  <2>2. /\ DOMAIN tx.ixs = 1 .. 3
        /\ tx.ixs[1] = [op |-> "release_to_keeper", vault |-> v, to |-> to,
                        amount |-> amount]
        /\ tx.ixs[2] = [op |-> "refresh", obligation |-> v.obligation]
        /\ tx.ixs[3] = [op |-> "repay", market |-> MarketOf[v.obligation],
                        obligation |-> v.obligation, reserve |-> r, from |-> to,
                        amount |-> amount]
    BY FireShape
  <2>3. CASE pc = 1
    <3>1. /\ vault = before.vault
          /\ reserve = before.reserve
          /\ debt = before.debt
      BY <2>0, <2>3 DEF AtStart
    <3>2. /\ vault[v].keeper \in tx.signers
          /\ HolderOf[to] = vault[v].keeper
          /\ vault[v].market = MarketOf[v.obligation]
          /\ amount < MaxU64
      BY <3>1 DEF HonestFire
    <3>3. Exists(v) /\ Signed(vault[v].keeper)
      <4>1. tx.signers \subseteq Parties
        BY <2>0 DEF TypeOK, TxType
      <4>2. QED
        BY <3>2, <4>1, ConstantsAssumption DEF ConstantsAssumption, Exists, Signed
    <3>4. OnlyRelease
      <4>1. \A k \in DOMAIN tx.ixs : TopLevel(k)
        BY DEF HonestFire, TopLevel
      <4>2. SeenReleases = {1}
        BY <2>2, <4>1 DEF SeenReleases, IsSelfRelease
      <4>3. QED
        BY <4>2 DEF OnlyRelease
    <3>5. IsBoundRepay(tx.ixs[3], v, to, amount)
      BY <2>0, <2>2, <3>2, ConstantsAssumption DEF ConstantsAssumption, IsBoundRepay
    <3>6. ~IsBoundRepay(tx.ixs[2], v, to, amount)
      BY <2>2 DEF IsBoundRepay
    <3>7. FirstBoundRepay(1, 3)
      BY <2>2, <3>5, <3>6 DEF FirstBoundRepay, HonestFire, TopLevel
    <3>8. WithinStoredDebt(v, r, amount)
      BY <3>1 DEF WithinStoredDebt
    <3>9. EnforceBoundRepay(1)
      BY <2>2, <3>2, <3>4, <3>7, <3>8 DEF EnforceBoundRepay
    <3>10. ReleaseOk(tx.ixs[1])
      BY <2>0, <2>2, <2>3, <3>1, <3>2, <3>3, <3>9 DEF ReleaseOk
    <3>11. QED
      BY <2>2, <2>3, <3>10 DEF Succeeds
  <2>4. CASE pc = 2
    BY <2>2, <2>4 DEF Succeeds
  <2>5. CASE pc = 3
    <3> DEFINE ix == tx.ixs[3]
    <3>1. /\ amount <= wallet[to]
          /\ amount <= debt[v.obligation][r]
          /\ v.obligation \in fresh
      BY <1>2, <2>0, <2>1, <2>5 DEF FireOnTrack
    <3>2. wallet[to] \in Nat /\ debt[v.obligation][r] \in Nat /\ amount > 0
      BY <2>0 DEF TypeOK, Vaults, HonestFire
    <3>3. Pulled(ix) <= wallet[to]
      BY <2>0, <2>2, <3>1, <3>2 DEF Pulled, Min2
    <3>4. Signed(HolderOf[to]) /\ r \in UsdcReserves /\ TopLevel(pc)
      BY DEF HonestFire, Signed, TopLevel
    <3>5. RepayOk(ix)
      BY <2>0, <2>2, <2>5, <3>1, <3>2, <3>3, <3>4 DEF RepayOk
    <3>6. QED
      BY <2>2, <2>5, <3>5 DEF Succeeds
  <2>6. QED
    BY <2>2, <2>3, <2>4, <2>5
<1>3. QED
  BY <1>1, <1>2, FireInductive, TypeInvariant, PTL DEF Spec
============================================================================
