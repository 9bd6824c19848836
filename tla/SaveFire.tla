------------------------------- MODULE SaveFire -------------------------------
(***************************************************************************)
(* A protected loan as the lending market stores it, and the fire of a     *)
(* Save vault (processSaveVault, adapters/save, fireSaveReleaseRepay): the *)
(* keeper fetches the obligation three times, builds a transaction out of  *)
(* what it read and sends it, while the owner deposits, withdraws, borrows *)
(* and repays.  The same owner on Kamino shows that its reader agrees too; *)
(* the fire there is in ProtectLoop and Keeper.                            *)
(*                                                                         *)
(* The market wants every reserve of a loan refreshed in the slot of the   *)
(* transaction, which refreshes one: the others are fresh where somebody   *)
(* else has refreshed them in that slot.                                   *)
(*                                                                         *)
(* The market is closed and the reserve of the vault suffices (Keeper has  *)
(* both).  A Save borrow that is repaid is removed, and the ones behind it *)
(* move up.                                                                *)
(***************************************************************************)
EXTENDS ObligationLayout

CONSTANTS
    UsdcReserve,    \* the reserve of the market whose mint is USDC
    SaveCap,        \* cap_per_fire of the vault
    MaxDeposits,    \* bound: deposits of the obligation
    MaxBorrows,     \* bound: borrows of the obligation
    Amounts,        \* base units of a borrow or of a repay of the owner
    MaxMoves        \* bound: moves of the owner and accruals of interest

ASSUME SaveAssumption ==
    /\ UsdcReserve \in Reserves
    /\ SaveCap \in Nat \ {0}
    /\ {MaxDeposits, MaxBorrows, MaxMoves} \cup Amounts \subseteq Nat
    /\ MaxBorrows <= KaminoNumBorrows
    \* The account of a Save obligation has room for them.
    /\ MaxDeposits * DepositStride + MaxBorrows * SaveBorrowStride <= SaveLen - DataFlatOffset

VARIABLES
    market,     \* "kamino", "save", or "none" where another loan is looked at
    deposits,   \* deposits of the obligation, a sequence of reserves
    borrows,    \* borrows of the obligation; on Kamino always five slots
    account,    \* its bytes
    fire,       \* the fire under way: [pc, coords, amount, usdc, disturbed]
    last,       \* history: how the last transaction ended
    kept,       \* history: base units released that the market did not take
    moves       \* history: number of moves

saveVars == <<market, deposits, borrows, account, fire, last, kept, moves>>

NoBorrow == [reserve |-> Zero, sf |-> 0]
NoCoords == [reserve |-> Zero, deposits |-> <<>>, borrows |-> <<>>]
NoFire == [pc |-> "idle", coords |-> NoCoords, amount |-> 0, usdc |-> FALSE,
           disturbed |-> FALSE]
EmptyAccount == [len |-> SaveLen, key |-> <<>>, num |-> <<>>]

SaveTypeOK ==
    /\ market \in {"kamino", "save", "none"}
    /\ deposits \in BoundedSeq(Reserves, MaxDeposits)
    /\ \A i \in DOMAIN borrows : /\ borrows[i].reserve \in Reserves \cup {Zero}
                                 /\ borrows[i].sf \in Nat
    /\ fire.pc \in {"idle", "debt", "build", "send"}
    /\ fire.amount \in 0 .. SaveCap
    /\ last \in {"none", "landed", "reverted", "stale", "disturbed"}
    /\ kept \in Nat
    /\ moves \in 0 .. MaxMoves

\* No obligation of this module: its variables at rest.
SaveAtRest ==
    /\ market = "none"
    /\ deposits = <<>> /\ borrows = <<>> /\ account = EmptyAccount
    /\ fire = NoFire
    /\ last = "none" /\ kept = 0 /\ moves = 0

SaveInit ==
    /\ \/ market = "save" /\ borrows = <<>> /\ account = PackSave(EmptyAccount, <<>>, <<>>)
       \/ /\ market = "kamino"
          /\ borrows = [i \in 1 .. KaminoNumBorrows |-> NoBorrow]
          /\ account = PackKamino(borrows)
    /\ deposits = <<>>
    /\ fire = NoFire
    /\ last = "none" /\ kept = 0 /\ moves = 0

----------------------------------------------------------------------------
(* The lending market and the owner (external).                            *)

Write(ds, bs) ==
    /\ deposits' = ds
    /\ borrows' = bs
    /\ account' = IF market = "save" THEN PackSave(account, ds, bs) ELSE PackKamino(bs)

\* What repaying n base units of the i-th borrow leaves.
AfterRepay(i, n) ==
    LET left == borrows[i].sf - n * (IF market = "save" THEN Wad ELSE Fraction)
    IN  IF left > 0 THEN [borrows EXCEPT ![i].sf = left]
        ELSE IF market = "save" THEN RemoveAt(borrows, i)
        ELSE [borrows EXCEPT ![i] = NoBorrow]

Scale == IF market = "save" THEN Wad ELSE Fraction

Move ==
    /\ moves < MaxMoves
    /\ moves' = moves + 1
    /\ fire' = [fire EXCEPT !.disturbed = fire.pc # "idle"]
    /\ UNCHANGED <<market, last, kept>>

Deposit(r) ==
    /\ market = "save"
    /\ Len(deposits) < MaxDeposits
    /\ \A i \in DOMAIN deposits : deposits[i] # r
    /\ Write(Append(deposits, r), borrows)
    /\ Move

Withdraw(i) ==
    /\ Write(RemoveAt(deposits, i), borrows)
    /\ Move

\* A new borrow goes behind the others on Save, into the first empty slot on Kamino.
Borrow(r, n) ==
    /\ \A i \in DOMAIN borrows : borrows[i].reserve # r
    /\ LET b == [reserve |-> r, sf |-> n * Scale + 1]
           empty == {i \in DOMAIN borrows : borrows[i] = NoBorrow}
       IN  \/ /\ market = "save" /\ Len(borrows) < MaxBorrows
              /\ Write(deposits, Append(borrows, b))
           \/ /\ market = "kamino" /\ empty # {} /\ Min(empty) <= MaxBorrows
              /\ Write(deposits, [borrows EXCEPT ![Min(empty)] = b])
    /\ Move

\* Some of a borrow, or all of it.
OwnerRepay(i, n) ==
    /\ borrows[i].sf > 0
    /\ Write(deposits, AfterRepay(i, n))
    /\ Move

\* Interest: less than a base unit.
Accrue(i) ==
    /\ borrows[i].sf > 0
    /\ Write(deposits, [borrows EXCEPT ![i].sf = @ + 1])
    /\ Move

----------------------------------------------------------------------------
(* The keeper.                                                             *)

\* Plausible bug: the first borrow with a debt, whatever its mint.
FirstNonzero(bs) ==
    LET nonzero == {i \in DOMAIN bs : bs[i].sf > 0}
    IN  bs[IF nonzero = {} THEN 1 ELSE Min(nonzero)].reserve

\* Plausible bug: the search goes on behind the USDC borrow.
LastNonzero(bs) ==
    LET nonzero == {i \in DOMAIN bs : bs[i].sf > 0}
    IN  bs[IF nonzero = {} THEN 1 ELSE Max(nonzero)].reserve

\* readRepayCoords: the USDC borrow, else the last that is not zero (its comment says the
\* first), else the first.
Primary(bs) ==
    LET nonzero == {i \in DOMAIN bs : bs[i].sf > 0}
        usdc == {i \in nonzero : bs[i].reserve = UsdcReserve}
    IN  bs[IF usdc # {} THEN Min(usdc) ELSE IF nonzero # {} THEN Max(nonzero) ELSE 1].reserve

ReadRepayCoords ==
    LET parsed == Parse(account)
    IN  [reserve |-> Primary(parsed.borrows),
         deposits |-> parsed.deposits,
         borrows |-> [i \in DOMAIN parsed.borrows |-> parsed.borrows[i].reserve]]

\* readRepayCoords throws where there is no borrow, and the tick of the vault ends.
NothingBorrowed == Parse(account).borrows = <<>>

\* SaveAdapter.readObligationView, its first fetch.
FetchCoords ==
    /\ market = "save"
    /\ fire.pc = "idle"
    /\ ~NothingBorrowed
    /\ fire' = [NoFire EXCEPT !.pc = "debt", !.coords = ReadRepayCoords,
                              !.usdc = \E i \in DOMAIN borrows :
                                            borrows[i].reserve = UsdcReserve]
    /\ UNCHANGED <<market, deposits, borrows, account, last, kept, moves>>

\* Plausible bug: the cap is left to the program.
UncappedHalf(debtRead) == debtRead \div 2

\* processSaveVault and toRepayLamports: half the debt in whole base units, capped.
SaveAmount(debtRead) == IF debtRead \div 2 <= SaveCap THEN debtRead \div 2 ELSE SaveCap

\* Its second fetch reads the debt of that reserve: no debt is a hold, an amount of zero throws.
FetchDebt ==
    /\ fire.pc = "debt"
    /\ LET amount == SaveAmount(ReadReserveDebt(account, fire.coords.reserve))
       IN  fire' = IF amount = 0 THEN NoFire
                   ELSE [fire EXCEPT !.pc = "build", !.amount = amount]
    /\ UNCHANGED <<market, deposits, borrows, account, last, kept, moves>>

\* buildSaveRepayIxs reads the coordinates again.
BuildRepay ==
    /\ fire.pc = "build"
    /\ fire' = IF NothingBorrowed THEN NoFire
               ELSE [fire EXCEPT !.pc = "send", !.coords = ReadRepayCoords]
    /\ UNCHANGED <<market, deposits, borrows, account, last, kept, moves>>

\* Plausible bug: the release is not held against the debt.
WithinAnyDebt == TRUE

\* enforce_bound_repay: the release is at most the live debt of the repay's reserve.
WithinLiveDebt ==
    LET read == ReadDebtSave(account, fire.coords.reserve)
    IN  read.ok /\ fire.amount <= read.debt

\* RefreshObligation (external) wants the obligation's own reserves, in their order, and the
\* repay moves USDC to a reserve of USDC only.
CoordsMatch ==
    /\ fire.coords.deposits = deposits
    /\ fire.coords.borrows = [i \in DOMAIN borrows |-> borrows[i].reserve]
    /\ fire.coords.reserve = UsdcReserve

\* It also wants each of them refreshed in the slot.  The transaction refreshes the repay's
\* reserve alone; others are the reserves that somebody else has refreshed.
ReservesFresh(others) ==
    {deposits[i] : i \in DOMAIN deposits} \cup {borrows[i].reserve : i \in DOMAIN borrows}
        \subseteq others \cup {fire.coords.reserve}

MarketTakesIt(others) == CoordsMatch /\ ReservesFresh(others)

\* The transaction [release, refresh, refresh, repay].  The market takes no more than it is
\* owed; what is over would stay with the keeper.
Send == \E others \in SUBSET Reserves :
    /\ fire.pc = "send"
    /\ fire' = NoFire
    /\ IF WithinLiveDebt /\ MarketTakesIt(others)
       THEN LET i == CHOOSE j \in DOMAIN borrows : borrows[j].reserve = UsdcReserve
                owed == (borrows[i].sf + Wad - 1) \div Wad
            IN  /\ Write(deposits, AfterRepay(i, fire.amount))
                /\ kept' = kept + (IF fire.amount > owed THEN fire.amount - owed ELSE 0)
                /\ last' = "landed"
       ELSE /\ last' = IF fire.disturbed THEN "disturbed"
                       ELSE IF ~ReservesFresh(others) THEN "stale"
                       ELSE IF fire.usdc THEN "reverted" ELSE "none"
            /\ UNCHANGED <<deposits, borrows, account, kept>>
    /\ UNCHANGED <<market, moves>>

KeeperStep == FetchCoords \/ FetchDebt \/ BuildRepay \/ Send

OwnerStep ==
    \/ \E r \in Reserves : Deposit(r)
    \/ \E i \in DOMAIN deposits : Withdraw(i)
    \/ \E r \in Reserves, n \in Amounts : Borrow(r, n)
    \/ \E i \in DOMAIN borrows, n \in Amounts \ {0} : OwnerRepay(i, n)
    \/ \E i \in DOMAIN borrows : Accrue(i)

SaveNext == KeeperStep \/ OwnerStep

SaveSpec == SaveInit /\ [][SaveNext]_saveVars /\ WF_saveVars(KeeperStep)

----------------------------------------------------------------------------
(* Properties.                                                             *)

TokenDebt(r) ==
    LET mine == {i \in DOMAIN borrows : borrows[i].reserve = r}
    IN  IF mine = {} THEN 0 ELSE borrows[CHOOSE i \in mine : TRUE].sf \div Scale

\* The D2.3a gate (save-seed-fork.ts --verify-offsets) for every obligation that moves of
\* its owner and fires can lead to, not for one: the program's readers of markets.rs and the
\* reader of the SDK find the debt the market holds for every reserve, with borrows that
\* moved, and with the remains of earlier ones behind them.
ReadersAgree ==
    \A r \in Reserves :
        /\ market = "save" => /\ ReadDebtSave(account, r) = DebtIs(TokenDebt(r))
                              /\ ReadReserveDebt(account, r) = TokenDebt(r)
                              /\ borrows # <<>> => OffsetsMatch(account)
        /\ market = "kamino" => ReadDebtKamino(account, r) = DebtIs(TokenDebt(r))

\* release_to_keeper.rs, "FULL CLOSURE": whatever the owner does between the keeper's reads
\* and its transaction, the market takes all that is released for it.
NothingStaysWithKeeper == kept = 0

\* "repaying a non-USDC reserve mint-mismatches the SPL transfer" (readRepayCoords): a fire
\* at an obligation with a USDC borrow lands, unless the owner moved during the fire, or the
\* loan has another reserve that nobody refreshed in the slot of the transaction.
RevertsOnlyDisturbedOrStale == last # "reverted"

\* Half of the debt at a time, capped, leads to a debt too small to halve, once the owner
\* is done.  One thing alone can keep the loan as it is: transaction after transaction that
\* finds a reserve of the loan not refreshed.
SaveConverges ==
    \/ <>[](market = "save" => TokenDebt(UsdcReserve) <= 1)
    \/ []<><<Send /\ last' = "stale">>_saveVars
==============================================================================
