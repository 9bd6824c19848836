---------------------------- MODULE VaultProgram ----------------------------
(***************************************************************************)
(* The on-chain holdline-vault program (programs/holdline-vault/src) and   *)
(* the lending market it repays into.                                      *)
(*                                                                         *)
(* A transaction is a sequence of instructions that either all take effect *)
(* or none do.  Each is one of the transaction's own (top-level) or called *)
(* by another program's instruction (CPI).  release_to_keeper reads the    *)
(* top-level instructions of the whole transaction (the Instructions       *)
(* sysvar), so the sequence is fixed when the transaction is submitted;    *)
(* each instruction then executes as a step of its own, and the first one  *)
(* that fails restores the accounts as they were before the transaction.   *)
(*                                                                         *)
(* Left out, because no property depends on them: trigger_ltv_bps (stored, *)
(* never read on chain), last_fire_ts, the PDA bumps, the ProtectFired     *)
(* event, rent, and the addresses of accounts only the market checks.      *)
(***************************************************************************)
EXTENDS Integers, Sequences

CONSTANTS
    Parties,        \* the key pairs that can sign
    NoKeeper,       \* the keeper field of a vault account that does not exist
    Owners,         \* the parties that may create a vault
    Accounts,       \* USDC token accounts of the parties
    HolderOf,       \* HolderOf[a]: the party that is the authority of account a
    Obligations,    \* lending positions
    Reserves,       \* reserves of the lending markets
    UsdcReserves,   \* those whose liquidity mint is USDC
    MarketOf,       \* MarketOf[o]: the market whose program owns obligation o
    MaxU64,         \* the largest token amount (2^64 - 1 in the program)
    MaxInterest,    \* bound: interest that one refresh can add to a debt
    MaxSubmits,     \* bound: transactions submitted in a behaviour
    Transactions,   \* the transactions the parties may submit
    InitialWallet,  \* InitialWallet[a]: USDC in account a at the start
    InitialDebt     \* InitialDebt[o][r]: debt of obligation o to reserve r at the start

\* VaultState.market and Market::from_u8: a u8, of which two values are known.
Kamino == 0
Save == 1
KnownMarkets == {Kamino, Save}
MarketIds == 0 .. 255

\* The vault PDA's seeds are its owner and its obligation; neither ever changes.
Vaults == [owner : Owners, obligation : Obligations]
Amounts == 0 .. MaxU64

VaultState == [keeper : Parties \cup {NoKeeper}, market : MarketIds,
               cap : Amounts, totalRepaid : Nat]

InitIx == [op : {"init_vault"}, vault : Vaults, keeper : Parties,
           cap : Amounts, market : MarketIds]
FundIx == [op : {"fund_reserve"}, vault : Vaults, from : Accounts, amount : Amounts]
ReclaimIx == [op : {"reclaim"}, vault : Vaults, to : Accounts, amount : Amounts]
ReleaseRepayIx == [op : {"release_repay"}, vault : Vaults, amount : Amounts]
ReleaseIx == [op : {"release_to_keeper"}, vault : Vaults, to : Accounts, amount : Amounts]
RefreshIx == [op : {"refresh"}, obligation : Obligations]
RepayIx == [op : {"repay"}, market : KnownMarkets, obligation : Obligations,
            reserve : Reserves, from : Accounts, amount : Amounts]
BorrowIx == [op : {"borrow"}, obligation : Obligations, reserve : UsdcReserves,
             to : Accounts, amount : Amounts]

Instructions == InitIx \cup FundIx \cup ReclaimIx \cup ReleaseRepayIx \cup ReleaseIx
                \cup RefreshIx \cup RepayIx \cup BorrowIx

\* calls: the places of ixs at which it is another program that calls the instruction.
TxType == [ixs : Seq(Instructions), signers : SUBSET Parties, calls : SUBSET Nat]

ASSUME ConstantsAssumption ==
    /\ NoKeeper \notin Parties
    /\ Owners \subseteq Parties
    /\ HolderOf \in [Accounts -> Parties]
    /\ UsdcReserves \subseteq Reserves
    /\ MarketOf \in [Obligations -> KnownMarkets]
    /\ MaxU64 \in Nat
    /\ MaxInterest \in Nat
    /\ MaxSubmits \in Nat
    /\ Transactions \subseteq TxType
    /\ InitialWallet \in [Accounts -> Nat]
    /\ InitialDebt \in [Obligations -> [Reserves -> Nat]]

VARIABLES
    vault,      \* vault[v]: the VaultState account of v
    reserve,    \* reserve[v]: USDC in the reserve token account of v
    wallet,     \* wallet[a]: USDC in token account a
    debt,       \* debt[o][r]: the debt STORED in obligation o for reserve r
    fresh,      \* obligations refreshed since the last repay of the transaction
    tx,         \* the transaction executing, or NoTx
    pc,         \* index of its next instruction
    running,    \* whether a transaction is executing
    before,     \* the accounts as the last committed transaction left them
    paid,       \* history: paid[o], debt of o paid off so far by this transaction
    everPaid,   \* history: everPaid[o], debt of o paid off by the committed ones
    submits     \* number of transactions submitted

accounts == <<vault, reserve, wallet, debt>>
vars == <<vault, reserve, wallet, debt, fresh, tx, pc, running, before, paid,
          everPaid, submits>>

NoTx == [ixs |-> <<>>, signers |-> {}, calls |-> {}]
NothingPaid == [o \in Obligations |-> 0]

Min2(a, b) == IF a <= b THEN a ELSE b

Exists(v) == vault[v].keeper # NoKeeper
Signed(p) == p \in tx.signers
TopLevel(k) == k \notin tx.calls

----------------------------------------------------------------------------
(* release_to_keeper: what the handler demands of the transaction.         *)

IsSelfRelease(ix) == ix.op = "release_to_keeper"

\* Plausible bug: the declared amount of the repay is never compared.
IsBoundRepayOfAnyAmount(ix, v, to, amount) ==
    /\ ix.op = "repay"
    /\ ix.market = vault[v].market
    /\ ix.obligation = v.obligation
    /\ ix.from = to

\* A repay of the bound obligation, from the account that received the release, that
\* declares exactly the released amount and not the "repay all" sentinel.
IsBoundRepay(ix, v, to, amount) ==
    /\ ix.op = "repay"
    /\ ix.market = vault[v].market
    /\ ix.obligation = v.obligation
    /\ ix.from = to
    /\ ix.amount = amount
    /\ ix.amount # MaxU64

\* The releases that the walk over the Instructions sysvar can see.
SeenReleases == {k \in DOMAIN tx.ixs : TopLevel(k) /\ IsSelfRelease(tx.ixs[k])}

\* Plausible bugs: only the releases of the executing one's vault are counted; none is.
OnlyReleaseOfItsVault ==
    \E k \in SeenReleases : {j \in SeenReleases : tx.ixs[j].vault = tx.ixs[pc].vault} = {k}
AnyNumberOfReleases == TRUE

\* self_count: there is one release at the top level of the transaction, whichever vault
\* it is for.  Releases called by other programs are not counted.
OnlyRelease == \E k \in SeenReleases : SeenReleases = {k}

\* The first bound repay at the top level after instruction i.
FirstBoundRepay(i, j) ==
    LET bound == {k \in DOMAIN tx.ixs :
                    /\ k > i
                    /\ TopLevel(k)
                    /\ IsBoundRepay(tx.ixs[k], tx.ixs[i].vault, tx.ixs[i].to,
                                    tx.ixs[i].amount)}
    IN  j \in bound /\ \A k \in bound : j <= k

\* Plausible bugs: the comparison with the debt is forgotten, or is strict.
DebtUnread(v, r, amount) == TRUE
BelowStoredDebt(v, r, amount) == amount < debt[v.obligation][r]

\* The released amount is covered by the debt stored for the reserve that repay names.
WithinStoredDebt(v, r, amount) == amount <= debt[v.obligation][r]

\* Plausible bug: the loop ends without asking whether a repay was found.
EnforceOneRelease(i) ==
    /\ vault[tx.ixs[i].vault].market = MarketOf[tx.ixs[i].vault.obligation]
    /\ OnlyRelease

EnforceBoundRepay(i) ==
    LET ix == tx.ixs[i] IN
    /\ vault[ix.vault].market = MarketOf[ix.vault.obligation]
    /\ OnlyRelease
    /\ \E j \in DOMAIN tx.ixs :
        /\ FirstBoundRepay(i, j)
        /\ WithinStoredDebt(ix.vault, tx.ixs[j].reserve, ix.amount)

----------------------------------------------------------------------------
(* When each instruction succeeds.  One that does not aborts the           *)
(* transaction.                                                            *)

InitOk(ix) ==
    /\ Signed(ix.vault.owner)
    /\ ~Exists(ix.vault)
    /\ ix.market \in KnownMarkets

FundOk(ix) ==
    /\ Exists(ix.vault)
    /\ Signed(ix.vault.owner)
    /\ HolderOf[ix.from] = ix.vault.owner
    /\ ix.amount <= wallet[ix.from]

ReclaimOk(ix) ==
    /\ Exists(ix.vault)
    /\ Signed(ix.vault.owner)
    /\ HolderOf[ix.to] = ix.vault.owner
    /\ ix.amount <= reserve[ix.vault]

\* Plausible bug: the balance of the reserve is taken for granted.
ReleaseOkUnfunded(ix) ==
    /\ Exists(ix.vault)
    /\ Signed(vault[ix.vault].keeper)
    /\ HolderOf[ix.to] = vault[ix.vault].keeper
    /\ ix.amount <= vault[ix.vault].cap
    /\ EnforceBoundRepay(pc)

ReleaseOk(ix) ==
    /\ Exists(ix.vault)
    /\ Signed(vault[ix.vault].keeper)
    /\ HolderOf[ix.to] = vault[ix.vault].keeper
    /\ ix.amount <= vault[ix.vault].cap
    /\ ix.amount <= reserve[ix.vault]
    /\ EnforceBoundRepay(pc)

\* What a repay pulls: the market caps it at the debt (the sentinel repays all of it).
Pulled(ix) == Min2(ix.amount, debt[ix.obligation][ix.reserve])

\* Kamino refuses a repay that is called (CpiDisabled).
RepayOk(ix) ==
    /\ ix.market = MarketOf[ix.obligation]
    /\ ix.market = Kamino => TopLevel(pc)
    /\ ix.reserve \in UsdcReserves
    /\ ix.obligation \in fresh
    /\ ix.amount > 0
    /\ debt[ix.obligation][ix.reserve] > 0
    /\ Signed(HolderOf[ix.from])
    /\ Pulled(ix) <= wallet[ix.from]

BorrowOk(ix) == ix.obligation \in fresh

\* release_repay needs the keeper and the cap and then repays by CPI, which the market
\* refuses (CpiDisabled): whatever its arguments, the instruction fails.
ReleaseRepayOk(ix) ==
    /\ Exists(ix.vault)
    /\ Signed(vault[ix.vault].keeper)
    /\ ix.amount <= vault[ix.vault].cap
    /\ FALSE

Succeeds(ix) ==
    /\ ix.op = "init_vault" => InitOk(ix)
    /\ ix.op = "fund_reserve" => FundOk(ix)
    /\ ix.op = "reclaim" => ReclaimOk(ix)
    /\ ix.op = "release_to_keeper" => ReleaseOk(ix)
    /\ ix.op = "release_repay" => ReleaseRepayOk(ix)
    /\ ix.op = "repay" => RepayOk(ix)
    /\ ix.op = "borrow" => BorrowOk(ix)

----------------------------------------------------------------------------
Init ==
    /\ vault = [v \in Vaults |-> [keeper |-> NoKeeper, market |-> Kamino,
                                  cap |-> 0, totalRepaid |-> 0]]
    /\ reserve = [v \in Vaults |-> 0]
    /\ wallet = InitialWallet
    /\ debt = InitialDebt
    /\ fresh = {}
    /\ tx = NoTx
    /\ pc = 1
    /\ running = FALSE
    /\ before = [vault |-> vault, reserve |-> reserve, wallet |-> wallet, debt |-> debt]
    /\ paid = NothingPaid
    /\ everPaid = [o \in Obligations |-> 0]
    /\ submits = 0

\* A party's transaction reaches the front of the chain.  It starts with no obligation
\* refreshed: a repay needs a refresh of its own transaction.
Submit(t) ==
    /\ ~running
    /\ submits < MaxSubmits
    /\ running' = TRUE
    /\ tx' = t
    /\ submits' = submits + 1
    /\ UNCHANGED <<accounts, fresh, pc, before, paid, everPaid>>

\* The next instruction is an op that succeeds.
Executes(op) ==
    /\ running
    /\ pc \in DOMAIN tx.ixs
    /\ tx.ixs[pc].op = op
    /\ Succeeds(tx.ixs[pc])
    /\ pc' = pc + 1
    /\ UNCHANGED <<tx, running, before, everPaid, submits>>

InitVault ==
    /\ Executes("init_vault")
    /\ LET ix == tx.ixs[pc] IN
        vault' = [vault EXCEPT ![ix.vault] =
                    [keeper |-> ix.keeper, market |-> ix.market,
                     cap |-> ix.cap, totalRepaid |-> 0]]
    /\ UNCHANGED <<reserve, wallet, debt, fresh, paid>>

FundReserve ==
    /\ Executes("fund_reserve")
    /\ LET ix == tx.ixs[pc] IN
        /\ wallet' = [wallet EXCEPT ![ix.from] = @ - ix.amount]
        /\ reserve' = [reserve EXCEPT ![ix.vault] = @ + ix.amount]
    /\ UNCHANGED <<vault, debt, fresh, paid>>

Reclaim ==
    /\ Executes("reclaim")
    /\ LET ix == tx.ixs[pc] IN
        /\ reserve' = [reserve EXCEPT ![ix.vault] = @ - ix.amount]
        /\ wallet' = [wallet EXCEPT ![ix.to] = @ + ix.amount]
    /\ UNCHANGED <<vault, debt, fresh, paid>>

ReleaseToKeeper ==
    /\ Executes("release_to_keeper")
    /\ LET ix == tx.ixs[pc] IN
        /\ reserve' = [reserve EXCEPT ![ix.vault] = @ - ix.amount]
        /\ wallet' = [wallet EXCEPT ![ix.to] = @ + ix.amount]
        /\ vault' = [vault EXCEPT ![ix.vault].totalRepaid = Min2(MaxU64, @ + ix.amount)]
    /\ UNCHANGED <<debt, fresh, paid>>

\* The market's refresh: interest accrues on the debts that exist.
Refresh ==
    /\ Executes("refresh")
    /\ LET o == tx.ixs[pc].obligation IN
        /\ \E interest \in [Reserves -> 0 .. MaxInterest] :
            debt' = [debt EXCEPT ![o] =
                        [r \in Reserves |-> IF debt[o][r] > 0
                                            THEN debt[o][r] + interest[r] ELSE 0]]
        /\ fresh' = fresh \cup {o}
    /\ UNCHANGED <<vault, reserve, wallet, paid>>

\* The market's repay: by anybody, from an account whose holder signs.
Repay ==
    /\ Executes("repay")
    /\ LET ix == tx.ixs[pc]
           o == ix.obligation
       IN
        /\ debt' = [debt EXCEPT ![o][ix.reserve] = @ - Pulled(ix)]
        /\ wallet' = [wallet EXCEPT ![ix.from] = @ - Pulled(ix)]
        /\ paid' = [paid EXCEPT ![o] = @ + Pulled(ix)]
        /\ fresh' = fresh \ {o}
    /\ UNCHANGED <<vault, reserve>>

\* The borrower draws more from the market.
Borrow ==
    /\ Executes("borrow")
    /\ LET ix == tx.ixs[pc]
           o == ix.obligation
       IN
        /\ debt' = [debt EXCEPT ![o][ix.reserve] = @ + ix.amount]
        /\ wallet' = [wallet EXCEPT ![ix.to] = @ + ix.amount]
        /\ fresh' = fresh \ {o}
    /\ UNCHANGED <<vault, reserve, paid>>

Finish ==
    /\ running' = FALSE
    /\ tx' = NoTx
    /\ pc' = 1
    /\ fresh' = {}
    /\ paid' = NothingPaid
    /\ UNCHANGED submits

\* An instruction failed: the transaction has no effect.
Abort ==
    /\ running
    /\ pc \in DOMAIN tx.ixs
    /\ ~Succeeds(tx.ixs[pc])
    /\ Finish
    /\ vault' = before.vault
    /\ reserve' = before.reserve
    /\ wallet' = before.wallet
    /\ debt' = before.debt
    /\ UNCHANGED <<before, everPaid>>

\* Every instruction succeeded.
Complete == running /\ pc \notin DOMAIN tx.ixs

Commit ==
    /\ Complete
    /\ Finish
    /\ everPaid' = [o \in Obligations |-> everPaid[o] + paid[o]]
    /\ before' = [vault |-> vault, reserve |-> reserve, wallet |-> wallet, debt |-> debt]
    /\ UNCHANGED accounts

Next ==
    \/ \E t \in Transactions : Submit(t)
    \/ InitVault
    \/ FundReserve
    \/ Reclaim
    \/ ReleaseToKeeper
    \/ Refresh
    \/ Repay
    \/ Borrow
    \/ Abort
    \/ Commit

Spec == Init /\ [][Next]_vars

----------------------------------------------------------------------------
(* Properties.                                                             *)

\* Every variable has its type: balances and debts are never negative, the program
\* counter stays within one step of the transaction.
TypeOK ==
    /\ vault \in [Vaults -> VaultState]
    /\ reserve \in [Vaults -> Nat]
    /\ wallet \in [Accounts -> Nat]
    /\ debt \in [Obligations -> [Reserves -> Nat]]
    /\ fresh \subseteq Obligations
    /\ tx \in TxType
    /\ pc \in 1 .. Len(tx.ixs) + 1
    /\ running \in BOOLEAN
    /\ before \in [vault : [Vaults -> VaultState], reserve : [Vaults -> Nat],
                   wallet : [Accounts -> Nat], debt : [Obligations -> [Reserves -> Nat]]]
    /\ paid \in [Obligations -> Nat]
    /\ everPaid \in [Obligations -> Nat]
    /\ submits \in 0 .. MaxSubmits

\* release_to_keeper.rs: "structurally impossible to receive vault funds without atomically
\* repaying the bound obligation in the same transaction".  Of a transaction that commits,
\* whatever its instructions and whoever calls them, every single release is within the cap
\* and no more than what the transaction has paid off the obligation of its vault.
EveryReleaseRepays ==
    Complete => \A i \in DOMAIN tx.ixs : IsSelfRelease(tx.ixs[i]) =>
        LET ix == tx.ixs[i] IN
        /\ ix.amount <= vault[ix.vault].cap
        /\ ix.amount <= paid[ix.vault.obligation]

\* No other program calls a release: all of them are what self_count counts, so that no two
\* of them can point at the same repay.  The properties below need it.
Direct == \A k \in DOMAIN tx.ixs : IsSelfRelease(tx.ixs[k]) => TopLevel(k)

\* Custody: when a transaction commits that the owner of a vault did not sign and in which
\* no program calls a release, whatever left the vault's reserve has come off the debt of
\* the vault's own obligation in that same transaction, whatever its other instructions and
\* whichever other vaults they touched.
Custody ==
    Complete /\ Direct => \A v \in Vaults :
        ~Signed(v.owner) => before.reserve[v] <= reserve[v] + paid[v.obligation]

\* The per-fire cap is a per-transaction cap where no program calls a release: without the
\* owner's signature no such transaction takes more than cap_per_fire out of a reserve.
CapPerTransaction ==
    Complete /\ Direct => \A v \in Vaults :
        ~Signed(v.owner) => before.reserve[v] <= reserve[v] + vault[v].cap

\* total_repaid is real: what a transaction in which no program calls a release adds to the
\* total of a vault it has paid off the vault's obligation, although the total is increased
\* before the repay has executed; and an aborted one adds nothing.
TotalRepaidIsReal ==
    /\ Complete /\ Direct => \A v \in Vaults :
        vault[v].totalRepaid <= before.vault[v].totalRepaid + paid[v.obligation]
    /\ ~running => vault = before.vault

\* The shape keeper/src/fire-toplevel.ts builds: release, refresh, repay of the same
\* amount from the account that received it.
HonestFire(t, v, to, r, amount) ==
    /\ t.ixs = << [op |-> "release_to_keeper", vault |-> v, to |-> to, amount |-> amount],
                  [op |-> "refresh", obligation |-> v.obligation],
                  [op |-> "repay", market |-> MarketOf[v.obligation],
                   obligation |-> v.obligation, reserve |-> r, from |-> to,
                   amount |-> amount] >>
    /\ t.calls = {}
    /\ before.vault[v].keeper \in t.signers
    /\ HolderOf[to] = before.vault[v].keeper
    /\ before.vault[v].market = MarketOf[v.obligation]
    /\ r \in UsdcReserves
    /\ amount > 0
    /\ amount < MaxU64

\* The guards are not too strict (scripts/control-hardening.ts, control DH-6b: "a REVERT
\* here is a FINDING"): the keeper's own fire, for no more than the cap, the reserve and
\* the stored debt, never aborts, whatever interest accrues under it.
HonestFireNeverAborts ==
    \A v \in Vaults, to \in Accounts, r \in Reserves :
        \A amount \in 0 .. before.reserve[v] :
            /\ running
            /\ pc \in DOMAIN tx.ixs
            /\ HonestFire(tx, v, to, r, amount)
            /\ amount <= before.vault[v].cap
            /\ amount <= before.debt[v.obligation][r]
            => Succeeds(tx.ixs[pc])

\* The program implements the promise: seen only between transactions, every committed
\* transaction is a settlement to which nobody but its signers has consented, and a direct
\* one if no program calls a release in it.
Promise == INSTANCE ReserveCustody
    WITH held <- before.reserve, repaid <- everPaid, consent <- tx.signers \cap Owners,
         direct <- Direct
ImplementsPromise == Promise!Spec
============================================================================
