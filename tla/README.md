# Holdline in TLA+

Holdline protects a loan in a lending market (Kamino KLend or Save). The owner of the loan
arms a *vault*: an on-chain account with a USDC reserve, bound to one obligation, with a
trigger LTV, a cap per fire and the key of a *keeper*. While the stock market is closed the
keeper polls the loan and, at the trigger, sends one transaction that releases USDC from the
reserve and repays the bound loan with it. The vault program refuses every other use of the
reserve. The app arms vaults and shows the owner what happened.

These modules model the program, the arithmetic, the obligation accounts, the keeper, the app's
status answer, its page, its waitlist, and the scripts that produce the custody evidence. TLC
checks them on small instances; TLAPS proves theorems about every one of them for all values of
the constants: each safety property of a passing run is also a theorem. `PROJECT.json` lists the
runs, the lines each definition translates, the hazards and the findings.

## The system

| part | code | state | operations |
|---|---|---|---|
| vault program | `programs/holdline-vault/src` | `VaultState` and reserve per (owner, obligation) | init_vault, fund_reserve, reclaim, release_to_keeper, release_repay |
| market descriptors | `programs/holdline-vault/src/markets.rs` | none | which instruction is a repay, where it names its accounts, the debt stored in an obligation |
| lending markets | external | obligations | refresh, deposit, withdraw, borrow, repay |
| trigger arithmetic | `core/src` | none | `computeRepayToBuffer`, `isClosed` |
| keeper | `keeper/src` | the ticks under way | poll, load vaults, detect, fire, re-read, record |
| evidence files | `keeper/src/autonomy-log.ts`, `saves-ledger.ts` | keeper-log.jsonl, saves.jsonl, status.json | append, overwrite |
| adapters | `adapters/` | none | debt, collateral, LTV; the market's instructions |
| app, server | `app/src/lib/server`, `app/src/app/api` | waitlist files | status, arm, borrow, repay, evidence, waitlist, demo |
| app, page | `app/src/app/(ui)` | wallet, position, what is shown | search, poll, sign, arm |
| custody proof | `scripts/`, `LieDetector.tsx` | control-hardening.jsonl, its mirror in the app | seed, fire, attack, record, replay |

The parts meet in six places. The keeper's transaction meets the program's guards, and in
between the market's own rules and interest. Program, keeper and scripts each read the bytes of
one obligation. The keeper's ticks meet each other on the chain and in the files. The heartbeat
goes from the keeper to the app, and the custody evidence from the scripts to the panel. The
page asks the routes and signs what they build. The owner acts on the chain at any time.

What is hard: `release_to_keeper` judges a whole transaction before most of it has executed;
ticks overlap, because the interval timer waits for none; a send can fail although its
transaction lands; a crash can fall anywhere; files outlive their writers and are read while
the world moves on; the page's fetches are never cancelled and arrive in any order; and a Save
obligation has no fixed layout, so three reads of it during one fire may find three layouts.

What makes each part correct:

- program: every release is covered by a repay of the bound debt in its transaction; money leaves
  a reserve into that debt or with the owner's signature, within the cap; totals are real; an
  honest fire is not refused.
- arithmetic: the repay restores the buffer, splits under the cap, and the loop ends.
- obligations: every reader finds the debt the market holds.
- keeper: each ledger row is of a real save; a save without a row and a repay beyond the gap have
  a known cause; no vault starves.
- status: down is shown, a shown save is the vault's own, a partial one is not forgotten.
- page: only the connected wallet's search moves it, armed is never premature, and what is shown
  catches up with the chain.
- waitlist: no vanity count, *persisted* is true, a visitor who keeps trying is told *done* and is
  on the list, unless a known fault took the row.
- custody proof: a row says CAUGHT only of a real refusal; a panel is of one run; a leak is loud.

## Modules

| module | models | composes |
|---|---|---|
| `VaultProgram` | the program and the markets it repays into | |
| `ReserveCustody` | what the program promises, without transactions | implemented by `VaultProgram` |
| `VaultProgram_proofs` | seven theorems | `VaultProgram` |
| `Ltv` | `computeRepayToBuffer`, the LTV, `toRepayLamports` | |
| `Ltv_proofs` | three theorems | `Ltv` |
| `ProtectLoop` | one Kamino loan, fired at until nothing is left to do | `Ltv` |
| `ObligationLayout` | the obligation's bytes and all that reads them | |
| `SaveFire` | the fire of a Save vault beside its owner | `ObligationLayout` |
| `Keeper` | the poll loop, its files and crashes, and the chain below it | `Ltv` |
| `Keeper_proofs` | five theorems | `Keeper` |
| `Loops_proofs` | six theorems | `ProtectLoop`, `SaveFire` |
| `ProtectStatus` | GET /api/protect/status beside the keeper | `Keeper` |
| `ProtectStatus_proofs` | three theorems | `ProtectStatus`, `Keeper_proofs` |
| `Dashboard` | the page, the routes it asks and the chain behind them | |
| `Dashboard_proofs` | four theorems | `Dashboard` |
| `Waitlist` | GET and POST /api/waitlist, its two files, the form | |
| `Waitlist_proofs` | three theorems | `Waitlist` |
| `Evidence` | the prove run, its files, their mirror and the panel | |
| `Evidence_proofs` | five theorems | `Evidence` |
| `MCVaultProgram`, `MCLoops`, `MCKeeper`, `MCKeeperTwo`, `MCProtectStatus`, `MCDashboard`, `MCWaitlist`, `MCEvidence` | instances | |

### VaultProgram

A transaction is a sequence of instructions with a set of signers. `Submit` puts it on the
chain, then every instruction is a step; `Abort` restores the accounts, `Commit` keeps them.
That order matters because `release_to_keeper` looks at the whole transaction (the Instructions
sysvar) while only its beginning has executed. Its handler is `ReleaseToKeeper` under
`ReleaseOk`: account constraints, cap, transfer, then `EnforceBoundRepay`, whose conjuncts are
the checks of `enforce_bound_repay` (market owner, one release in the transaction, a later repay
of the bound obligation from the receiving account with exactly the released amount, the amount
within the stored debt of the reserve that repay names). `paid`, `before` and `everPaid` are
history the properties need.

An instruction is one of the transaction's own or is called by another program (`calls` of
`TxType`, the places that are called). The sysvar lists the former only, so `SeenReleases`, which
`self_count` counts, and the bound repay are top-level ones. `self_count == 1` (`OnlyRelease`) says
that one release is listed and does not ask whether it is the executing one. Hence two levels of
what is promised. For EVERY transaction `EveryReleaseRepays` holds: each release is within the cap
and no more than what the transaction has paid off the obligation of its vault. What needs that no
two releases point at one repay, the sums of `Custody`, `CapPerTransaction` and `TotalRepaidIsReal`,
is said of transactions in which no program calls a release (`Direct`), whoever calls their repays.

The markets are modelled by what the code relies on: a repay needs a refresh in the same
transaction, pulls at most the debt, and may be made by anybody from an account whose holder
signs, at Kamino by no calling program (`CpiDisabled`, the reason `release_to_keeper` exists); a
refresh adds interest. `release_repay` repays by CPI, so its instruction always fails.

### Ltv and ProtectLoop

Amounts are base units, `UsdcFactor` of them to a dollar and `Whole` to an LTV of one. The
code computes in dollars with `Math.floor`, so the target is a whole number of dollars, and
compares `cap_per_fire`, which is in base units, with dollars: `ComputeRepayToBuffer` has
`cap * UsdcFactor`. The real cap is applied by `ToRepayLamports`. Floating-point rounding below
a base unit is not modelled.

### ObligationLayout and SaveFire

An account is its length with the keys and numbers written at byte offsets; offsets and strides
are the real ones, only the two fixed-point scales are constants. `PackSave` and `PackKamino`
are what the markets write (external): Save packs borrows behind a varying number of deposits
and leaves stale bytes beyond them, Kamino keeps five slots in place. `ReadDebtSave` and
`ReadDebtKamino` are the program's readers, `ReadReserveDebt` the keeper's through the SDK,
`ReadDebtSavePure` and `OffsetsMatch` those of the scripts' offset gate.

`SaveFire` takes three steps to fetch the obligation (coin, amount, accounts to refresh) and one to
send; the owner deposits, withdraws, borrows, repays and accrues in between. `disturbed` says
whether the owner moved during the fire. The transaction refreshes the repaid reserve and then the
obligation, and Save wants every reserve of the obligation refreshed in the slot: the others are
fresh where somebody else has done it (`others` in `Send`, any set). A loan without a USDC borrow
gets a fire of another coin that reverts: `readRepayCoords` takes the last nonzero borrow, where
its comment says the first. `MCLoops` puts `ProtectLoop` and `SaveFire` side by side: a behaviour
is one of the two.

### Keeper

`Runs` are ticks that can be under way. A tick goes `idle, load, vaults, detect, send, sent,
landed | reverted, reread, measure, log, row` and back to `vaults` for the next vault, in no
fixed order (the account scan promises none). One step is one await, so everything else moves
in between. Each step that calls out has a failing twin; the failing ones go to the next vault
as the `catch` of `tick` does. A tick that gives up on a transaction or dies leaves it among
`orphans`, which land or expire at any time. A transaction is its vault, its amount and the latest
blockhash, and so is its signature: ticks that send the same vault and amount may have sent one
and the same transaction (`Senders`), which the chain executes once and all of them confirm
(`OnChain`; `by` in `saves` and `ledger` is history, the ticks that sent and the tick that wrote).
The world moves prices, clock, debts, reserves and armings; `RepayElsewhere` is a repay by the
owner or anybody else, which `others` adds up. The first tick runs alone (`await run()`), later
ones start whenever the timer fires.

A fire is one step here (`Executes`, `Fired`); `VaultProgram` justifies it: `Custody` says that
what leaves the reserve comes off the debt, `HonestFireNeverAborts` when the transaction succeeds.
The Kamino amount is `Ltv!FireAmount`; the Save amount is half the debt, up to the cap, whatever
the LTV, as in `processSaveVault`. `age` counts poll periods since the last heartbeat.

Left out: the demo clock, the tick lines of the log, failing file writes, half-written files,
mixed debts of one obligation.

### ProtectStatus

A request reads vault account and heartbeat in either order, then the loan, then answers; the
keeper runs on in between. `PartialTick` is the lookup of the vault's tick, with the fallback
to `lastTick`, which never yields a partial of its own. The dashboard is the loop of requests.

### Dashboard

`wallet`, `position`, `market`, `protect` are the component's state, `lookups` its searches for a
wallet's loans, `reads` the fetches under way, `jobs` the transactions being built and signed,
`sent` those the chain has not decided on. An event handler and the effects React runs for it are
one step (`Connect` is the wallet's change with the discovery effect and the cleanup of the one
before it). A fetch may be answered with any state the chain has had since it was asked
(`views`), at any time, after any other one; only the search has a `cancelled` flag (`live`).

The routes are what they do: market and status answer the chain's state, the arm route builds
for the obligation named in the request, the borrow and repay routes for the loan the SDK finds
for the wallet (`UserLoan`), whatever the page shows. Debts are in base units, `Dollar` of them to
a dollar; the cards compare the dollars typed with the headroom shown, and the routes hand the
number typed to builders that take base units, so `n` typed is a transaction over `n` base units
(`BorrowTx`, `Land`). `Drop` is a transaction that expires or is refused: `onDone` does not wait for
it. Left out: texts, typed fractions of a dollar, the number of polls in a burst, the liveness strip.

### Waitlist

A POST reads both stores in either order, then answers a duplicate or appends to the primary
store, else to the fallback (`/tmp`), else nowhere; the answer is the same in all cases but for
`persisted`. A line is parsed or skipped; `torn` is a last line without its end, with which the
next append is lost. Browsers lose connections, in which case the handler goes on; a page reloads
and counts anew. When the server dies its requests go with it, a part of a line may remain, and
the next instance may have another `/tmp`. `lapsed` is history: the addresses that have no row
because a signup was recorded nowhere, was glued to a torn line, or was in a `/tmp` that is gone.

### Evidence

`job` is the run of `prove-offline.sh` under way: fund, load, seed, fire, append the save, reset
the control rows, then the controls of the market one by one (`SendControl`, `Emit`) and the green
row. `set -e` is `CommandFails`, ^C is `Interrupt`. The program under test is the build that is
there: `holes` are the controls it fails to stop, and what they send is in `VaultProgram`. An app
is built (`SyncEvidence`) at any moment of it, a keeper from the same checkout may append to the
same ledger, and a panel loads what was bundled.

## Runs

Passing runs:

| run | instance | states | question |
|---|---|---|---|
| custody | two owners' vaults on one Kamino loan, a Save vault; bodies of one to three pieces out of releases and repays, the last release perhaps called by a program; armings, with any market id on Save; reclaims, borrows; 4 submissions | 759,655 | is every release covered; without called releases, can any composition break custody, cap, totals or the abstract promise; are the guards too strict for an honest fire |
| loops | every debt up to 12 and collateral up to 14 base units, 4 caps, 2 buffers, 4 triggers; Save and Kamino accounts of up to two deposits and two borrows, 4 moves of the owner, any set of fresh reserves | 57,580 | is the amount right, do all readers agree, do both kinds of fire end |
| keeper_ledger | one vault, two overlapping ticks, a move of the world, a failed call, a crash | 2,085,117 | is every ledger row earned and every missing row explained |
| keeper_protects | two Kamino vaults, one unreadable, overlapping ticks, two moves, a failed call | 555,511 | is every coverable vault protected; what does a repay beyond the buffer take |
| status | two vaults, one without a reserve, a crash | 179,564 | is a shown save the vault's own, is a keeper that is down shown offline |
| dashboard | two wallets with a loan each, two events, a click, a move of the chain | 388,682 | is the page right whatever overlaps, and does it catch up |
| waitlist | two browsers, an address in two spellings, another, an invalid one, a fault, a death | 682,790 | are count and *persisted* true, is everybody told, and on the list but for a known fault |
| evidence | two prove runs of either market, a sound and a broken build, a failure, a foreign save | 2,125,753 | does the panel show only what was proved |

Bounds. Two vaults on one obligation and transactions of three pieces are the least that lets two
releases claim one repay, and leave room for a third piece to pay for the surplus; all deeper cases
are covered by the proofs, which have no bound. The release that is called is the last of several,
since every order of them is there, or the one of a body of one piece; a repay of all there is (the
sentinel) has at most one piece beside it. The proofs let any be called. On Save two deposits and
two borrows are the least with which a borrow changes both its base and its index; four moves build
such an account and one more disturbs a fire. Scales of 3 and 4 fractions give every remainder of a
division. In the keeper an LTV of one is 10 units, the trigger 7, the buffer 6: the loan starts at
8 and needs one or two fires. One failed call and one crash can hit any step, two ticks suffice for
every overlap of two fires, and each move can be a price, the clock, a borrow, a repay, a reserve
or an arming. `StaleAfter` is 1 where the code has 3 poll periods: only fresh and stale are told
apart. `MaxU64` is 5, above every amount used, and is itself the sentinel.

On the page two events are a connect with a switch, a disconnect or a load by hand behind it,
all that an answer under way can be late for; a timer that asks again while an answer is still
out waits (`MaxReads`), event handlers never do. The proofs carry its safety to any number of
events, clicks and reads. In the waitlist two requests for one address race in both spellings (a
reload leaves the first one running); one death tears one line and a second append follows it.
Two prove runs are the least for rows of two runs to meet.

CHECK_DEADLOCK is off where behaviours end: in custody once `MaxSubmits` transactions are done, in
loops when no fire and no move is left, on the page when a position without owner has nothing to
poll, in the waitlist when everybody has been told *done*.

### Findings

Four runs state what the documentation says, and TLC finds it violated.

- **reserve_gap** (`RepaysWhatItCan`): "If the funded reserve is smaller than the gap, the repay
  is partial" (README.md:193). The keeper never reads the reserve: with a gap of 2, a cap of 3 and
  a reserve of 1 every fire reverts, and the rest of the reserve is never used.
- **overlap** (`NeverBeyondTheBuffer`): "a single protective repay" (README.md:36). Two overlapping
  ticks repay the same gap twice. `OverRepayTakesTwo` (keeper_protects) shows that, but for what
  others repay of the loan meanwhile, nothing else does that than a second save of the same loan
  between decision and landing.
- **save_market** (`FiresOnlyAtRisk`): "signs nothing unless the market is closed and your LTV has
  crossed the trigger" (README.md:44). Save vaults fire without an LTV.
- **partial_forgotten** (`PartialStaysLoud`): "never silently marked safe" (README.md:193). The first
  tick after a partial save that throws erases it, and the owner is told that the save was full.

Met while modelling, without a run of their own:

- program: `self_count` and the bound repay are looked for among the top-level instructions, where
  `release_to_keeper.rs:119` says the walk is over "the WHOLE tx" and counts "exactly one (this one)".
  The properties say which of them hold for called releases and which are for top-level ones.
- keeper: two ticks that overlap with one blockhash, vault and amount send one transaction, both
  confirm it and both append a row; `saves-ledger.ts:4` has "counting rows counts real saves".
  `LedgerIsEarned` therefore is one row for each tick that sent the save, and `MissingRowsHaveACause`
  counts saves without a row instead of comparing totals. A repay by the owner between decision
  and landing leaves the debt below the target by as much, as nothing on the way reads it again.
- keeper: a trigger at or below the buffer is accepted and holds for ever in between (`Protects`
  and `Converges` assume the opposite); a save whose re-read fails has no ledger row
  (`MissingRowsHaveACause` counts it); two owners with vaults on one obligation see each other's
  partial, because ticks carry the obligation only (`ShownSaveHappened` is checked and proved for
  a loan to each vault, `ShownSavesAreOfTheLoan` is what remains without that).
- obligations: `buildSaveRepayIxs` (txns.ts:33-46) refreshes the repaid reserve alone, so a loan with
  a deposit or borrow in another reserve needs somebody else's refresh in the same slot, and its
  fires revert without it (`RevertsOnlyDisturbedOrStale`, `SaveConverges`).
- obligations: `readRepayCoords` takes the last nonzero borrow where its comment says the first;
  `save-seed-fork.ts --capture` takes the first one, and the keeper prefers USDC; the comment at
  markets.rs:161 says that shifting by 60 reads a debt too large, but 2^60 > 10^18 makes it smaller.
- page: `market` and `protect` of the last position stay until the next answers, and an old
  *Armed* can stand beside a new position for that long; a switch to a wallet without loans leaves
  the first wallet's position, and arming then makes a vault of the second wallet for it;
  `discovering` stays on after a disconnect during a search; failed polls say nothing; a position
  without owner is never polled; the dollars typed in the borrow and repay cards reach
  `buildBorrow` and `buildUserRepay` unchanged, where `seed-demo.ts:66` multiplies by `USDC_FACTOR`
  before the same builder; *Borrowed* and *Repaid* are shown when sent; the trigger is
  checked against the liquidation LTV of the loan shown.
- waitlist: a duplicate is answered `persisted: true` wherever its row is; a signup whose two
  appends failed is answered, and shown, like any other, and so is one glued to a torn line
  (`lapsed` in `JoinsInTheEnd`); a mount's GET that answers after a POST takes its count back.
- custody proof: ALL CAUGHT is said of the rows there are, also when a run stopped early.

## Fairness

Safety is checked without fairness in keeper_ledger, custody and evidence. `Keeper!FairSpec` has
weak fairness of each tick's own steps (every call returns or throws; a call that never returns has
no timeout in the code, and would stop a tick for good), of the timer while the process is up, and
of time. Nothing makes a crashed keeper restart, no failure and no move of the world is fair.
`Progress` of a tick includes all its successful steps, so a failing call is never forced, and
failures are bounded. `FairStatusSpec` adds a dashboard that asks about every vault again and
again (its 30 s timer) and gets its answers.

`Protects` is `[]<>~(Exposed /\ Covered)`: being exposed forever with a sufficient reserve is
what may not happen; a finite exposure between two polls is the design. It assumes a trigger
above the buffer and needs nothing of the other vaults, one of which throws on every tick.

In loops, `Fire` and `KeeperStep` are weakly fair: the keeper polls on, the owner need not move.
Nobody is bound to refresh the other reserves of a Save loan, so `SaveConverges` has the way out that
transactions find a stale one for ever, and no other.

On the page the timer is weakly fair, every read ends (in an answer or an error), and a market or
status read of the position that is tried again and again is answered sometimes (strong fairness
of `Receive`): the routes may fail as often as they like, but not always. Neither wallet, clicks
nor the chain are fair. In the waitlist requests are served (weak), and a visitor who has not
joined tries again with a valid address (strong, since a request under way blocks the button);
faults and deaths are bounded.

## Proofs

`VaultProgram_proofs` proves, from `ConstantsAssumption` alone, for any number of owners,
obligations, reserves and transactions of any length:

- `TypeCorrect`: `TypeOK` is inductive with the facts that amounts are naturals and that debits
  are guarded.
- `ReleasesRepay`, `ReserveCustody`, `CapHolds`, `TotalsAreReal`: between a release and its bound
  repay the keeper holds reserve money, so `Custody`, which speaks of the end of a transaction, is
  not inductive. `CustodyInv` is: (1) every executed release, called or not, is *covered*: it is
  within the cap and has a later top-level repay of the same amount; until that repay executes,
  what has been paid off the obligation plus the debt left in the named reserve is at least the
  amount, afterwards what has been paid is; (2) without the owner's signature a reserve is down
  only with an executed release, and in a `Direct` transaction by no more than that one; (3) in a
  `Direct` transaction `totalRepaid` is ahead of the last commit by no more than the executed
  release. Coverage starts with the check against the stored debt; interest adds to the debt, and
  an earlier repay moves debt to paid, so both keep it. (1) alone gives `ReleasesRepay`, without a
  hypothesis on who calls. `Direct` makes the one listed release the only one (`OneRelease`), which
  lets one `paid` account for all vaults; that the amount is exact and not the sentinel makes what
  is pulled cover what was released.
- `ProgramKeepsPromise`: `VaultProgram` implements `ReserveCustody` under `held <- before.reserve,
  repaid <- everPaid, consent <- tx.signers \cap Owners, direct <- Direct`. `Submit` asks for the
  signers' consent, `Commit` is a settlement under exactly that consent, an abort lets it lapse,
  every other step is a stutter. It says more than `Custody`: in a direct settlement two vaults on
  one obligation never both count the same repayment, which is what `self_count` over all vaults
  is for; and in any settlement a vault gives up nothing while its obligation is not paid down.
- `HonestFireLands`: the transaction that `fire-toplevel.ts` builds never aborts within cap,
  reserve and stored debt. The invariant describes the state after each of its three instructions.

`Ltv_proofs`, from `LtvAssumption`: `FireIsBounded` (a fire is at most cap and debt, happens only at
the trigger, and never goes below the target), `FireRestoresBuffer` (one that the cap does not
cut leaves the loan within the buffer) and `FireMakesProgress` (with a trigger above the buffer, a
loan at its trigger gets a fire that is not zero, also when rounding to basis points has lifted it
there).

`Loops_proofs`, about the behaviours of `MCLoops` (either loan), from `LoopAssumption`,
`LtvAssumption` and `SaveAssumption`:

- `AmountIsRight`: `AmountRestoresBuffer` compares the code's arithmetic with the highest level of
  debt that is safe, found by search. The proof shows that the floor of the target is that level.
- `FiresAddUp`: after each fire the debt is down by a cap for every fire, or at the target with the
  last one. `LoopInv` is this with the types; it is inductive because a fire is only made above the
  target. With `FireMakesProgress` this is the whole of `Converges` but for its fairness: at most
  as many fires as the gap holds caps, and one more for a rest.
- `ReadersAlwaysAgree`: `DataInv` says of an account what the market's packing promises, at each
  offset a reader looks at (`SavePacked`, `KaminoPacked`), and nothing of the stale bytes behind.
  That two fields of one account never share an offset is arithmetic over the strides, and the
  whole difficulty: 88 and 112 bytes, or five slots of 200, for any number of entries. The
  scaling by WAD and 2^60 is undone by the readers only up to the rounding, which is the same in
  all of them.
- `SaveTypeCorrect`, `FreshFiresLand`, `MarketTakesAll`: `FireInv` says that a fire at a USDC
  borrow that its owner did not disturb still knows the loan as it is: the borrow is there, the
  accounts to refresh are those of the loan, the amount is within the debt. So only a stale reserve
  can revert it. Of one that was
  disturbed nothing is known but its type: what it releases is taken, or all of it is undone.

`SaveAssumption` says that the account has room for the deposits and borrows the bounds allow. The
code has the same limit (an obligation of Save is 1300 bytes long), and packing beyond it would
be no account.

`Keeper_proofs`, from `KeeperAssumption` and `LtvAssumption`, for any vaults and loans, any finite
number of ticks under way and any bound on failures, crashes and moves. Every step of a tick is one
of three kinds (it leaves the vault, ends the tick, or goes on), and each invariant is shown for
the three, for the landing of a transaction (of its ticks at once, `OnChain`), for the transactions
without a tick and for the world:

- `TypeCorrect`: `TypeInv` adds that a tick which is busy is busy with a vault.
- `LedgerRowsAreSaves`: `LedgerIsEarned` is not inductive, because a row is written long after its
  save landed. `LedgerInv` says that each tick between landing and row holds a landed save of its
  own vault and amount which it sent, and of which the ledger has no row by this tick yet. Rows by
  other ticks there may be: they sent the same transaction.
- `BeyondTakesTwo`: `AimInv` says of every repay that is decided and has not landed, of a tick or
  abandoned, that it leaves its target, but for what others have repaid since it was decided,
  unless a save of the same loan has landed since. `FireIsBounded` gives it at the decision; a debt
  goes down only by a save or by what `others` counts.
- `RepaysOnceOneAtATime`: the documented "single protective repay" (`NeverBeyondTheBuffer`, which
  the run overlap refutes, and which leaves out what others repay) holds if ticks take turns, no
  call fails and nothing crashes: then nothing has landed since a repay in flight was decided
  (`AloneInv`). Each of the three is needed: with two ticks, with one failed call or with one crash,
  TLC finds a second repay of the same gap.
- `RowsAreAccountedFor`: `CountInv` counts an abandoned transaction as lost when it is abandoned,
  with the failed call or the crash that pays for it; its landing then changes nothing in the sum.

`ProtectStatus_proofs` adds the app to the keeper:

- `StatusLeavesKeeper`: `StatusSpec => Spec`. The app only reads, so the theorems above hold with it.
- `ShownSavesHappened`: what is shown came through the tick, the heartbeat, the request and the
  answer, each of which outlives the one before. `ToldInv` says of each that a partial it holds is
  of a save of that loan, and that a `repaid` held is of a save of that vault. Its hypothesis, that
  no two vaults share an obligation, is the one the lookup by obligation (route.ts:68) makes: the
  program allows two owners to bind one. `ShownSavesAreOfTheLoan` needs no hypothesis and keeps
  what is then left: "full" is of the vault itself, "partial" of some vault of its loan.

`Dashboard_proofs`, from `DashboardAssumption`, without any of the run's bounds:

- `TypeCorrect`: a job, a transaction and a search always have a loan or a wallet they are for, and
  no debt goes below zero. `TypeOK` is inductive as it stands.
- `NoLoanWithoutWallet`, `SearchFollowsWallet`: `SearchInv` says that every search which is live is
  for the wallet now connected. The cleanup cancels all others at each change of the wallet, so
  whatever order answers come in, the one that moves the page is its own. The second theorem is an
  action property: from `SearchInv` before the step.
- `ArmedIsNeverPremature`: vaults only grow, so an answer that says armed stays right however late
  it is; `ReadsInv` says so of the answers under way and of the one shown.

`Waitlist_proofs`, from `WaitlistAssumption`, for any number of browsers, requests, addresses, faults
and deaths. `ListInv` has a part for the pages, the requests, the files and the bounds:

- `CountStaysReal`: no count is beyond the addresses posted. A request answers with what it read
  some steps ago, plus one for a row it is about to write. `Sound` therefore says of a request that
  the rows it saw are of posted addresses, that one about to append did not see its own address,
  which is posted too, and that its count is at most the number posted. Addresses are only ever
  added, so an old read stays sound.
- `PersistedStaysDurable`: every row lost from the durable file is matched by a line that a death
  left unfinished. The step to see is the append behind a torn line, which loses its row and
  mends the line: what is lost grows by one and the torn line is one less.
- `TypeCorrect`: that a request in a step has what the step reads, and `LapsedInv`, that only
  addresses lapse.

`Evidence_proofs`, from `EvidenceAssumption`, for any number of prove runs, builds and failures:

- `PanelIsOfOneRun`, `CaughtIsReal`: `EvidenceInv` says that the rows of the file, of the mirror and
  of the panel are each of one run and each backed by an outcome; that once a run has reset the
  file its rows are its own; and that between `SendControl` and `Emit` the outcome held is the one
  on record. It is inductive because a run's first write to the file is its reset.
- `TypeCorrect`: the file has at most the rows of one run: while a run sends its controls, the rows
  written and the controls left are together no more (`JobInv`).
- `GreenIsReal`: `GreenInv` says that a run past its save has a save of its market in the ledger
  after the place where the run began, which is the place its green row is compared with.
- `LeaksAreLoud`: `LeakInv` says that a divert which was let through is being told, or is the last
  row of a run that has ended, or the run was broken off. Three modules of the code share the
  work here: the control that throws on it, `set -e`, and the panel's count.

Only model-checked: liveness under fairness (`Converges`, `SaveConverges`, `Protects`, `DownIsShown`,
`PageCatchesUp`, `JoinsInTheEnd`), which with ENABLED is out of the prover's reach. Nothing here is
by induction over data, and no module has a RECURSIVE operator. The four findings are
counterexamples and need no proof.

## Plan

Done: the program, the arithmetic, the obligation accounts, both fires, the keeper, the status
answer, the page, the waitlist, the custody proof, and the theorems about each. What is left, in
this order:

1. `Keeper` against an abstract protector: each landed fire is one of at most the cap, within the
   reserve, of a vault that exists.
2. Heartbeat files read while they are written; failing file writes; an older tick that ends late.
3. A loan with two debts: the amount is of both, the repay of one.

## Not modelled

- The evidence and liveness views (`api/protect/keeper-status`, `api/keeper/status`): they read
  files and format them. What they read is modelled by its writers.
- Of the scripts: `verify-claims.ts` (texts), `overnight-gaps.ts` (figures of past prices),
  `capture-fixtures.ts`, `discover-clone-accounts.ts` and `find-live-obligation.ts` (they copy or
  look up mainnet accounts), the fork boot, `seed-demo.ts` and `reclaim-fork.ts` (sequences of calls
  modelled elsewhere). Also the design tools, the vendored SDK and IDL copies, generated files.
- Of the program: account rent, the event, `last_fire_ts`. Of the markets: liquidation, collateral
  limits beyond a debt ceiling, prices inside a transaction.
- Of the page: the landing and proof pages, layout, texts.

## Running

    tlc -config VaultProgram_custody.cfg MCVaultProgram
    tlapm VaultProgram_proofs.tla

and likewise for the other pairs of `PROJECT.json`.
