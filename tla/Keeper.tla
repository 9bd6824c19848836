------------------------------- MODULE Keeper -------------------------------
(***************************************************************************)
(* The unattended poll loop (keeper/src): every poll period a tick loads   *)
(* the armed vaults and, one vault after the other, reads the loan,        *)
(* decides, sends the atomic release-and-repay, waits for its              *)
(* confirmation, reads the loan again and records the save; at the end it  *)
(* writes the heartbeat.                                                   *)
(*                                                                         *)
(* setInterval does not wait for the previous tick, so ticks overlap: each *)
(* element of Runs is a tick that can be under way.  Every await is a step *)
(* of its own, during which prices, the clock, owners, other ticks and the *)
(* transactions of ticks that gave up go on.                               *)
(*                                                                         *)
(* The transaction itself is one step here: module VaultProgram models it, *)
(* and HonestFireNeverAborts there says when it succeeds.  Left out: the   *)
(* demo clock of evalNow, the tick lines of keeper-log.jsonl and the       *)
(* figures of a tick that nothing reads back.                              *)
(***************************************************************************)
EXTENDS Ltv, Sequences, FiniteSets

CONSTANTS
    Vaults,
    Obligations,
    ObligationOf,       \* ObligationOf[v]: the obligation v is bound to
    MarketOf,           \* MarketOf[v]: Kamino or Save
    Trigger,            \* Trigger[v]: trigger_ltv_bps
    Cap,                \* Cap[v]: cap_per_fire
    SafeBuffer,         \* SAFE_BUFFER_BPS
    Broken,             \* obligations whose account cannot be read
    Runs,               \* bound: ticks that can be under way at once
    StaleAfter,         \* poll periods after which a heartbeat is stale
    InitiallyArmed,     \* vaults that exist at the start
    InitialDebt,
    InitialCollateral,
    InitialReserve,
    Collaterals,        \* values a collateral can move to
    MaxMoves,           \* bound: moves of prices, clock, owners and other repayers
    MaxFailures,        \* bound: RPC calls that fail
    MaxCrashes          \* bound: crashes of the keeper process

Kamino == 0
Save == 1

ASSUME KeeperAssumption ==
    /\ ObligationOf \in [Vaults -> Obligations]
    /\ MarketOf \in [Vaults -> {Kamino, Save}]
    /\ Trigger \in [Vaults -> Nat]
    /\ Cap \in [Vaults -> Nat]
    /\ SafeBuffer \in Nat
    /\ Broken \subseteq Obligations
    /\ IsFiniteSet(Runs)
    /\ StaleAfter \in Nat
    /\ InitiallyArmed \subseteq Vaults
    /\ InitialDebt \in [Obligations -> Nat]
    /\ InitialCollateral \in [Obligations -> Nat \ {0}]
    /\ InitialReserve \in [Vaults -> Nat]
    /\ Collaterals \subseteq Nat \ {0}
    /\ MaxMoves \in Nat
    /\ MaxFailures \in Nat
    /\ MaxCrashes \in Nat

VARIABLES
    debt,           \* debt[o], on chain
    collateral,     \* collateral[o], at the current price
    reserve,        \* reserve[v], on chain
    armed,          \* the vaults that exist
    saves,          \* the release-and-repay transactions that landed, in order
    others,         \* history: others[o], what others than the keeper have repaid of o
    orphans,        \* transactions in flight whose tick no longer waits for them
    closed,         \* isClosed(now): it is the weekend
    up,             \* whether the keeper process runs
    booted,         \* whether its first tick is over and the interval timer set
    run,            \* run[r]: the tick r
    fireLog,        \* the fire lines of keeper-log.jsonl
    ledger,         \* the rows of saves.jsonl
    heartbeat,      \* keeper/status.json: the outcomes of a tick, in order
    age,            \* poll periods since the heartbeat was written
    moves, failures, crashes

chain == <<debt, reserve, saves>>
world == <<collateral, armed, closed, moves, others>>
evidence == <<fireLog, ledger, heartbeat>>
process == <<up, booted, crashes>>
vars == <<chain, world, orphans, process, run, evidence, age, failures>>

NoVault == "none"
NoHeartbeat == [written |-> FALSE, ticks |-> <<>>]

\* A tick that is not under way, and one that is between two vaults.
Idle == [pc |-> "idle", todo |-> {}, vault |-> NoVault, amount |-> 0, target |-> 0,
         seen |-> 0, others |-> 0, ltv |-> 0, partial |-> FALSE, sig |-> 0, ticks |-> <<>>]
Between(todo, ticks) == [Idle EXCEPT !.pc = "vaults", !.todo = todo, !.ticks = ticks]

\* A HeartbeatTick.
Outcome(v, fired, partial) ==
    [obligation |-> ObligationOf[v], fired |-> fired, partial |-> partial]

----------------------------------------------------------------------------
(* What the keeper reads and decides.                                      *)

LtvNow(v) == LtvOf(debt[ObligationOf[v]], collateral[ObligationOf[v]])
AtRisk(v) == LtvNow(v) >= Trigger[v]
Readable(v) == ObligationOf[v] \notin Broken

\* Plausible bug: the buffer is forgotten, the cap alone bounds the repay.
KaminoRepayToCap(v) == IF AtRisk(v) THEN Min2(Cap[v], debt[ObligationOf[v]]) ELSE 0

\* detect: the least amount to the safe buffer, and nothing below the trigger.
KaminoRepay(v) == FireAmount(Trigger[v], Cap[v], SafeBuffer, debt[ObligationOf[v]],
                             collateral[ObligationOf[v]])

\* processSaveVault: half the debt, whatever the LTV.
SaveRepay(v) == Min2(debt[ObligationOf[v]] \div 2, Cap[v])

Target(v) == IF MarketOf[v] = Kamino THEN TargetDebt(collateral[ObligationOf[v]], SafeBuffer)
             ELSE 0

Repay(v) == IF MarketOf[v] = Kamino THEN KaminoRepay(v) ELSE SaveRepay(v)

\* A Save loan too small to halve: toRepayLamports is 0 and the fire throws.
TooSmall(v) == MarketOf[v] = Save /\ debt[ObligationOf[v]] > 0 /\ SaveRepay(v) = 0

\* readRepayCoords throws when the Save obligation has no borrow left; one whose borrow is
\* there but rounds to 0 is held.
NoSaveBorrow(v) == MarketOf[v] = Save /\ debt[ObligationOf[v]] = 0

ReadThrows(v) == ~Readable(v) \/ TooSmall(v) \/ NoSaveBorrow(v)

\* Plausible bug: the balance of the reserve is taken for granted.
ExecutesUnfunded(v, amount) ==
    /\ amount <= Cap[v]
    /\ amount <= debt[ObligationOf[v]]

\* release_to_keeper and the market's repay, in one transaction.
Executes(v, amount) ==
    /\ amount <= Cap[v]
    /\ amount <= reserve[v]
    /\ amount <= debt[ObligationOf[v]]

\* target, seen, others and by are history: the debt this save was meant to leave, the
\* number of saves that had landed and what others had repaid when it was decided, and the
\* ticks that sent it and wait for it.
Fired(x, by) ==
    /\ debt' = [debt EXCEPT ![ObligationOf[x.vault]] = @ - x.amount]
    /\ reserve' = [reserve EXCEPT ![x.vault] = @ - x.amount]
    /\ saves' = Append(saves, [vault |-> x.vault, amount |-> x.amount, target |-> x.target,
                               seen |-> x.seen, others |-> x.others, by |-> by])

----------------------------------------------------------------------------
Init ==
    /\ debt = InitialDebt
    /\ collateral = InitialCollateral
    /\ reserve = InitialReserve
    /\ armed = InitiallyArmed
    /\ saves = <<>>
    /\ others = [o \in Obligations |-> 0]
    /\ orphans = {}
    /\ closed = TRUE
    /\ up = TRUE
    /\ booted = FALSE
    /\ run = [r \in Runs |-> Idle]
    /\ fireLog = <<>>
    /\ ledger = <<>>
    /\ heartbeat = NoHeartbeat
    /\ age = 0
    /\ moves = 0
    /\ failures = 0
    /\ crashes = 0

----------------------------------------------------------------------------
(* One tick.                                                               *)

Older == Min2(age + 1, StaleAfter + 1)

\* The boot, or the interval timer.
Poll(r) ==
    /\ up
    /\ run[r].pc = "idle"
    /\ booted \/ \A q \in Runs : run[q].pc = "idle"
    /\ run' = [run EXCEPT ![r].pc = "load"]
    /\ age' = Older
    /\ UNCHANGED <<chain, world, orphans, process, evidence, failures>>

\* A poll period during which the timer starts nothing.
TimePasses ==
    /\ ~up \/ ~booted \/ \A r \in Runs : run[r].pc # "idle"
    /\ age' = Older
    /\ UNCHANGED <<chain, world, orphans, process, run, evidence, failures>>

\* writeHeartbeat, which ends the tick.
Beat(r, ticks) ==
    /\ heartbeat' = [written |-> TRUE, ticks |-> ticks]
    /\ age' = 0
    /\ booted' = TRUE
    /\ run' = [run EXCEPT ![r] = Idle]
    /\ UNCHANGED <<chain, world, orphans, up, crashes, fireLog, ledger>>

Load(r) ==
    /\ run[r].pc = "load"
    /\ armed # {}
    /\ run' = [run EXCEPT ![r] = Between(armed, <<>>)]
    /\ UNCHANGED <<chain, world, orphans, process, evidence, age, failures>>

LoadNone(r) ==
    /\ run[r].pc = "load"
    /\ armed = {}
    /\ Beat(r, <<>>)
    /\ UNCHANGED failures

LoadFails(r) ==
    /\ run[r].pc = "load"
    /\ failures < MaxFailures
    /\ failures' = failures + 1
    /\ Beat(r, <<>>)

\* The scan returns the vaults in no particular order.
Visiting(r, v) == run[r].pc = "vaults" /\ v \in run[r].todo

\* Plausible bug: the error of one vault ends the tick.
EndTickOnError(r, v, ticks) ==
    /\ run' = [run EXCEPT ![r] = IF ticks = <<>> THEN Between({}, run[r].ticks)
                                 ELSE Between(run[r].todo \ {v}, run[r].ticks \o ticks)]
    /\ UNCHANGED <<world, process, age>>

\* On to the next vault.  One that threw contributes no outcome.
Leave(r, v, ticks) ==
    /\ run' = [run EXCEPT ![r] = Between(run[r].todo \ {v}, run[r].ticks \o ticks)]
    /\ UNCHANGED <<world, process, age>>

SkipOpen(r, v) ==
    /\ Visiting(r, v)
    /\ ~closed
    /\ Leave(r, v, <<Outcome(v, FALSE, FALSE)>>)
    /\ UNCHANGED <<chain, orphans, evidence, failures>>

\* The market is closed: on to read the loan.
SeeClosed(r, v) ==
    /\ Visiting(r, v)
    /\ closed
    /\ run' = [run EXCEPT ![r].pc = "detect", ![r].todo = @ \ {v}, ![r].vault = v]
    /\ UNCHANGED <<chain, world, orphans, process, evidence, age, failures>>

\* A Kamino vault loads the market before it looks at the clock.
LoadMarketFails(r, v) ==
    /\ Visiting(r, v)
    /\ MarketOf[v] = Kamino
    /\ failures < MaxFailures
    /\ failures' = failures + 1
    /\ Leave(r, v, <<>>)
    /\ UNCHANGED <<chain, orphans, evidence>>

Detecting(r, v) == run[r].pc = "detect" /\ run[r].vault = v

Hold(r, v) ==
    /\ Detecting(r, v)
    /\ Readable(v)
    /\ Repay(v) = 0
    /\ ~TooSmall(v)
    /\ Leave(r, v, <<Outcome(v, FALSE, FALSE)>>)
    /\ UNCHANGED <<chain, orphans, evidence, failures>>

Decide(r, v) ==
    /\ Detecting(r, v)
    /\ Readable(v)
    /\ Repay(v) > 0
    /\ run' = [run EXCEPT ![r].pc = "send", ![r].amount = Repay(v), ![r].target = Target(v),
                          ![r].seen = Len(saves), ![r].others = others[ObligationOf[v]],
                          ![r].ltv = IF MarketOf[v] = Kamino THEN LtvNow(v) ELSE 0]
    /\ UNCHANGED <<chain, world, orphans, process, evidence, age, failures>>

\* The read throws for a reason that will not go away.
Unreadable(r, v) ==
    /\ Detecting(r, v)
    /\ ReadThrows(v)
    /\ Leave(r, v, <<>>)
    /\ UNCHANGED <<chain, orphans, evidence, failures>>

ReadFails(r, v) ==
    /\ Detecting(r, v)
    /\ failures < MaxFailures
    /\ failures' = failures + 1
    /\ Leave(r, v, <<>>)
    /\ UNCHANGED <<chain, orphans, evidence>>

\* The latest blockhash is taken and the transaction signed and sent.
Send(r) ==
    /\ run[r].pc = "send"
    /\ run' = [run EXCEPT ![r].pc = "sent"]
    /\ UNCHANGED <<chain, world, orphans, process, evidence, age, failures>>

SendFails(r) ==
    /\ run[r].pc = "send"
    /\ failures < MaxFailures
    /\ failures' = failures + 1
    /\ Leave(r, run[r].vault, <<>>)
    /\ UNCHANGED <<chain, orphans, evidence>>

\* The ticks that may have sent this very transaction: it consists of the vault, the amount
\* and the latest blockhash, and so does its signature.
Senders(x) == {r \in Runs : /\ run[r].pc = "sent"
                            /\ run[r].vault = x.vault
                            /\ run[r].amount = x.amount}

\* The chain executes a transaction once, and all who sent it are told the same.
OnChain(x, by) ==
    \/ /\ Executes(x.vault, x.amount)
       /\ Fired(x, by)
       /\ run' = [r \in Runs |-> IF r \in by
                                THEN [run[r] EXCEPT !.pc = "landed", !.sig = Len(saves) + 1]
                                ELSE run[r]]
    \/ /\ ~Executes(x.vault, x.amount)
       /\ run' = [r \in Runs |-> IF r \in by THEN [run[r] EXCEPT !.pc = "reverted"]
                                ELSE run[r]]
       /\ UNCHANGED chain

\* The transaction reaches the chain, for this tick and those that sent the same one.
Land(r) ==
    /\ run[r].pc = "sent"
    /\ \E by \in SUBSET Senders(run[r]) : r \in by /\ OnChain(run[r], by)
    /\ UNCHANGED <<world, orphans, process, evidence, age, failures>>

\* Plausible bug: every confirmation is taken for an error.
RevertedAnything(r) ==
    /\ run[r].pc \in {"landed", "reverted"}
    /\ Leave(r, run[r].vault, <<>>)
    /\ UNCHANGED <<chain, orphans, evidence, failures>>

\* Plausible bug: the error in the confirmation is not looked at.
ConfirmAnything(r) ==
    /\ run[r].pc \in {"landed", "reverted"}
    /\ run' = [run EXCEPT ![r].pc = IF MarketOf[run[r].vault] = Kamino THEN "reread"
                                    ELSE "log"]
    /\ UNCHANGED <<chain, world, orphans, process, evidence, age, failures>>

\* sendKeeperTx returns the signature.  Only the Kamino path reads the loan again.
Confirm(r) ==
    /\ run[r].pc = "landed"
    /\ run' = [run EXCEPT ![r].pc = IF MarketOf[run[r].vault] = Kamino THEN "reread"
                                    ELSE "log"]
    /\ UNCHANGED <<chain, world, orphans, process, evidence, age, failures>>

\* It throws: the transaction reverted.
Reverted(r) ==
    /\ run[r].pc = "reverted"
    /\ Leave(r, run[r].vault, <<>>)
    /\ UNCHANGED <<chain, orphans, evidence, failures>>

\* A transaction of run r that nobody waits for any more; born tells such ones apart.
Orphan(r) == [born |-> failures + crashes, from |-> r, vault |-> run[r].vault,
              amount |-> run[r].amount, target |-> run[r].target,
              seen |-> run[r].seen, others |-> run[r].others]

\* It throws although the transaction may have landed or may land yet.
GiveUp(r) ==
    /\ run[r].pc \in {"sent", "landed"}
    /\ failures < MaxFailures
    /\ failures' = failures + 1
    /\ orphans' = orphans \cup (IF run[r].pc = "sent" THEN {Orphan(r)} ELSE {})
    /\ Leave(r, run[r].vault, <<>>)
    /\ UNCHANGED <<chain, evidence>>

\* detect once more, its clock first.  With the market open by now there is no ltvAfter,
\* and nothing is partial.
ReclockOpen(r) ==
    /\ run[r].pc = "reread"
    /\ ~closed
    /\ run' = [run EXCEPT ![r].pc = "log"]
    /\ UNCHANGED <<chain, world, orphans, process, evidence, age, failures>>

ReclockClosed(r) ==
    /\ run[r].pc = "reread"
    /\ closed
    /\ run' = [run EXCEPT ![r].pc = "measure"]
    /\ UNCHANGED <<chain, world, orphans, process, evidence, age, failures>>

Measure(r) ==
    /\ run[r].pc = "measure"
    /\ run' = [run EXCEPT ![r].pc = "log", ![r].ltv = LtvNow(run[r].vault),
                          ![r].partial = AtRisk(run[r].vault)]
    /\ UNCHANGED <<chain, world, orphans, process, evidence, age, failures>>

RereadFails(r) ==
    /\ run[r].pc \in {"reread", "measure"}
    /\ failures < MaxFailures
    /\ failures' = failures + 1
    /\ Leave(r, run[r].vault, <<>>)
    /\ UNCHANGED <<chain, orphans, evidence>>

Log(r) ==
    /\ run[r].pc = "log"
    /\ fireLog' = Append(fireLog, run[r].sig)
    /\ run' = [run EXCEPT ![r].pc = "row"]
    /\ UNCHANGED <<chain, world, orphans, process, ledger, heartbeat, age, failures>>

\* by is history: the tick that wrote the row.
AppendSave(r) ==
    /\ run[r].pc = "row"
    /\ ledger' = Append(ledger, [obligation |-> ObligationOf[run[r].vault],
                                 sig |-> run[r].sig, repaid |-> run[r].amount,
                                 ltvAfter |-> run[r].ltv, by |-> r])
    /\ Leave(r, run[r].vault, <<Outcome(run[r].vault, TRUE, run[r].partial)>>)
    /\ UNCHANGED <<chain, orphans, fireLog, heartbeat, failures>>

EndTick(r) ==
    /\ run[r].pc = "vaults"
    /\ run[r].todo = {}
    /\ Beat(r, run[r].ticks)
    /\ UNCHANGED failures

----------------------------------------------------------------------------
(* Transactions without a tick, the process, and the rest of the world.    *)

\* It reaches the chain after all, for ticks that have sent the same one since.
LandOrphan(x) ==
    /\ orphans' = orphans \ {x}
    /\ \E by \in SUBSET Senders(x) : OnChain(x, by)
    /\ UNCHANGED <<world, process, evidence, age, failures>>

\* It expires.
DropOrphan(x) ==
    /\ orphans' = orphans \ {x}
    /\ UNCHANGED <<chain, world, process, run, evidence, age, failures>>

Crash ==
    /\ up
    /\ crashes < MaxCrashes
    /\ up' = FALSE
    /\ booted' = FALSE
    /\ crashes' = crashes + 1
    /\ run' = [r \in Runs |-> Idle]
    /\ orphans' = orphans \cup {Orphan(r) : r \in {q \in Runs : run[q].pc = "sent"}}
    /\ UNCHANGED <<chain, world, evidence, age, failures>>

Restart ==
    /\ ~up
    /\ up' = TRUE
    /\ UNCHANGED <<chain, world, orphans, booted, crashes, run, evidence, age, failures>>

Moves == moves < MaxMoves /\ moves' = moves + 1
Elsewhere == UNCHANGED <<saves, orphans, process, run, evidence, age, failures>>

MovePrice(o) ==
    /\ Moves
    /\ \E c \in Collaterals \ {collateral[o]} :
        collateral' = [collateral EXCEPT ![o] = c]
    /\ Elsewhere
    /\ UNCHANGED <<debt, reserve, armed, closed, others>>

BorrowMore(o) ==
    /\ Moves
    /\ debt' = [debt EXCEPT ![o] = @ + 1]
    /\ Elsewhere
    /\ UNCHANGED <<reserve, collateral, armed, closed, others>>

\* The owner, or anybody else, repays of the loan.
RepayElsewhere(o) ==
    /\ Moves
    /\ debt[o] > 0
    /\ debt' = [debt EXCEPT ![o] = @ - 1]
    /\ others' = [others EXCEPT ![o] = @ + 1]
    /\ Elsewhere
    /\ UNCHANGED <<reserve, collateral, armed, closed>>

TurnClock ==
    /\ Moves
    /\ closed' = ~closed
    /\ Elsewhere
    /\ UNCHANGED <<debt, reserve, collateral, armed, others>>

\* The owner reclaims the reserve, adds to it, or arms a vault.
Reclaim(v) ==
    /\ Moves
    /\ v \in armed
    /\ reserve[v] > 0
    /\ reserve' = [reserve EXCEPT ![v] = 0]
    /\ Elsewhere
    /\ UNCHANGED <<debt, collateral, armed, closed, others>>

TopUp(v) ==
    /\ Moves
    /\ v \in armed
    /\ reserve' = [reserve EXCEPT ![v] = @ + 1]
    /\ Elsewhere
    /\ UNCHANGED <<debt, collateral, armed, closed, others>>

Arm(v) ==
    /\ Moves
    /\ v \notin armed
    /\ armed' = armed \cup {v}
    /\ Elsewhere
    /\ UNCHANGED <<debt, reserve, collateral, closed, others>>

----------------------------------------------------------------------------
\* What a tick does by itself, and what can go wrong under it.
Progress(r) ==
    \/ Load(r)
    \/ LoadNone(r)
    \/ \E v \in Vaults :
        \/ SkipOpen(r, v)
        \/ SeeClosed(r, v)
        \/ Hold(r, v)
        \/ Decide(r, v)
        \/ Unreadable(r, v)
    \/ Send(r)
    \/ Land(r)
    \/ Confirm(r)
    \/ Reverted(r)
    \/ ReclockOpen(r)
    \/ ReclockClosed(r)
    \/ Measure(r)
    \/ Log(r)
    \/ AppendSave(r)
    \/ EndTick(r)

Failure(r) ==
    \/ LoadFails(r)
    \/ \E v \in Vaults : LoadMarketFails(r, v) \/ ReadFails(r, v)
    \/ SendFails(r)
    \/ GiveUp(r)
    \/ RereadFails(r)

World ==
    \/ \E o \in Obligations : MovePrice(o) \/ BorrowMore(o) \/ RepayElsewhere(o)
    \/ TurnClock
    \/ \E v \in Vaults : Reclaim(v) \/ TopUp(v) \/ Arm(v)

Next ==
    \/ \E r \in Runs : Poll(r) \/ Progress(r) \/ Failure(r)
    \/ TimePasses
    \/ \E x \in orphans : LandOrphan(x) \/ DropOrphan(x)
    \/ Crash
    \/ Restart
    \/ World

\* Every call returns or throws; the timer of a running process goes on, and so does time.
Fairness ==
    /\ \A r \in Runs : WF_run(Poll(r)) /\ WF_run(Progress(r))
    /\ WF_age(TimePasses)

Spec == Init /\ [][Next]_vars
FairSpec == Spec /\ Fairness

----------------------------------------------------------------------------
(* Properties.                                                             *)

Transaction == [born : Nat, from : Runs, vault : Vaults, amount : Nat, target : Nat,
                seen : Nat, others : Nat]
Landed == [vault : Vaults, amount : Nat, target : Nat, seen : Nat, others : Nat,
           by : SUBSET Runs]
Row == [obligation : Obligations, sig : Nat, repaid : Nat, ltvAfter : Nat, by : Runs]
Outcomes == Seq([obligation : Obligations, fired : BOOLEAN, partial : BOOLEAN])

\* Every variable has its type: no debt and no reserve is ever overdrawn.
TypeOK ==
    /\ debt \in [Obligations -> Nat]
    /\ collateral \in [Obligations -> Nat \ {0}]
    /\ reserve \in [Vaults -> Nat]
    /\ armed \subseteq Vaults
    /\ saves \in Seq(Landed)
    /\ others \in [Obligations -> Nat]
    /\ orphans \subseteq Transaction
    /\ closed \in BOOLEAN
    /\ up \in BOOLEAN
    /\ booted \in BOOLEAN
    /\ run \in [Runs -> [pc : {"idle", "load", "vaults", "detect", "send", "sent",
                               "landed", "reverted", "reread", "measure", "log", "row"},
                         todo : SUBSET Vaults, vault : Vaults \cup {NoVault},
                         amount : Nat, target : Nat, seen : Nat, others : Nat, ltv : Nat,
                         partial : BOOLEAN, sig : Nat, ticks : Outcomes]]
    /\ fireLog \in Seq(Nat)
    /\ ledger \in Seq(Row)
    /\ heartbeat \in [written : BOOLEAN, ticks : Outcomes]
    /\ age \in 0 .. StaleAfter + 1
    /\ moves \in 0 .. MaxMoves
    /\ failures \in 0 .. MaxFailures
    /\ crashes \in 0 .. MaxCrashes

\* saves-ledger.ts, "a row cannot exist without a confirmed signature": every row is of a
\* transaction that landed, of its obligation and its amount, written by a tick that sent
\* that transaction, and no tick writes a second row of it, whatever ticks overlap, fail or
\* crash.  One signature can have several rows, of ticks that sent the same transaction.
LedgerIsEarned ==
    /\ \A i \in DOMAIN ledger :
        /\ ledger[i].sig \in DOMAIN saves
        /\ ledger[i].by \in saves[ledger[i].sig].by
        /\ ledger[i].repaid = saves[ledger[i].sig].amount
        /\ ledger[i].obligation = ObligationOf[saves[ledger[i].sig].vault]
    /\ \A i, j \in DOMAIN ledger :
        ledger[i].sig = ledger[j].sig /\ ledger[i].by = ledger[j].by => i = j

\* The saves without a row that no tick is about to write either.
Unrecorded == {r \in Runs : run[r].pc \in {"landed", "reread", "measure", "log", "row"}}
Lost == {s \in DOMAIN saves : /\ \A i \in DOMAIN ledger : ledger[i].sig # s
                              /\ \A r \in Unrecorded : run[r].sig # s}

\* index.ts, "append ONE row ONLY now": a save is missing from the ledger only for a
\* cause.  Each failed call loses one at most and each crash those of the ticks under way,
\* and a row written twice never makes up for a lost one.
MissingRowsHaveACause ==
    Cardinality(Lost) <= failures + crashes * Cardinality(Runs)

\* What others than the keeper have repaid of a loan since a save was decided.
RepaidSince(last) == others[ObligationOf[last.vault]] - last.others

\* "A single protective repay": no save repays what another one has repaid already, each
\* leaves at least the debt it was computed to leave, but for what others than the keeper
\* have repaid since.
NeverBeyondTheBuffer ==
    [][saves' # saves =>
        LET last == saves'[Len(saves')]
        IN  debt'[ObligationOf[last.vault]] + RepaidSince(last) >= last.target]_vars

\* What it takes to go beyond it: a second save of the same loan between the decision and
\* the landing.  Prices, the clock and the owner's borrowing, topping up and reclaiming in
\* the meantime do not make a save repay too much, and a repay by the owner or anybody else
\* does by no more than its own amount.
OverRepayTakesTwo ==
    [][saves' # saves =>
        LET last == saves'[Len(saves')]
            o == ObligationOf[last.vault]
        IN  debt'[o] + RepaidSince(last) < last.target =>
                \E i \in last.seen + 1 .. Len(saves) : ObligationOf[saves[i].vault] = o]_vars

\* DOMAIN-GUIDE.md, business rule 1: a fire is decided with the market closed and the
\* LTV at the trigger or over it.
FiresOnlyAtRisk ==
    [][\A r \in Runs : (run[r].pc # "send" /\ run'[r].pc = "send") =>
        closed /\ AtRisk(run'[r].vault)]_vars

\* A vault that needs a fire now, with a keeper that could send it.
Exposed(v) == up /\ closed /\ v \in armed /\ Readable(v) /\ AtRisk(v)

\* The reserve pays for the next fire.
Covered(v) == Repay(v) <= reserve[v]

\* The keeper protects: no vault stays at or over its trigger through a closed market
\* while its reserve pays for the next fire, whatever becomes of the other vaults ("one
\* failing vault never blocks the others").  For triggers above the buffer.
Protects ==
    \A v \in Vaults :
        (MarketOf[v] = Kamino /\ Trigger[v] > SafeBuffer) =>
            []<>~(Exposed(v) /\ Covered(v))

\* README.md, "Partial save": with a reserve smaller than the gap the repay is partial.
\* A vault does not stay exposed with a reserve that is not used up.
RepaysWhatItCan ==
    \A v \in Vaults :
        (MarketOf[v] = Kamino /\ Trigger[v] > SafeBuffer) =>
            []<>~(Exposed(v) /\ reserve[v] > 0)
=============================================================================
