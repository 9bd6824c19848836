--------------------------- MODULE Keeper_proofs ---------------------------
(***************************************************************************)
(* Theorems of module Keeper, for any vaults and loans, any finite number  *)
(* of ticks under way at once and any bound on failures and crashes:       *)
(* whatever the ticks, the transactions they gave up and the world do to   *)
(* each other.                                                             *)
(*                                                                         *)
(* TypeInv adds to the types that a tick which is busy is busy with a      *)
(* vault.  LedgerInv, AimInv and CountInv are the inductive forms of       *)
(* LedgerIsEarned, OverRepayTakesTwo and MissingRowsHaveACause; each says  *)
(* what the ticks and the transactions in flight have to know for the step *)
(* that writes a row, lands a repay or loses a tick.                       *)
(***************************************************************************)
EXTENDS Keeper, Ltv_proofs, FiniteSetTheorems

----------------------------------------------------------------------------
(* Types.                                                                  *)

\* What one reading decides: an amount within cap, debt and buffer.
LEMMA AmountsAreNatural ==
    ASSUME NEW v \in Vaults, TypeOK
    PROVE  /\ Repay(v) \in Nat
           /\ Repay(v) <= Cap[v]
           /\ Repay(v) <= debt[ObligationOf[v]]
           /\ Target(v) \in Nat
           /\ LtvNow(v) \in Nat
           /\ Repay(v) > 0 => debt[ObligationOf[v]] - Repay(v) >= Target(v)
    <1> DEFINE d == debt[ObligationOf[v]]
               c == collateral[ObligationOf[v]]
    <1>1. /\ d \in Nat /\ c \in Nat \ {0}
          /\ Trigger[v] \in Nat /\ Cap[v] \in Nat /\ SafeBuffer \in Nat
          /\ MarketOf[v] \in {Kamino, Save}
        BY KeeperAssumption DEF TypeOK
    <1>2. TargetDebt(c, SafeBuffer) \in Nat
        BY <1>1, TargetWithinBuffer
    <1>3. LtvNow(v) \in Nat
        <2>1. 2 * c \in Nat \ {0}
            BY <1>1, SMT
        <2>2. 2 * d * Whole + c \in Nat
            BY <1>1, LtvAssumption, SMT
        <2> QED  BY <2>1, <2>2, FloorDivision DEF LtvNow, LtvOf
    <1>4. CASE MarketOf[v] = Kamino
        <2>1. Repay(v) = FireAmount(Trigger[v], Cap[v], SafeBuffer, d, c)
            BY <1>4 DEF Repay, KaminoRepay
        <2>2. Target(v) = TargetDebt(c, SafeBuffer)
            BY <1>4 DEF Target
        <2> HIDE DEF d, c
        <2>3. /\ Repay(v) \in Nat /\ Repay(v) <= Cap[v] /\ Repay(v) <= d
              /\ Repay(v) > 0 => d - Repay(v) >= TargetDebt(c, SafeBuffer)
            BY <1>1, <2>1, FireIsBounded
        <2> QED  BY <1>2, <1>3, <2>2, <2>3 DEF d, c
    <1>5. CASE MarketOf[v] = Save
        <2>1. Repay(v) = Min2(d \div 2, Cap[v]) /\ Target(v) = 0
            BY <1>5 DEF Repay, SaveRepay, Target, Kamino, Save
        <2> HIDE DEF d
        <2>2. d \div 2 \in Nat /\ (d \div 2) * 2 <= d
            BY <1>1, FloorDivision
        <2>3. Repay(v) \in Nat /\ Repay(v) <= Cap[v] /\ Repay(v) <= d
            BY <1>1, <2>1, <2>2 DEF Min2
        <2> QED  BY <1>1, <1>3, <2>1, <2>3 DEF d
    <1> QED  BY <1>1, <1>4, <1>5

----------------------------------------------------------------------------
\* Where a tick is with one vault.
Busy == {"detect", "send", "sent", "landed", "reverted", "reread", "measure", "log", "row"}

Pcs == {"idle", "load", "vaults"} \cup Busy
Ticks == [pc : Pcs, todo : SUBSET Vaults, vault : Vaults \cup {NoVault}, amount : Nat,
          target : Nat, seen : Nat, others : Nat, ltv : Nat, partial : BOOLEAN, sig : Nat,
          ticks : Outcomes]

\* A tick that is busy is busy with a vault.
RunsTyped ==
    /\ run \in [Runs -> Ticks]
    /\ \A r \in Runs : run[r].pc \in Busy => run[r].vault \in Vaults

ChainTyped ==
    /\ debt \in [Obligations -> Nat]
    /\ reserve \in [Vaults -> Nat]
    /\ saves \in Seq(Landed)
    /\ orphans \subseteq Transaction

WorldTyped ==
    /\ collateral \in [Obligations -> Nat \ {0}]
    /\ armed \subseteq Vaults
    /\ closed \in BOOLEAN
    /\ moves \in 0 .. MaxMoves
    /\ others \in [Obligations -> Nat]

FilesTyped ==
    /\ fireLog \in Seq(Nat)
    /\ ledger \in Seq(Row)
    /\ heartbeat \in [written : BOOLEAN, ticks : Outcomes]

ProcessTyped ==
    /\ up \in BOOLEAN
    /\ booted \in BOOLEAN
    /\ age \in 0 .. StaleAfter + 1
    /\ failures \in 0 .. MaxFailures
    /\ crashes \in 0 .. MaxCrashes

TypeInv == RunsTyped /\ ChainTyped /\ WorldTyped /\ FilesTyped /\ ProcessTyped

LEMMA TypeInvImpliesTypeOK == TypeInv => TypeOK
    BY DEF TypeInv, RunsTyped, ChainTyped, WorldTyped, FilesTyped, ProcessTyped, TypeOK,
           Ticks, Pcs, Busy

LEMMA IdleIsTick == Idle \in Ticks /\ Idle.pc \notin Busy
    <1>1. <<>> \in Outcomes
        BY DEF Outcomes
    <1> QED  BY <1>1 DEF Idle, Ticks, Pcs, Busy

LEMMA BetweenIsTick ==
    ASSUME NEW todo \in SUBSET Vaults, NEW ticks \in Outcomes
    PROVE  Between(todo, ticks) \in Ticks /\ Between(todo, ticks).pc \notin Busy
    BY DEF Between, Idle, Ticks, Pcs, Busy

LEMMA TypeInit == Init => TypeInv
    <1> SUFFICES ASSUME Init PROVE TypeInv
        OBVIOUS
    <1>1. RunsTyped
        BY IdleIsTick DEF Init, RunsTyped
    <1>2. heartbeat \in [written : BOOLEAN, ticks : Outcomes]
        BY DEF Init, NoHeartbeat, Outcomes
    <1>3. FilesTyped
        BY <1>2 DEF Init, FilesTyped
    <1>4. ChainTyped
        BY KeeperAssumption DEF Init, ChainTyped
    <1>5. WorldTyped
        BY KeeperAssumption DEF Init, WorldTyped
    <1>6. ProcessTyped
        <2>1. up \in BOOLEAN /\ booted \in BOOLEAN
            BY DEF Init
        <2>2. /\ age \in 0 .. StaleAfter + 1
              /\ failures \in 0 .. MaxFailures
              /\ crashes \in 0 .. MaxCrashes
            BY KeeperAssumption DEF Init
        <2> QED  BY <2>1, <2>2 DEF ProcessTyped
    <1> QED  BY <1>1, <1>3, <1>4, <1>5, <1>6 DEF TypeInv

----------------------------------------------------------------------------
(* The steps of a tick, by what they do to it.                             *)

\* On to the next vault.
Leaves(r) ==
    \/ \E v \in Vaults : \/ SkipOpen(r, v) \/ Hold(r, v) \/ Unreadable(r, v)
                         \/ LoadMarketFails(r, v) \/ ReadFails(r, v)
    \/ SendFails(r) \/ Reverted(r) \/ GiveUp(r) \/ RereadFails(r) \/ AppendSave(r)

\* The end of the tick.
Ends(r) == LoadNone(r) \/ LoadFails(r) \/ EndTick(r)

\* The rest.
GoesOn(r) ==
    \/ Poll(r) \/ Load(r)
    \/ \E v \in Vaults : SeeClosed(r, v) \/ Decide(r, v)
    \/ Send(r) \/ Confirm(r) \/ ReclockOpen(r) \/ ReclockClosed(r) \/ Measure(r) \/ Log(r)

\* The transactions sent: of ticks that wait for them, and of none.
Sent == orphans \cup {run[r] : r \in {q \in Runs : run[q].pc = "sent"}}

\* One of them reaches the chain, for the ticks by.
LandsFor(x, by) ==
    /\ by \subseteq Senders(x)
    /\ OnChain(x, by)
    /\ \/ orphans' = orphans /\ by # {}
       \/ x \in orphans /\ orphans' = orphans \ {x}
    /\ UNCHANGED <<world, process, evidence, age, failures>>

Lands == \E x \in Sent : \E by \in SUBSET Runs : LandsFor(x, by)

\* What no tick does.
NoTick ==
    \/ TimePasses
    \/ \E x \in orphans : DropOrphan(x)
    \/ Restart
    \/ World

LEMMA Steps ==
    ASSUME Next
    PROVE  (\E r \in Runs : Leaves(r) \/ Ends(r) \/ GoesOn(r)) \/ Lands \/ NoTick \/ Crash
    <1>1. ASSUME NEW r \in Runs, Land(r) PROVE Lands
        <2>1. PICK by \in SUBSET Senders(run[r]) : r \in by /\ OnChain(run[r], by)
            BY <1>1 DEF Land
        <2>2. run[r] \in Sent /\ by \in SUBSET Runs
            BY <1>1 DEF Land, Sent, Senders
        <2>3. LandsFor(run[r], by)
            BY <1>1, <2>1 DEF Land, LandsFor
        <2> QED  BY <2>2, <2>3 DEF Lands
    <1>2. ASSUME NEW x \in orphans, LandOrphan(x) PROVE Lands
        <2>1. PICK by \in SUBSET Senders(x) : OnChain(x, by)
            BY <1>2 DEF LandOrphan
        <2>2. x \in Sent /\ by \in SUBSET Runs
            BY DEF Sent, Senders
        <2>3. LandsFor(x, by)
            BY <1>2, <2>1 DEF LandOrphan, LandsFor
        <2> QED  BY <2>2, <2>3 DEF Lands
    <1> QED  BY <1>1, <1>2 DEF Next, Progress, Failure, Leaves, Ends, GoesOn, NoTick

----------------------------------------------------------------------------
\* A tick after its step.
LEMMA RunStep ==
    ASSUME TypeInv, NEW r \in Runs, NEW x \in Ticks, x.pc \in Busy => x.vault \in Vaults,
           run' = [run EXCEPT ![r] = x]
    PROVE  RunsTyped'
    BY DEF TypeInv, RunsTyped

LEMMA LeavesTyped ==
    ASSUME TypeInv, NEW r \in Runs, NEW v, NEW ticks \in Outcomes,
           run' = [run EXCEPT ![r] = Between(run[r].todo \ {v}, run[r].ticks \o ticks)]
    PROVE  RunsTyped'
    <1>1. run[r].todo \ {v} \in SUBSET Vaults /\ run[r].ticks \in Outcomes
        BY DEF TypeInv, RunsTyped, Ticks
    <1>2. run[r].ticks \o ticks \in Outcomes
        BY <1>1 DEF Outcomes
    <1> QED  BY <1>1, <1>2, BetweenIsTick, RunStep

LEMMA OutcomeTyped ==
    ASSUME NEW v \in Vaults, NEW fired \in BOOLEAN, NEW partial \in BOOLEAN
    PROVE  <<Outcome(v, fired, partial)>> \in Outcomes /\ <<>> \in Outcomes
    BY KeeperAssumption DEF Outcome, Outcomes

LEMMA LeavesType ==
    ASSUME TypeInv, NEW r \in Runs, Leaves(r)
    PROVE  RunsTyped'
    <1> DEFINE Left(v, ticks) ==
            run' = [run EXCEPT ![r] = Between(run[r].todo \ {v}, run[r].ticks \o ticks)]
    <1>1. run[r] \in Ticks /\ (run[r].pc \in Busy => run[r].vault \in Vaults)
        BY DEF TypeInv, RunsTyped
    <1>2. <<>> \in Outcomes
        BY DEF Outcomes
    <1>3. (\E v \in Vaults : Left(v, <<Outcome(v, FALSE, FALSE)>>))
          \/ (\E v : Left(v, <<>>))
          \/ (/\ Left(run[r].vault, <<Outcome(run[r].vault, TRUE, run[r].partial)>>)
              /\ run[r].pc = "row")
        BY DEF Leaves, Leave, SkipOpen, Hold, Unreadable, LoadMarketFails, ReadFails, SendFails,
               Reverted, GiveUp, RereadFails, AppendSave
    <1>4. ASSUME NEW v \in Vaults, Left(v, <<Outcome(v, FALSE, FALSE)>>) PROVE RunsTyped'
        <2>1. <<Outcome(v, FALSE, FALSE)>> \in Outcomes
            BY OutcomeTyped
        <2> QED  BY <1>4, <2>1, LeavesTyped
    <1>5. ASSUME NEW v, Left(v, <<>>) PROVE RunsTyped'
        BY <1>2, <1>5, LeavesTyped
    <1>6. CASE /\ Left(run[r].vault, <<Outcome(run[r].vault, TRUE, run[r].partial)>>)
               /\ run[r].pc = "row"
        <2>1. run[r].vault \in Vaults /\ run[r].partial \in BOOLEAN
            BY <1>1, <1>6 DEF Busy, Ticks
        <2>2. <<Outcome(run[r].vault, TRUE, run[r].partial)>> \in Outcomes
            BY <2>1, OutcomeTyped
        <2> QED  BY <1>6, <2>2, LeavesTyped
    <1> QED  BY <1>3, <1>4, <1>5, <1>6

LEMMA EndsType ==
    ASSUME TypeInv, NEW r \in Runs, Ends(r)
    PROVE  RunsTyped'
    <1>1. run' = [run EXCEPT ![r] = Idle]
        BY DEF Ends, LoadNone, LoadFails, EndTick, Beat
    <1> QED  BY <1>1, IdleIsTick, RunStep

LEMMA GoesOnType ==
    ASSUME TypeInv, NEW r \in Runs, GoesOn(r)
    PROVE  RunsTyped'
    <1> DEFINE x == run[r]
    <1>1. x \in Ticks /\ (x.pc \in Busy => x.vault \in Vaults)
        BY DEF TypeInv, RunsTyped
    <1>2. CASE Poll(r)
        <2> DEFINE y == [x EXCEPT !.pc = "load"]
        <2>1. y \in Ticks /\ y.pc \notin Busy
            BY <1>1 DEF Ticks, Pcs, Busy
        <2>2. run' = [run EXCEPT ![r] = y]
            BY <1>2 DEF Poll
        <2> QED  BY <2>1, <2>2, RunStep
    <1>3. CASE Load(r)
        <2>1. armed \in SUBSET Vaults /\ <<>> \in Outcomes
            BY DEF TypeInv, WorldTyped, Outcomes
        <2>2. Between(armed, <<>>) \in Ticks /\ Between(armed, <<>>).pc \notin Busy
            BY <2>1, BetweenIsTick
        <2> QED  BY <1>3, <2>2, RunStep DEF Load
    <1>4. ASSUME NEW v \in Vaults, SeeClosed(r, v) PROVE RunsTyped'
        <2> DEFINE y == [x EXCEPT !.pc = "detect", !.todo = @ \ {v}, !.vault = v]
        <2>1. run' = [run EXCEPT ![r] = y]
            BY <1>4 DEF SeeClosed, TypeInv, RunsTyped
        <2>2. y \in Ticks /\ y.vault \in Vaults
            BY <1>1 DEF Ticks, Pcs, Busy
        <2> QED  BY <2>1, <2>2, RunStep
    <1>5. ASSUME NEW v \in Vaults, Decide(r, v) PROVE RunsTyped'
        <2> DEFINE ltv == IF MarketOf[v] = Kamino THEN LtvNow(v) ELSE 0
                   n == Len(saves)
                   m == others[ObligationOf[v]]
                   y == [x EXCEPT !.pc = "send", !.amount = Repay(v), !.target = Target(v),
                                  !.seen = n, !.others = m, !.ltv = ltv]
        <2>1. run' = [run EXCEPT ![r] = y]
            BY <1>5 DEF Decide, TypeInv, RunsTyped
        <2>2. ltv \in Nat /\ Repay(v) \in Nat /\ Target(v) \in Nat
            BY AmountsAreNatural, TypeInvImpliesTypeOK
        <2>3. n \in Nat /\ m \in Nat
            BY KeeperAssumption DEF TypeInv, ChainTyped, WorldTyped
        <2>4. x.vault \in Vaults
            BY <1>1, <1>5 DEF Decide, Detecting
        <2>5. y \in Ticks /\ y.vault \in Vaults
            <3> HIDE DEF ltv, n, m
            <3> QED  BY <1>1, <2>2, <2>3, <2>4 DEF Ticks, Pcs, Busy
        <2> QED  BY <2>1, <2>5, RunStep
    <1>6. ASSUME NEW pc \in Busy, x.pc \in Busy, run' = [run EXCEPT ![r].pc = pc]
          PROVE  RunsTyped'
        <2> DEFINE y == [x EXCEPT !.pc = pc]
        <2>1. run' = [run EXCEPT ![r] = y]
            BY <1>6 DEF TypeInv, RunsTyped
        <2>2. y \in Ticks /\ y.vault \in Vaults
            BY <1>1, <1>6 DEF Ticks, Pcs
        <2> QED  BY <2>1, <2>2, RunStep
    <1>7. CASE Send(r) \/ Confirm(r) \/ ReclockOpen(r) \/ ReclockClosed(r) \/ Log(r)
        <2>1. x.pc \in Busy /\ \E pc \in Busy : run' = [run EXCEPT ![r].pc = pc]
            BY <1>7 DEF Send, Confirm, ReclockOpen, ReclockClosed, Log, Busy
        <2> QED  BY <2>1, <1>6
    <1>8. CASE Measure(r)
        <2> DEFINE ltv == LtvNow(x.vault)
                   risk == AtRisk(x.vault)
                   y == [x EXCEPT !.pc = "log", !.ltv = ltv, !.partial = risk]
        <2>1. run' = [run EXCEPT ![r] = y]
            BY <1>8 DEF Measure, TypeInv, RunsTyped
        <2>2. x.vault \in Vaults
            BY <1>1, <1>8 DEF Measure, Busy
        <2>3. ltv \in Nat
            BY <2>2, AmountsAreNatural, TypeInvImpliesTypeOK
        <2>4. risk \in BOOLEAN
            BY DEF AtRisk
        <2>5. y \in Ticks /\ y.vault \in Vaults
            <3> HIDE DEF ltv, risk
            <3> QED  BY <1>1, <2>2, <2>3, <2>4 DEF Ticks, Pcs, Busy
        <2> QED  BY <2>1, <2>5, RunStep
    <1> QED  BY <1>2, <1>3, <1>4, <1>5, <1>7, <1>8 DEF GoesOn

\* A landing, and what it does to the ticks it is for.
LEMMA LandsTicks ==
    ASSUME NEW x, NEW by \in SUBSET Runs, LandsFor(x, by)
    PROVE  /\ \A q \in by : /\ run[q].pc = "sent"
                            /\ run[q].vault = x.vault /\ run[q].amount = x.amount
           /\ \A q \in Runs \ by : run'[q] = run[q]
           /\ \/ /\ Executes(x.vault, x.amount) /\ Fired(x, by)
                 /\ \A q \in by :
                     run'[q] = [run[q] EXCEPT !.pc = "landed", !.sig = Len(saves) + 1]
              \/ /\ UNCHANGED chain
                 /\ \A q \in by : run'[q] = [run[q] EXCEPT !.pc = "reverted"]
    <1>1. by \subseteq Senders(x) /\ OnChain(x, by)
        BY DEF LandsFor
    <1>2. \A q \in by : /\ run[q].pc = "sent"
                        /\ run[q].vault = x.vault /\ run[q].amount = x.amount
        BY <1>1 DEF Senders
    <1> DEFINE n == Len(saves) + 1
    <1>3. \/ /\ Executes(x.vault, x.amount) /\ Fired(x, by)
             /\ run' = [r \in Runs |-> IF r \in by
                                      THEN [run[r] EXCEPT !.pc = "landed", !.sig = n]
                                      ELSE run[r]]
          \/ /\ UNCHANGED chain
             /\ run' = [r \in Runs |-> IF r \in by THEN [run[r] EXCEPT !.pc = "reverted"]
                                      ELSE run[r]]
        BY <1>1 DEF OnChain
    <1> HIDE DEF n
    <1>4. CASE /\ Executes(x.vault, x.amount) /\ Fired(x, by)
               /\ run' = [r \in Runs |-> IF r \in by
                                        THEN [run[r] EXCEPT !.pc = "landed", !.sig = n]
                                        ELSE run[r]]
        BY <1>2, <1>4 DEF n
    <1>5. CASE /\ UNCHANGED chain
               /\ run' = [r \in Runs |-> IF r \in by THEN [run[r] EXCEPT !.pc = "reverted"]
                                        ELSE run[r]]
        BY <1>2, <1>5
    <1> QED  BY <1>3, <1>4, <1>5

LEMMA LandsType ==
    ASSUME TypeInv, Lands
    PROVE  RunsTyped'
    <1>1. PICK x \in Sent, by \in SUBSET Runs : LandsFor(x, by)
        BY DEF Lands
    <1> DEFINE sig == Len(saves) + 1
    <1>2. sig \in Nat
        BY DEF TypeInv, ChainTyped
    <1>3. ASSUME NEW q \in Runs
          PROVE  run'[q] \in Ticks /\ (run'[q].pc \in Busy => run'[q].vault \in Vaults)
        <2>1. run[q] \in Ticks /\ (run[q].pc \in Busy => run[q].vault \in Vaults)
            BY DEF TypeInv, RunsTyped
        <2>2. \/ run'[q] = run[q]
              \/ /\ run[q].pc = "sent"
                 /\ \/ run'[q] = [run[q] EXCEPT !.pc = "landed", !.sig = sig]
                    \/ run'[q] = [run[q] EXCEPT !.pc = "reverted"]
            BY <1>1, LandsTicks
        <2> HIDE DEF sig
        <2> QED  BY <1>2, <2>1, <2>2 DEF Ticks, Pcs, Busy
    <1>4. DOMAIN run' = Runs /\ run' = [q \in Runs |-> run'[q]]
        <2>1. OnChain(x, by)
            BY <1>1 DEF LandsFor
        <2> QED  BY <2>1 DEF OnChain
    <1> QED  BY <1>3, <1>4 DEF RunsTyped

LEMMA CrashType == TypeInv /\ Crash => RunsTyped'
    BY IdleIsTick DEF Crash, RunsTyped

LEMMA RunsType == TypeInv /\ [Next]_vars => RunsTyped'
    <1> SUFFICES ASSUME TypeInv, [Next]_vars PROVE RunsTyped'
        OBVIOUS
    <1>1. ASSUME NEW r \in Runs, Leaves(r) \/ Ends(r) \/ GoesOn(r) PROVE RunsTyped'
        BY <1>1, LeavesType, EndsType, GoesOnType
    <1>2. CASE NoTick \/ UNCHANGED vars
        <2>1. UNCHANGED run
            BY <1>2 DEF NoTick, vars, TimePasses, DropOrphan, Restart, World, MovePrice,
                        BorrowMore, RepayElsewhere, TurnClock, Reclaim, TopUp, Arm, Elsewhere
        <2> QED  BY <2>1 DEF TypeInv, RunsTyped
    <1>3. CASE Crash
        BY <1>3, CrashType
    <1> QED  BY <1>1, <1>2, <1>3, LandsType, Steps

LEMMA LeavesFrame ==
    ASSUME NEW r \in Runs, Leaves(r)
    PROVE  /\ UNCHANGED <<world, process, age>>
           /\ failures' # failures => failures < MaxFailures /\ failures' = failures + 1
    BY DEF Leaves, Leave, SkipOpen, Hold, Unreadable, LoadMarketFails, ReadFails, SendFails,
           Reverted, GiveUp, RereadFails, AppendSave

LEMMA EndsFrame ==
    ASSUME NEW r \in Runs, Ends(r)
    PROVE  /\ UNCHANGED <<world, orphans, chain, up, crashes, fireLog, ledger>>
           /\ booted' = TRUE /\ age' = 0
           /\ failures' # failures => failures < MaxFailures /\ failures' = failures + 1
    BY DEF Ends, LoadNone, LoadFails, EndTick, Beat

LEMMA GoesOnFrame ==
    ASSUME NEW r \in Runs, GoesOn(r)
    PROVE  /\ UNCHANGED <<world, chain, orphans, process, ledger, heartbeat, failures>>
           /\ age' \in {age, Older}
    BY DEF GoesOn, Poll, Load, SeeClosed, Decide, Send, Confirm, ReclockOpen, ReclockClosed,
           Measure, Log, evidence

LEMMA WorldType == TypeInv /\ [Next]_vars => WorldTyped'
    <1> SUFFICES ASSUME TypeInv, [Next]_vars PROVE WorldTyped'
        OBVIOUS
    <1> USE DEF TypeInv, WorldTyped
    <1>1. ASSUME NEW o \in Obligations, MovePrice(o) \/ BorrowMore(o) \/ RepayElsewhere(o)
          PROVE  WorldTyped'
        <2>1. moves' \in 0 .. MaxMoves
            BY <1>1, KeeperAssumption DEF MovePrice, BorrowMore, RepayElsewhere, Moves
        <2>2. collateral' \in [Obligations -> Nat \ {0}]
            BY <1>1, KeeperAssumption DEF MovePrice, BorrowMore, RepayElsewhere
        <2>3. others' \in [Obligations -> Nat]
            BY <1>1 DEF MovePrice, BorrowMore, RepayElsewhere
        <2> QED  BY <1>1, <2>1, <2>2, <2>3 DEF MovePrice, BorrowMore, RepayElsewhere
    <1>2. CASE TurnClock
        <2>1. closed' \in BOOLEAN
            BY <1>2 DEF TurnClock
        <2>2. moves' \in 0 .. MaxMoves
            BY <1>2, KeeperAssumption DEF TurnClock, Moves
        <2> QED  BY <1>2, <2>1, <2>2 DEF TurnClock
    <1>3. ASSUME NEW v \in Vaults, Reclaim(v) \/ TopUp(v) \/ Arm(v) PROVE WorldTyped'
        <2>1. moves' \in 0 .. MaxMoves
            BY <1>3, KeeperAssumption DEF Reclaim, TopUp, Arm, Moves
        <2>2. armed' \subseteq Vaults /\ UNCHANGED <<collateral, closed, others>>
            BY <1>3 DEF Reclaim, TopUp, Arm
        <2> QED  BY <2>1, <2>2
    <1>4. CASE UNCHANGED world
        BY <1>4 DEF world
    <1>5. ASSUME NEW r \in Runs, Leaves(r) \/ Ends(r) \/ GoesOn(r) PROVE UNCHANGED world
        BY <1>5, LeavesFrame, EndsFrame, GoesOnFrame
    <1>6. CASE Lands \/ Crash \/ UNCHANGED vars
        BY <1>6, <1>4 DEF Lands, LandsFor, Crash, vars
    <1>7. CASE NoTick
        <2>1. CASE World
            BY <2>1, <1>1, <1>2, <1>3 DEF World
        <2>2. CASE ~World
            BY <1>7, <2>2, <1>4 DEF NoTick, TimePasses, DropOrphan, Restart
        <2> QED  BY <2>1, <2>2
    <1> QED  BY <1>4, <1>5, <1>6, <1>7, Steps

LEMMA ProcessType == TypeInv /\ [Next]_vars => ProcessTyped'
    <1> SUFFICES ASSUME TypeInv, [Next]_vars PROVE ProcessTyped'
        OBVIOUS
    <1>1. Older \in 0 .. StaleAfter + 1 /\ 0 \in 0 .. StaleAfter + 1
        BY KeeperAssumption DEF TypeInv, ProcessTyped, Older, Min2
    <1>2. ASSUME NEW r \in Runs, Leaves(r) \/ Ends(r) \/ GoesOn(r) PROVE ProcessTyped'
        <2>1. /\ up' = up /\ crashes' = crashes /\ booted' \in {booted, TRUE}
              /\ age' \in {age, Older, 0}
              /\ failures' # failures => failures < MaxFailures /\ failures' = failures + 1
            BY <1>2, LeavesFrame, EndsFrame, GoesOnFrame DEF process
        <2>2. up' \in BOOLEAN /\ booted' \in BOOLEAN
            BY <2>1 DEF TypeInv, ProcessTyped
        <2>3. age' \in 0 .. StaleAfter + 1
            BY <1>1, <2>1 DEF TypeInv, ProcessTyped
        <2>4. failures' \in 0 .. MaxFailures /\ crashes' \in 0 .. MaxCrashes
            BY <2>1, KeeperAssumption DEF TypeInv, ProcessTyped
        <2> QED  BY <2>2, <2>3, <2>4 DEF ProcessTyped
    <1>3. CASE Crash
        <2>1. up' = FALSE /\ booted' = FALSE /\ UNCHANGED <<age, failures>>
            BY <1>3 DEF Crash
        <2>2. crashes' \in 0 .. MaxCrashes
            BY <1>3, KeeperAssumption DEF Crash, TypeInv, ProcessTyped
        <2> QED  BY <2>1, <2>2 DEF TypeInv, ProcessTyped
    <1>4. CASE Lands \/ NoTick \/ UNCHANGED vars
        <2>1. /\ booted' = booted /\ crashes' = crashes /\ failures' = failures
              /\ up' \in {up, TRUE} /\ age' \in {age, Older}
            BY <1>4 DEF Lands, LandsFor, NoTick, vars, process, TimePasses, DropOrphan, Restart,
                        World, MovePrice, BorrowMore, RepayElsewhere, TurnClock, Reclaim, TopUp,
                        Arm, Elsewhere
        <2> QED  BY <1>1, <2>1 DEF TypeInv, ProcessTyped
    <1> QED  BY <1>2, <1>3, <1>4, Steps

\* A transaction that was sent.
LEMMA SentTyped ==
    ASSUME TypeInv, NEW x \in Sent
    PROVE  /\ x.vault \in Vaults /\ x.amount \in Nat /\ x.target \in Nat
           /\ x.seen \in Nat /\ x.others \in Nat
    <1>1. CASE x \in orphans
        BY <1>1 DEF TypeInv, ChainTyped, Transaction
    <1>2. ASSUME NEW r \in Runs, run[r].pc = "sent", x = run[r]
          PROVE  /\ x.vault \in Vaults /\ x.amount \in Nat /\ x.target \in Nat
                 /\ x.seen \in Nat /\ x.others \in Nat
        BY <1>2 DEF TypeInv, RunsTyped, Ticks, Busy
    <1> QED  BY <1>1, <1>2 DEF Sent

\* What is recorded of one that lands.
Record(x, by) == [vault |-> x.vault, amount |-> x.amount, target |-> x.target,
                  seen |-> x.seen, others |-> x.others, by |-> by]

LEMMA RecordOf ==
    ASSUME NEW x, NEW by
    PROVE  /\ Record(x, by).vault = x.vault /\ Record(x, by).amount = x.amount
           /\ Record(x, by).target = x.target /\ Record(x, by).seen = x.seen
           /\ Record(x, by).others = x.others /\ Record(x, by).by = by
    BY DEF Record

\* A transaction that lands.
LEMMA FiredType ==
    ASSUME TypeInv, NEW x \in Sent, NEW by \in SUBSET Runs, Executes(x.vault, x.amount),
           Fired(x, by)
    PROVE  /\ debt' \in [Obligations -> Nat]
           /\ reserve' \in [Vaults -> Nat]
           /\ saves' \in Seq(Landed)
    <1>1. /\ ObligationOf[x.vault] \in Obligations
          /\ x.vault \in Vaults /\ x.amount \in Nat /\ x.target \in Nat
          /\ x.seen \in Nat /\ x.others \in Nat
        BY KeeperAssumption, SentTyped
    <1>2. /\ debt[ObligationOf[x.vault]] - x.amount \in Nat
          /\ reserve[x.vault] - x.amount \in Nat
        BY <1>1 DEF TypeInv, ChainTyped, Executes
    <1>3. /\ debt' = [debt EXCEPT ![ObligationOf[x.vault]] = debt[ObligationOf[x.vault]] - x.amount]
          /\ reserve' = [reserve EXCEPT ![x.vault] = reserve[x.vault] - x.amount]
          /\ saves' = Append(saves, Record(x, by))
        BY <1>1 DEF TypeInv, ChainTyped, Fired, Record
    <1>4. Record(x, by) \in Landed
        BY <1>1 DEF Landed, Record
    <1>5. debt' \in [Obligations -> Nat]
        BY <1>1, <1>2, <1>3 DEF TypeInv, ChainTyped
    <1>6. reserve' \in [Vaults -> Nat]
        BY <1>1, <1>2, <1>3 DEF TypeInv, ChainTyped
    <1>7. saves' \in Seq(Landed)
        BY <1>3, <1>4 DEF TypeInv, ChainTyped
    <1> QED  BY <1>5, <1>6, <1>7

LEMMA OrphanType ==
    ASSUME TypeInv, NEW r \in Runs, run[r].pc \in Busy
    PROVE  Orphan(r) \in Transaction
    <1>1. run[r] \in Ticks /\ run[r].vault \in Vaults
        BY DEF TypeInv, RunsTyped
    <1>2. failures + crashes \in Nat
        BY KeeperAssumption DEF TypeInv, ProcessTyped
    <1> QED  BY <1>1, <1>2 DEF Orphan, Transaction, Ticks

\* The steps that touch the chain or the transactions nobody waits for.
LEMMA ChainFrame ==
    ASSUME Next
    PROVE  \/ UNCHANGED <<chain, orphans>>
           \/ \E r \in Runs : GiveUp(r)
           \/ Lands
           \/ \E x \in orphans : DropOrphan(x)
           \/ Crash
           \/ World
    <1>1. ASSUME NEW r \in Runs, Leaves(r), ~GiveUp(r) PROVE UNCHANGED <<chain, orphans>>
        BY <1>1 DEF Leaves, SkipOpen, Hold, Unreadable, LoadMarketFails, ReadFails, SendFails,
               Reverted, RereadFails, AppendSave
    <1>2. ASSUME NEW r \in Runs, Ends(r) \/ GoesOn(r) PROVE UNCHANGED <<chain, orphans>>
        BY <1>2, EndsFrame, GoesOnFrame
    <1>3. CASE TimePasses \/ Restart
        BY <1>3 DEF TimePasses, Restart
    <1> QED  BY <1>1, <1>2, <1>3, Steps DEF NoTick

\* What a landing does to the chain.
LEMMA LandsChain ==
    ASSUME Lands
    PROVE  \/ UNCHANGED chain
           \/ \E x \in Sent, by \in SUBSET Runs :
                Executes(x.vault, x.amount) /\ Fired(x, by) /\ LandsFor(x, by)
    BY DEF Lands, LandsFor, OnChain

LEMMA ChainType == TypeInv /\ [Next]_vars => ChainTyped'
    <1> SUFFICES ASSUME TypeInv, [Next]_vars PROVE ChainTyped'
        OBVIOUS
    <1>1. CASE UNCHANGED <<chain, orphans>>
        BY <1>1 DEF chain, TypeInv, ChainTyped
    <1>2. CASE Lands
        <2>1. orphans' \subseteq Transaction
            BY <1>2 DEF Lands, LandsFor, TypeInv, ChainTyped
        <2>2. ASSUME NEW x \in Sent, NEW by \in SUBSET Runs, Executes(x.vault, x.amount),
                     Fired(x, by)
              PROVE  ChainTyped'
            BY <2>1, <2>2, FiredType DEF ChainTyped
        <2>3. CASE UNCHANGED chain
            BY <2>1, <2>3 DEF chain, TypeInv, ChainTyped
        <2> QED  BY <1>2, <2>2, <2>3, LandsChain
    <1>3. ASSUME NEW r \in Runs, GiveUp(r) PROVE ChainTyped'
        <2>1. Orphan(r) \in Transaction
            BY <1>3, OrphanType DEF GiveUp, Busy
        <2> QED  BY <1>3, <2>1 DEF GiveUp, chain, TypeInv, ChainTyped
    <1>4. ASSUME NEW x \in orphans, DropOrphan(x) PROVE ChainTyped'
        BY <1>4 DEF DropOrphan, chain, TypeInv, ChainTyped
    <1>5. CASE Crash
        <2>1. \A r \in Runs : run[r].pc = "sent" => Orphan(r) \in Transaction
            BY OrphanType DEF Busy
        <2> QED  BY <1>5, <2>1 DEF Crash, chain, TypeInv, ChainTyped
    <1>6. CASE World
        <2>1. UNCHANGED <<saves, orphans>>
            BY <1>6 DEF World, MovePrice, BorrowMore, RepayElsewhere, TurnClock, Reclaim, TopUp,
                        Arm, Elsewhere
        <2>2. debt' \in [Obligations -> Nat] /\ reserve' \in [Vaults -> Nat]
            BY <1>6 DEF World, MovePrice, BorrowMore, RepayElsewhere, TurnClock, Reclaim, TopUp,
                        Arm, TypeInv, ChainTyped
        <2> QED  BY <2>1, <2>2 DEF TypeInv, ChainTyped
    <1> QED  BY <1>1, <1>2, <1>3, <1>4, <1>5, <1>6, ChainFrame DEF vars

\* The steps that write the files.
LEMMA FilesFrame ==
    ASSUME Next
    PROVE  \/ UNCHANGED evidence
           \/ \E r \in Runs : Log(r) \/ AppendSave(r) \/ Ends(r)
    <1>1. ASSUME NEW r \in Runs, Leaves(r), ~AppendSave(r) PROVE UNCHANGED evidence
        BY <1>1 DEF Leaves, SkipOpen, Hold, Unreadable, LoadMarketFails, ReadFails, SendFails,
               Reverted, RereadFails, GiveUp
    <1>2. ASSUME NEW r \in Runs, GoesOn(r), ~Log(r) PROVE UNCHANGED evidence
        BY <1>2 DEF GoesOn, Poll, Load, SeeClosed, Decide, Send, Confirm, ReclockOpen,
           ReclockClosed, Measure
    <1>3. CASE Lands \/ NoTick \/ Crash
        BY <1>3 DEF Lands, LandsFor, NoTick, TimePasses, DropOrphan, Restart, World, MovePrice,
               BorrowMore, RepayElsewhere, TurnClock, Reclaim, TopUp, Arm, Elsewhere, Crash
    <1> QED  BY <1>1, <1>2, <1>3, Steps

LEMMA FilesType == TypeInv /\ [Next]_vars => FilesTyped'
    <1> SUFFICES ASSUME TypeInv, [Next]_vars PROVE FilesTyped'
        OBVIOUS
    <1>1. CASE UNCHANGED evidence
        BY <1>1 DEF evidence, TypeInv, FilesTyped
    <1>2. ASSUME NEW r \in Runs, Log(r) PROVE FilesTyped'
        <2>1. run[r].sig \in Nat
            BY DEF TypeInv, RunsTyped, Ticks
        <2> QED  BY <1>2, <2>1 DEF Log, TypeInv, FilesTyped
    <1>3. ASSUME NEW r \in Runs, AppendSave(r) PROVE FilesTyped'
        <2>1. /\ run[r].vault \in Vaults /\ run[r].sig \in Nat /\ run[r].amount \in Nat
              /\ run[r].ltv \in Nat
            BY <1>3 DEF AppendSave, TypeInv, RunsTyped, Ticks, Busy
        <2>2. ObligationOf[run[r].vault] \in Obligations
            BY <2>1, KeeperAssumption
        <2>3. [obligation |-> ObligationOf[run[r].vault], sig |-> run[r].sig,
               repaid |-> run[r].amount, ltvAfter |-> run[r].ltv, by |-> r] \in Row
            BY <2>1, <2>2 DEF Row
        <2> QED  BY <1>3, <2>3 DEF AppendSave, TypeInv, FilesTyped
    <1>4. ASSUME NEW r \in Runs, Ends(r) PROVE FilesTyped'
        <2>1. UNCHANGED <<fireLog, ledger>>
            BY <1>4, EndsFrame
        <2>2. \E ticks \in {<<>>, run[r].ticks} : heartbeat' = [written |-> TRUE, ticks |-> ticks]
            BY <1>4 DEF Ends, LoadNone, LoadFails, EndTick, Beat
        <2>3. <<>> \in Outcomes
            BY DEF Outcomes
        <2>4. run[r].ticks \in Outcomes
            BY DEF TypeInv, RunsTyped, Ticks
        <2> QED  BY <2>1, <2>2, <2>3, <2>4 DEF TypeInv, FilesTyped
    <1> QED  BY <1>1, <1>2, <1>3, <1>4, FilesFrame DEF vars

LEMMA TypeNext == TypeInv /\ [Next]_vars => TypeInv'
    BY RunsType, ChainType, WorldType, FilesType, ProcessType DEF TypeInv

LEMMA TypeAlways == Spec => []TypeInv
    BY TypeInit, TypeNext, PTL DEF Spec

\* Every variable of the keeper keeps its type: a repay is bounded by the debt and the reserve
\* as they are when it lands, so neither is overdrawn, and a tick never acts for no vault.
THEOREM TypeCorrect == Spec => []TypeOK
    BY TypeAlways, TypeInvImpliesTypeOK, PTL

----------------------------------------------------------------------------
(* The ledger.                                                             *)

\* Where a tick has a confirmed signature and has not written its row.
Recording == {"landed", "reread", "measure", "log", "row"}

\* Each recording tick holds a landed save that it sent, of its own vault and amount, and has
\* no row of it in the ledger yet: so the row it appends is its first one of that save.
LedgerInv ==
    /\ \A r \in Runs : run[r].pc \in Recording =>
        /\ run[r].sig \in DOMAIN saves
        /\ r \in saves[run[r].sig].by
        /\ saves[run[r].sig].amount = run[r].amount
        /\ saves[run[r].sig].vault = run[r].vault
        /\ \A i \in DOMAIN ledger : ledger[i].sig = run[r].sig => ledger[i].by # r
    /\ LedgerIsEarned

\* A tick that records has recorded before, the same save.
Quiet ==
    \A r \in Runs : run'[r].pc \in Recording =>
        /\ run[r].pc \in Recording
        /\ run'[r].sig = run[r].sig
        /\ run'[r].amount = run[r].amount
        /\ run'[r].vault = run[r].vault

LEMMA LeavesAway ==
    ASSUME TypeInv, NEW r \in Runs, Leaves(r)
    PROVE  /\ run'[r].pc = "vaults"
           /\ \A q \in Runs \ {r} : run'[q] = run[q]
    <1>1. \E todo, ticks : run' = [run EXCEPT ![r] = Between(todo, ticks)]
        BY DEF Leaves, Leave, SkipOpen, Hold, Unreadable, LoadMarketFails, ReadFails, SendFails,
               Reverted, GiveUp, RereadFails, AppendSave
    <1>2. \A todo, ticks : Between(todo, ticks).pc = "vaults"
        BY DEF Between, Idle
    <1> QED  BY <1>1, <1>2 DEF TypeInv, RunsTyped

LEMMA EndsAway ==
    ASSUME TypeInv, NEW r \in Runs, Ends(r)
    PROVE  /\ run[r].pc \in {"load", "vaults"}
           /\ run'[r].pc = "idle"
           /\ \A q \in Runs \ {r} : run'[q] = run[q]
    <1>1. run' = [run EXCEPT ![r] = Idle] /\ run[r].pc \in {"load", "vaults"}
        BY DEF Ends, LoadNone, LoadFails, EndTick, Beat
    <1> QED  BY <1>1 DEF TypeInv, RunsTyped, Idle

LEMMA LeavesQuiet ==
    ASSUME TypeInv, NEW r \in Runs, Leaves(r)
    PROVE  /\ Quiet
           /\ run'[r].pc \notin Recording
           /\ \A q \in Runs \ {r} : run'[q] = run[q]
    BY LeavesAway DEF Quiet, Recording

LEMMA EndsQuiet ==
    ASSUME TypeInv, NEW r \in Runs, Ends(r)
    PROVE  /\ Quiet
           /\ run[r].pc \notin Recording /\ run'[r].pc \notin Recording
           /\ \A q \in Runs \ {r} : run'[q] = run[q]
    BY EndsAway DEF Quiet, Recording

LEMMA GoesOnQuiet ==
    ASSUME TypeInv, NEW r \in Runs, GoesOn(r)
    PROVE  /\ Quiet
           /\ run[r].pc \in Recording <=> run'[r].pc \in Recording
           /\ \A q \in Runs \ {r} : run'[q] = run[q]
    <1> USE DEF TypeInv, RunsTyped, Recording
    <1>1. \A q \in Runs \ {r} : run'[q] = run[q]
        BY DEF GoesOn, Poll, Load, SeeClosed, Decide, Send, Confirm, ReclockOpen,
           ReclockClosed, Measure, Log
    <1>2. CASE Poll(r) \/ Load(r) \/ (\E v \in Vaults : SeeClosed(r, v) \/ Decide(r, v)) \/ Send(r)
        <2>1. run[r].pc \notin Recording
            BY <1>2 DEF Poll, Load, SeeClosed, Decide, Send, Visiting, Detecting
        <2>2. run'[r].pc \in {"load", "vaults", "detect", "send", "sent"}
            <3>1. Between(armed, <<>>).pc = "vaults"
                BY DEF Between, Idle
            <3>2. CASE Load(r)
                BY <3>1, <3>2 DEF Load
            <3>3. CASE Poll(r) \/ Send(r)
                <4>1. run[r] \in Ticks
                    OBVIOUS
                <4> QED  BY <3>3, <4>1 DEF Poll, Send, Ticks
            <3>4. ASSUME NEW v \in Vaults, SeeClosed(r, v) PROVE run'[r].pc = "detect"
                <4>1. run[r] \in Ticks
                    OBVIOUS
                <4> QED  BY <3>4, <4>1 DEF SeeClosed, Ticks
            <3>5. ASSUME NEW v \in Vaults, Decide(r, v) PROVE run'[r].pc = "send"
                <4>1. run[r] \in Ticks
                    OBVIOUS
                <4> QED  BY <3>5, <4>1 DEF Decide, Ticks
            <3> QED  BY <1>2, <3>2, <3>3, <3>4, <3>5
        <2> QED  BY <1>1, <2>1, <2>2 DEF Quiet
    <1>3. CASE Confirm(r) \/ ReclockOpen(r) \/ ReclockClosed(r) \/ Measure(r) \/ Log(r)
        <2>1. run[r] \in Ticks
            OBVIOUS
        <2>2. /\ run[r].pc \in Recording /\ run'[r].pc \in Recording
              /\ run'[r].sig = run[r].sig
              /\ run'[r].amount = run[r].amount
              /\ run'[r].vault = run[r].vault
            BY <1>3, <2>1 DEF Confirm, ReclockOpen, ReclockClosed, Measure, Log, Ticks
        <2> QED  BY <1>1, <2>2 DEF Quiet
    <1> QED  BY <1>2, <1>3 DEF GoesOn

LEMMA OthersQuiet ==
    ASSUME TypeInv, NoTick \/ Crash \/ UNCHANGED vars
    PROVE  Quiet
    <1>1. CASE NoTick \/ UNCHANGED vars
        <2>1. UNCHANGED run
            BY <1>1 DEF NoTick, vars, TimePasses, DropOrphan, Restart, World, MovePrice,
                        BorrowMore, RepayElsewhere, TurnClock, Reclaim, TopUp, Arm, Elsewhere
        <2> QED  BY <2>1 DEF Quiet
    <1>2. CASE Crash
        BY <1>2 DEF Crash, Idle, Quiet, Recording
    <1> QED  BY <1>1, <1>2

LEMMA LedgerKept ==
    ASSUME TypeInv, LedgerInv, Quiet, UNCHANGED <<saves, ledger>>
    PROVE  LedgerInv'
    <1>1. LedgerIsEarned'
        BY DEF LedgerInv, LedgerIsEarned
    <1> QED  BY <1>1 DEF LedgerInv, Quiet

\* One more save, which the ticks that sent it go on to record.
LEMMA LedgerLands ==
    ASSUME TypeInv, LedgerInv, Lands
    PROVE  LedgerInv'
    <1>1. PICK x \in Sent, by \in SUBSET Runs : LandsFor(x, by)
        BY DEF Lands
    <1>2. UNCHANGED ledger
        BY <1>1 DEF LandsFor, evidence
    <1>3. \A q \in by : run[q].vault = x.vault /\ run[q].amount = x.amount
        <2>1. by \subseteq Senders(x)
            BY <1>1 DEF LandsFor
        <2> QED  BY <2>1 DEF Senders
    <1>4. CASE UNCHANGED chain /\ \A q \in by : run'[q] = [run[q] EXCEPT !.pc = "reverted"]
        <2>1. ASSUME NEW q \in by PROVE run'[q].pc \notin Recording
            BY <1>4 DEF TypeInv, RunsTyped, Ticks, Recording
        <2>2. Quiet
            BY <1>1, <2>1, LandsTicks DEF Quiet
        <2> QED  BY <1>2, <1>4, <2>2, LedgerKept DEF chain
    <1>5. CASE /\ Fired(x, by)
               /\ \A q \in by : run'[q] = [run[q] EXCEPT !.pc = "landed", !.sig = Len(saves) + 1]
        <2> DEFINE n == Len(saves)
                   s == Record(x, by)
        <2>1. saves' = Append(saves, s)
            BY <1>5 DEF Fired, Record
        <2>2. s.amount = x.amount /\ s.vault = x.vault /\ s.by = by
            BY RecordOf
        <2> HIDE DEF s
        <2>3. /\ n \in Nat /\ DOMAIN saves = 1 .. n /\ DOMAIN saves' = 1 .. n + 1
              /\ saves'[n + 1] = s
              /\ \A i \in DOMAIN saves : saves'[i] = saves[i]
            BY <2>1 DEF TypeInv, ChainTyped
        <2> HIDE DEF n
        <2>4. ASSUME NEW q \in by
              PROVE  run'[q].sig = n + 1 /\ run'[q].amount = x.amount /\ run'[q].vault = x.vault
            <3>1. run[q] \in Ticks /\ run'[q] = [run[q] EXCEPT !.pc = "landed", !.sig = n + 1]
                BY <1>5 DEF n, TypeInv, RunsTyped
            <3>2. run[q].vault = x.vault /\ run[q].amount = x.amount
                BY <1>3
            <3> QED  BY <3>1, <3>2 DEF Ticks
        <2>5. LedgerIsEarned'
            BY <1>2, <2>3 DEF LedgerInv, LedgerIsEarned
        <2>6. \A i \in DOMAIN ledger : ledger[i].sig # n + 1
            BY <2>3 DEF LedgerInv, LedgerIsEarned
        <2>7. ASSUME NEW q \in Runs, run'[q].pc \in Recording
              PROVE  /\ run'[q].sig \in DOMAIN saves'
                     /\ q \in saves'[run'[q].sig].by
                     /\ saves'[run'[q].sig].amount = run'[q].amount
                     /\ saves'[run'[q].sig].vault = run'[q].vault
                     /\ \A i \in DOMAIN ledger' : ledger'[i].sig = run'[q].sig =>
                                                    ledger'[i].by # q
            <3>1. CASE q \in by
                BY <1>2, <2>2, <2>3, <2>4, <2>6, <3>1
            <3>2. CASE q \notin by
                <4>1. run'[q] = run[q]
                    BY <1>1, <3>2, LandsTicks
                <4> QED  BY <1>2, <2>3, <2>7, <4>1 DEF LedgerInv
            <3> QED  BY <3>1, <3>2
        <2> QED  BY <2>5, <2>7 DEF LedgerInv
    <1> QED  BY <1>1, <1>4, <1>5, LandsTicks

LEMMA LedgerInit == Init => LedgerInv
    BY DEF Init, LedgerInv, LedgerIsEarned, Idle, Recording

LEMMA LedgerNext == TypeInv /\ LedgerInv /\ [Next]_vars => LedgerInv'
    <1> SUFFICES ASSUME TypeInv, LedgerInv, [Next]_vars PROVE LedgerInv'
        OBVIOUS
    <1>1. ASSUME NEW r \in Runs, AppendSave(r) PROVE LedgerInv'
        <2> DEFINE row == [obligation |-> ObligationOf[run[r].vault], sig |-> run[r].sig,
                           repaid |-> run[r].amount, ltvAfter |-> run[r].ltv, by |-> r]
        <2>1. /\ ledger' = Append(ledger, row) /\ saves' = saves /\ run[r].pc \in Recording
            BY <1>1 DEF AppendSave, chain, Recording
        <2>2. Quiet /\ run'[r].pc \notin Recording
            BY <1>1, LeavesQuiet DEF Leaves
        <2>3. /\ row.sig = run[r].sig /\ row.repaid = run[r].amount
              /\ row.obligation = ObligationOf[run[r].vault] /\ row.by = r
            OBVIOUS
        <2> HIDE DEF row
        <2>4. /\ DOMAIN ledger' = 1 .. Len(ledger) + 1 /\ DOMAIN ledger = 1 .. Len(ledger)
              /\ ledger'[Len(ledger) + 1] = row
              /\ \A i \in DOMAIN ledger : ledger'[i] = ledger[i]
              /\ Len(ledger) \in Nat
            BY <2>1 DEF TypeInv, FilesTyped
        <2>5. LedgerIsEarned'
            BY <2>1, <2>3, <2>4 DEF LedgerInv, LedgerIsEarned
        <2>6. \A q \in Runs : run'[q].pc \in Recording =>
                    \A i \in DOMAIN ledger' : ledger'[i].sig = run'[q].sig => ledger'[i].by # q
            BY <2>1, <2>2, <2>3, <2>4 DEF LedgerInv, Quiet
        <2> QED  BY <2>1, <2>2, <2>5, <2>6 DEF LedgerInv, Quiet
    <1>2. ASSUME NEW r \in Runs, Leaves(r), ~AppendSave(r) PROVE LedgerInv'
        <2>1. UNCHANGED <<saves, ledger>>
            BY <1>2 DEF Leaves, SkipOpen, Hold, Unreadable, LoadMarketFails, ReadFails, SendFails,
                   Reverted, GiveUp, RereadFails, chain, evidence
        <2> QED  BY <1>2, <2>1, LeavesQuiet, LedgerKept
    <1>3. ASSUME NEW r \in Runs, Ends(r) PROVE LedgerInv'
        <2>1. UNCHANGED <<saves, ledger>>
            BY <1>3, EndsFrame DEF chain
        <2> QED  BY <1>3, <2>1, EndsQuiet, LedgerKept
    <1>4. ASSUME NEW r \in Runs, GoesOn(r) PROVE LedgerInv'
        <2>1. UNCHANGED <<saves, ledger>>
            BY <1>4, GoesOnFrame DEF chain
        <2> QED  BY <1>4, <2>1, GoesOnQuiet, LedgerKept
    <1>5. CASE NoTick
        <2>1. UNCHANGED <<saves, ledger>>
            BY <1>5 DEF NoTick, TimePasses, DropOrphan, Restart, World, MovePrice, BorrowMore,
                   RepayElsewhere, TurnClock, Reclaim, TopUp, Arm, Elsewhere, chain, evidence
        <2> QED  BY <1>5, <2>1, OthersQuiet, LedgerKept
    <1>6. CASE Crash \/ UNCHANGED vars
        <2>1. UNCHANGED <<saves, ledger>>
            BY <1>6 DEF Crash, vars, chain, evidence
        <2> QED  BY <1>6, <2>1, OthersQuiet, LedgerKept
    <1> QED  BY <1>1, <1>2, <1>3, <1>4, <1>5, <1>6, LedgerLands, Steps

\* Every row of saves.jsonl is of a transaction that landed, of its obligation and its amount,
\* and is the only one its tick wrote of it, however ticks overlap, send the same transaction,
\* fail or crash between the landing and the row.
THEOREM LedgerRowsAreSaves == Spec => []LedgerIsEarned
    <1>1. LedgerInv => LedgerIsEarned
        BY DEF LedgerInv
    <1> QED  BY <1>1, LedgerInit, LedgerNext, TypeAlways, PTL DEF Spec

----------------------------------------------------------------------------
(* What it takes to repay beyond the target.                               *)

\* The repays that are decided and have not landed: of ticks, and of no tick.
InFlight == orphans \cup {run[r] : r \in {q \in Runs : run[q].pc \in {"send", "sent"}}}

\* The debt of an obligation and what others have repaid of it: only a save lowers the sum.
Owed(o) == debt[o] + others[o]

\* x leaves the debt it was computed to leave, or more, but for what others than the keeper
\* have repaid since it was decided, unless another save of its loan has landed since.
Aimed(x) ==
    /\ x.vault \in Vaults
    /\ x.amount \in Nat
    /\ x.target \in Nat
    /\ x.seen \in 0 .. Len(saves)
    /\ x.others \in Nat
    /\ (\A i \in x.seen + 1 .. Len(saves) :
            ObligationOf[saves[i].vault] # ObligationOf[x.vault])
        => Owed(ObligationOf[x.vault]) - x.others - x.amount >= x.target

AimInv == \A x \in InFlight : Aimed(x)

\* Two transactions that are the same but for their place.
Same(x, y) ==
    /\ x.vault = y.vault
    /\ x.amount = y.amount
    /\ x.target = y.target
    /\ x.seen = y.seen
    /\ x.others = y.others

LEMMA OwedTyped == TypeInv => \A o \in Obligations : Owed(o) \in Nat
    BY DEF TypeInv, ChainTyped, WorldTyped, Owed

LEMMA AimedStays ==
    ASSUME TypeInv, TypeInv', NEW x, Aimed(x), UNCHANGED saves,
           \A o \in Obligations : Owed(o)' >= Owed(o)
    PROVE  Aimed(x)'
    <1> DEFINE o == ObligationOf[x.vault]
    <1>1. o \in Obligations /\ x.others \in Nat /\ x.amount \in Nat /\ x.target \in Nat
        BY KeeperAssumption DEF Aimed
    <1>2. Owed(o) \in Nat
        BY <1>1, OwedTyped
    <1>3. Owed(o)' \in Nat
        <2>1. debt'[o] \in Nat /\ others'[o] \in Nat
            BY <1>1 DEF TypeInv, ChainTyped, WorldTyped
        <2> QED  BY <2>1 DEF Owed
    <1>4. PICK n \in Nat : n = Owed(o)'
        BY <1>3
    <1>5. n >= Owed(o)
        BY <1>1, <1>4
    <1>6. Owed(o) - x.others - x.amount >= x.target => n - x.others - x.amount >= x.target
        BY <1>1, <1>2, <1>5
    <1>7. Owed(o) - x.others - x.amount >= x.target
                => Owed(o)' - x.others - x.amount >= x.target
        BY <1>4, <1>6
    <1> QED  BY <1>7 DEF Aimed

\* A landing, seen by the transactions still in flight.
LEMMA AimedUnderSave ==
    ASSUME TypeInv, NEW x, Aimed(x), NEW y, Aimed(y), NEW by, Fired(x, by), UNCHANGED others
    PROVE  Aimed(y)'
    <1> DEFINE n == Len(saves)
               s == Record(x, by)
               o == ObligationOf[x.vault]
               p == ObligationOf[y.vault]
    <1>1. /\ o \in Obligations /\ p \in Obligations
          /\ x.amount \in Nat /\ x.vault \in Vaults
          /\ debt \in [Obligations -> Nat]
        BY KeeperAssumption DEF Aimed, TypeInv, ChainTyped
    <1>2. saves' = Append(saves, s) /\ debt' = [debt EXCEPT ![o] = debt[o] - x.amount]
        BY <1>1 DEF Fired, Record
    <1>3. s.vault = x.vault
        BY RecordOf
    <1> HIDE DEF s
    <1>4. /\ n \in Nat /\ Len(saves') = n + 1 /\ saves'[n + 1] = s
          /\ \A i \in 1 .. n : saves'[i] = saves[i]
        BY <1>2 DEF TypeInv, ChainTyped
    <1>5. CASE p = o
        <2>1. n + 1 \in y.seen + 1 .. Len(saves') /\ y.seen \in 0 .. Len(saves')
            BY <1>4 DEF Aimed
        <2>2. ObligationOf[saves'[n + 1].vault] = p
            BY <1>3, <1>4, <1>5
        <2> QED  BY <2>1, <2>2 DEF Aimed
    <1>6. CASE p # o
        <2>1. debt'[p] = debt[p] /\ others'[p] = others[p]
            BY <1>1, <1>2, <1>6
        <2>2. y.seen \in 0 .. n /\ y.seen \in 0 .. Len(saves')
            BY <1>4 DEF Aimed
        <2>3. ASSUME \A i \in y.seen + 1 .. Len(saves') :
                        ObligationOf[saves'[i].vault] # ObligationOf[y.vault]
              PROVE  \A i \in y.seen + 1 .. Len(saves) :
                        ObligationOf[saves[i].vault] # ObligationOf[y.vault]
            BY <1>4, <2>2, <2>3
        <2> QED  BY <2>1, <2>2, <2>3 DEF Aimed, Owed
    <1> QED  BY <1>5, <1>6

LEMMA AimedSame ==
    ASSUME NEW x, NEW y, Same(x, y), Aimed(x)
    PROVE  Aimed(y)
    BY DEF Same, Aimed

\* A fire as it is decided.
LEMMA DecidedIsAimed ==
    ASSUME TypeInv, NEW v \in Vaults, Repay(v) > 0, UNCHANGED <<saves, debt, others>>,
           NEW x, x.vault = v, x.amount = Repay(v), x.target = Target(v), x.seen = Len(saves),
           x.others = others[ObligationOf[v]]
    PROVE  Aimed(x)'
    <1> DEFINE o == ObligationOf[v]
    <1>1. /\ Repay(v) \in Nat /\ Target(v) \in Nat
          /\ debt[o] - Repay(v) >= Target(v)
        BY AmountsAreNatural, TypeInvImpliesTypeOK
    <1>2. Len(saves) \in Nat
        BY DEF TypeInv, ChainTyped
    <1>3. debt[o] \in Nat /\ others[o] \in Nat
        BY KeeperAssumption DEF TypeInv, ChainTyped, WorldTyped
    <1>4. debt[o] + others[o] - others[o] - Repay(v) >= Target(v)
        BY <1>1, <1>3
    <1>5. Owed(o)' = debt[o] + others[o]
        BY DEF Owed
    <1> QED  BY <1>1, <1>2, <1>3, <1>4, <1>5 DEF Aimed

\* What is in flight was in flight, or has just been decided.
LEMMA InFlightFrom ==
    ASSUME TypeInv, [Next]_vars, NEW x \in InFlight'
    PROVE  \/ \E y \in InFlight : Same(y, x)
           \/ \E r \in Runs, v \in Vaults : Decide(r, v) /\ x = run'[r]
    <1>1. ASSUME x \in orphans PROVE \E y \in InFlight : Same(y, x)
        BY <1>1 DEF InFlight, Same
    <1>2. ASSUME NEW r \in Runs, run[r].pc \in {"send", "sent"}
          PROVE  run[r] \in InFlight
        BY <1>2 DEF InFlight
    <1>3. ASSUME NEW r \in Runs, run[r].pc = "sent", x = Orphan(r)
          PROVE  \E y \in InFlight : Same(y, x)
        <2>1. Same(run[r], x)
            BY <1>3 DEF Orphan, Same
        <2> QED  BY <1>2, <1>3, <2>1
    <1>4. ASSUME NEW r \in Runs, x = run'[r], run'[r].pc \in {"send", "sent"}, run'[r] = run[r]
          PROVE  \E y \in InFlight : Same(y, x)
        BY <1>2, <1>4 DEF Same
    <1>5. ASSUME NEW r \in Runs, Leaves(r) PROVE \E y \in InFlight : Same(y, x)
        <2>1. orphans' = orphans \/ (run[r].pc = "sent" /\ orphans' = orphans \cup {Orphan(r)})
            BY <1>5 DEF Leaves, SkipOpen, Hold, Unreadable, LoadMarketFails, ReadFails, SendFails,
                   Reverted, GiveUp, RereadFails, AppendSave
        <2>2. run'[r].pc \notin {"send", "sent"} /\ \A q \in Runs \ {r} : run'[q] = run[q]
            BY <1>5, LeavesAway
        <2> QED  BY <1>1, <1>3, <1>4, <2>1, <2>2 DEF InFlight
    <1>6. ASSUME NEW r \in Runs, Ends(r) PROVE \E y \in InFlight : Same(y, x)
        <2>1. orphans' = orphans
            BY <1>6, EndsFrame
        <2>2. run'[r].pc \notin {"send", "sent"} /\ \A q \in Runs \ {r} : run'[q] = run[q]
            BY <1>6, EndsAway
        <2> QED  BY <1>1, <1>4, <2>1, <2>2 DEF InFlight
    <1>7. ASSUME NEW r \in Runs, GoesOn(r)
          PROVE  \/ \E y \in InFlight : Same(y, x)
                 \/ \E v \in Vaults : Decide(r, v) /\ x = run'[r]
        <2>1. orphans' = orphans /\ \A q \in Runs \ {r} : run'[q] = run[q]
            BY <1>7 DEF GoesOn, Poll, Load, SeeClosed, Decide, Send, Confirm, ReclockOpen,
                   ReclockClosed, Measure, Log, TypeInv, RunsTyped
        <2>2. CASE Send(r) /\ x = run'[r]
            <3>1. Same(run[r], x)
                BY <2>2 DEF Send, Same, TypeInv, RunsTyped, Ticks
            <3> QED  BY <1>2, <2>2, <3>1 DEF Send
        <2>3. ASSUME ~Send(r), ~(\E v \in Vaults : Decide(r, v))
              PROVE  run'[r].pc \notin {"send", "sent"}
            <3>1. run[r] \in Ticks /\ r \in DOMAIN run
                BY DEF TypeInv, RunsTyped
            <3>2. Between(armed, <<>>).pc = "vaults"
                BY DEF Between, Idle
            <3>3. CASE Load(r)
                BY <3>1, <3>2, <3>3 DEF Load
            <3>4. CASE Poll(r) \/ Confirm(r) \/ ReclockOpen(r) \/ ReclockClosed(r)
                       \/ Measure(r) \/ Log(r)
                BY <3>1, <3>4 DEF Poll, Confirm, ReclockOpen, ReclockClosed, Measure, Log, Ticks
            <3>5. ASSUME NEW v \in Vaults, SeeClosed(r, v) PROVE run'[r].pc = "detect"
                BY <3>1, <3>5 DEF SeeClosed, Ticks
            <3> QED  BY <1>7, <2>3, <3>3, <3>4, <3>5 DEF GoesOn
        <2> QED  BY <1>1, <1>4, <2>1, <2>2, <2>3 DEF InFlight
    <1>8. CASE NoTick \/ UNCHANGED vars
        <2>1. UNCHANGED run /\ orphans' \subseteq orphans
            BY <1>8 DEF NoTick, vars, TimePasses, DropOrphan, Restart, World, MovePrice,
                        BorrowMore, RepayElsewhere, TurnClock, Reclaim, TopUp, Arm, Elsewhere
        <2> QED  BY <1>1, <1>4, <2>1 DEF InFlight
    <1>9. CASE Crash
        <2>1. /\ \A q \in Runs : run'[q].pc = "idle"
              /\ orphans' = orphans \cup {Orphan(r) : r \in {q \in Runs : run[q].pc = "sent"}}
            BY <1>9 DEF Crash, Idle
        <2> QED  BY <1>1, <1>3, <2>1 DEF InFlight
    <1>10. CASE Lands
        <2>1. PICK y \in Sent, by \in SUBSET Runs : LandsFor(y, by)
            BY <1>10 DEF Lands
        <2>2. orphans' \subseteq orphans
            BY <2>1 DEF LandsFor
        <2>3. ASSUME NEW q \in by PROVE run'[q].pc \notin {"send", "sent"}
            <3>1. run[q] \in Ticks
                BY DEF TypeInv, RunsTyped
            <3> DEFINE n == Len(saves) + 1
            <3>2. \/ run'[q] = [run[q] EXCEPT !.pc = "landed", !.sig = n]
                  \/ run'[q] = [run[q] EXCEPT !.pc = "reverted"]
                BY <2>1, LandsTicks
            <3> HIDE DEF n
            <3> QED  BY <3>1, <3>2 DEF Ticks
        <2>4. \A q \in Runs \ by : run'[q] = run[q]
            BY <2>1, LandsTicks
        <2> QED  BY <1>1, <1>4, <2>2, <2>3, <2>4 DEF InFlight
    <1> QED  BY <1>5, <1>6, <1>7, <1>8, <1>9, <1>10, Steps

\* What becomes of the debts: a landing, or nothing that lowers them but others' repays.
LEMMA DebtStep ==
    ASSUME TypeInv, [Next]_vars
    PROVE  \/ UNCHANGED saves /\ \A o \in Obligations : Owed(o)' >= Owed(o)
           \/ /\ UNCHANGED others
              /\ \E x \in InFlight, by \in SUBSET Runs : Executes(x.vault, x.amount) /\ Fired(x, by)
    <1>1. ASSUME UNCHANGED <<debt, others>> PROVE \A o \in Obligations : Owed(o)' >= Owed(o)
        BY <1>1 DEF Owed, TypeInv, ChainTyped, WorldTyped
    <1>2. CASE Lands
        <2>1. UNCHANGED others
            BY <1>2 DEF Lands, LandsFor, world
        <2>2. Sent \subseteq InFlight
            BY DEF Sent, InFlight
        <2> QED  BY <1>1, <1>2, <2>1, <2>2, LandsChain DEF chain
    <1>3. CASE World
        <2>1. ASSUME NEW o \in Obligations, BorrowMore(o) \/ RepayElsewhere(o)
              PROVE  UNCHANGED saves /\ \A p \in Obligations : Owed(p)' >= Owed(p)
            <3>1. \A p \in Obligations : debt[p] \in Nat /\ others[p] \in Nat
                BY DEF TypeInv, ChainTyped, WorldTyped
            <3>2. CASE BorrowMore(o)
                <4>1. \A p \in Obligations : /\ debt'[p] = IF p = o THEN debt[p] + 1 ELSE debt[p]
                                             /\ others'[p] = others[p]
                    BY <3>2 DEF BorrowMore, TypeInv, ChainTyped
                <4> QED  BY <3>1, <3>2, <4>1 DEF Owed, BorrowMore, Elsewhere
            <3>3. CASE RepayElsewhere(o)
                <4>1. \A p \in Obligations :
                        /\ debt'[p] = IF p = o THEN debt[p] - 1 ELSE debt[p]
                        /\ others'[p] = IF p = o THEN others[p] + 1 ELSE others[p]
                    BY <3>3 DEF RepayElsewhere, TypeInv, ChainTyped, WorldTyped
                <4> QED  BY <3>1, <3>3, <4>1 DEF Owed, RepayElsewhere, Elsewhere
            <3> QED  BY <2>1, <3>2, <3>3
        <2>2. \/ UNCHANGED <<saves, debt, others>>
              \/ \E o \in Obligations : BorrowMore(o) \/ RepayElsewhere(o)
            BY <1>3 DEF World, MovePrice, TurnClock, Reclaim, TopUp, Arm, Elsewhere
        <2> QED  BY <1>1, <2>1, <2>2
    <1>4. ASSUME UNCHANGED <<chain, others>>
          PROVE  UNCHANGED saves /\ \A o \in Obligations : Owed(o)' >= Owed(o)
        BY <1>1, <1>4 DEF chain
    <1>5. ASSUME NEW r \in Runs, Leaves(r) \/ Ends(r) \/ GoesOn(r) PROVE UNCHANGED <<chain, others>>
        <2>1. UNCHANGED others
            BY <1>5, LeavesFrame, EndsFrame, GoesOnFrame DEF world
        <2>2. UNCHANGED chain
            BY <1>5, EndsFrame, GoesOnFrame DEF Leaves, SkipOpen, Hold, Unreadable,
                   LoadMarketFails, ReadFails, SendFails, Reverted, GiveUp, RereadFails, AppendSave
        <2> QED  BY <2>1, <2>2
    <1>6. ASSUME NoTick, ~World PROVE UNCHANGED <<chain, others>>
        BY <1>6 DEF NoTick, TimePasses, DropOrphan, Restart, world
    <1>7. CASE Crash \/ UNCHANGED vars
        <2>1. UNCHANGED <<chain, others>>
            BY <1>7 DEF Crash, vars, world
        <2> QED  BY <2>1, <1>4
    <1> QED  BY <1>2, <1>3, <1>4, <1>5, <1>6, <1>7, Steps

LEMMA AimInit == Init => AimInv
    BY DEF Init, AimInv, InFlight, Idle

LEMMA AimNext == TypeInv /\ TypeInv' /\ AimInv /\ [Next]_vars => AimInv'
    <1> SUFFICES ASSUME TypeInv, TypeInv', AimInv, [Next]_vars, NEW x \in InFlight'
                 PROVE  Aimed(x)'
        BY DEF AimInv
    <1>1. ASSUME NEW y \in InFlight, Same(y, x) PROVE Aimed(x)'
        <2>1. Aimed(x)
            BY <1>1, AimedSame DEF AimInv
        <2>2. CASE UNCHANGED saves /\ \A o \in Obligations : Owed(o)' >= Owed(o)
            BY <2>1, <2>2, AimedStays
        <2>3. ASSUME NEW z \in InFlight, NEW by, Fired(z, by), UNCHANGED others PROVE Aimed(x)'
            BY <2>1, <2>3, AimedUnderSave DEF AimInv
        <2> QED  BY <2>2, <2>3, DebtStep
    <1>2. ASSUME NEW r \in Runs, NEW v \in Vaults, Decide(r, v), x = run'[r] PROVE Aimed(x)'
        <2>1. /\ x.vault = v /\ x.amount = Repay(v) /\ x.target = Target(v)
              /\ x.seen = Len(saves) /\ x.others = others[ObligationOf[v]]
            BY <1>2 DEF Decide, Detecting, TypeInv, RunsTyped, Ticks
        <2>2. Repay(v) > 0 /\ UNCHANGED <<saves, debt, others>>
            BY <1>2 DEF Decide, chain, world
        <2> QED  BY <2>1, <2>2, DecidedIsAimed
    <1> QED  BY <1>1, <1>2, InFlightFrom

\* A save that leaves less debt than it was computed to leave, beyond what the owner or others
\* have repaid since, comes after another save of the same loan that landed since it was
\* decided, by an overlapping tick or a transaction its own tick gave up; no move of prices,
\* of the clock or of the owner is enough.
THEOREM BeyondTakesTwo == Spec => OverRepayTakesTwo
    <1> DEFINE Step ==
            saves' # saves =>
                LET last == saves'[Len(saves')]
                    o == ObligationOf[last.vault]
                IN  debt'[o] + RepaidSince(last) < last.target =>
                        \E i \in last.seen + 1 .. Len(saves) : ObligationOf[saves[i].vault] = o
    <1>1. TypeInv /\ AimInv /\ [Next]_vars => [Step]_vars
        <2> SUFFICES ASSUME TypeInv, AimInv, [Next]_vars PROVE Step
            OBVIOUS
        <2>1. ASSUME NEW x \in InFlight, NEW by, Fired(x, by) PROVE Step
            <3> DEFINE s == Record(x, by)
                       o == ObligationOf[x.vault]
            <3>1. /\ Aimed(x) /\ o \in Obligations /\ debt \in [Obligations -> Nat]
                  /\ others[o] \in Nat /\ x.others \in Nat
                  /\ x.amount \in Nat /\ x.target \in Nat
                BY <2>1, KeeperAssumption DEF AimInv, Aimed, TypeInv, ChainTyped, WorldTyped
            <3>2. saves' = Append(saves, s) /\ debt' = [debt EXCEPT ![o] = debt[o] - x.amount]
                BY <2>1, <3>1 DEF Fired, Record
            <3>3. /\ s.vault = x.vault /\ s.target = x.target /\ s.seen = x.seen
                  /\ s.others = x.others
                BY RecordOf
            <3> HIDE DEF s
            <3>4. saves'[Len(saves')] = s
                BY <3>2 DEF TypeInv, ChainTyped
            <3>5. debt'[o] = debt[o] - x.amount /\ debt[o] \in Nat
                BY <3>1, <3>2
            <3>6. Owed(o) - x.others - x.amount = debt'[o] + (others[o] - x.others)
                BY <3>1, <3>5 DEF Owed
            <3>7. debt'[o] + (others[o] - x.others) \in Int
                BY <3>1, <3>5
            <3> DEFINE left == debt'[o] + (others[o] - x.others)
            <3>8. left < x.target =>
                    \E i \in x.seen + 1 .. Len(saves) : ObligationOf[saves[i].vault] = o
                <4>1. left = Owed(o) - x.others - x.amount /\ left \in Int
                    BY <3>6, <3>7
                <4> HIDE DEF left
                <4> QED  BY <3>1, <4>1 DEF Aimed
            <3> QED  BY <3>3, <3>4, <3>8 DEF RepaidSince
        <2>2. CASE UNCHANGED saves
            BY <2>2
        <2> QED  BY <2>1, <2>2, DebtStep
    <1>2. Spec => [](TypeInv /\ AimInv)
        BY TypeInit, TypeNext, AimInit, AimNext, PTL DEF Spec
    <1> QED  BY <1>1, <1>2, PTL DEF Spec, OverRepayTakesTwo

----------------------------------------------------------------------------
(* What it takes for a single protective repay.                            *)

\* Ticks take turns, and none gives up a transaction.
OneAtATime ==
    /\ \A q, r \in Runs : q = r
    /\ MaxFailures = 0
    /\ MaxCrashes = 0

\* Nothing has landed since a repay in flight was decided.
AloneInv == orphans = {} /\ \A x \in InFlight : x.seen = Len(saves)

LEMMA AloneInit == Init => AloneInv
    BY DEF Init, AloneInv, InFlight, Idle

\* The order of the landings is that of the ticks.
LEMMA AloneNext == OneAtATime /\ TypeInv /\ AloneInv /\ [Next]_vars => AloneInv'
    <1> SUFFICES ASSUME OneAtATime, TypeInv, AloneInv, [Next]_vars PROVE AloneInv'
        OBVIOUS
    <1>1. failures = 0 /\ crashes = 0
        BY DEF OneAtATime, TypeInv, ProcessTyped
    <1>2. ~Crash /\ \A r \in Runs : ~GiveUp(r)
        BY <1>1 DEF OneAtATime, Crash, GiveUp
    <1>3. orphans' = {}
        <2>1. ASSUME NEW r \in Runs, Leaves(r) PROVE UNCHANGED orphans
            BY <1>2, <2>1 DEF Leaves, SkipOpen, Hold, Unreadable, LoadMarketFails, ReadFails,
                   SendFails, Reverted, RereadFails, AppendSave
        <2>2. ASSUME NEW r \in Runs, Ends(r) \/ GoesOn(r) PROVE UNCHANGED orphans
            BY <2>2, EndsFrame, GoesOnFrame
        <2>3. CASE NoTick \/ UNCHANGED vars
            BY <2>3 DEF AloneInv, NoTick, vars, TimePasses, DropOrphan, Restart, World, MovePrice,
                        BorrowMore, RepayElsewhere, TurnClock, Reclaim, TopUp, Arm, Elsewhere
        <2>4. CASE Lands
            BY <2>4 DEF AloneInv, Lands, LandsFor
        <2> QED  BY <1>2, <2>1, <2>2, <2>3, <2>4, Steps DEF AloneInv
    <1>4. CASE UNCHANGED saves
        <2>1. ASSUME NEW x \in InFlight' PROVE x.seen = Len(saves)
            <3>1. ASSUME NEW y \in InFlight, Same(y, x) PROVE x.seen = Len(saves)
                BY <3>1 DEF AloneInv, Same
            <3>2. ASSUME NEW r \in Runs, NEW v \in Vaults, Decide(r, v), x = run'[r]
                  PROVE  x.seen = Len(saves)
                <4> DEFINE ltv == IF MarketOf[v] = Kamino THEN LtvNow(v) ELSE 0
                           n == Len(saves)
                           m == others[ObligationOf[v]]
                           y == [run[r] EXCEPT !.pc = "send", !.amount = Repay(v),
                                               !.target = Target(v), !.seen = n,
                                               !.others = m, !.ltv = ltv]
                <4>1. run' = [run EXCEPT ![r] = y]
                    BY <3>2 DEF Decide, TypeInv, RunsTyped
                <4>2. run[r] \in Ticks /\ x = y
                    BY <3>2, <4>1 DEF TypeInv, RunsTyped
                <4>3. y.seen = n
                    <5> HIDE DEF n, m, ltv
                    <5> QED  BY <4>2 DEF Ticks
                <4> QED  BY <4>2, <4>3
            <3> QED  BY <3>1, <3>2, InFlightFrom
        <2> QED  BY <1>3, <1>4, <2>1 DEF AloneInv
    <1>5. CASE Lands /\ saves' # saves
        <2>1. PICK x \in Sent, by \in SUBSET Runs : LandsFor(x, by)
            BY <1>5 DEF Lands
        <2>2. orphans = {}
            BY DEF AloneInv
        <2>3. PICK q \in Runs : q \in by
            BY <2>1, <2>2 DEF LandsFor
        <2>4. by = Runs
            BY <2>3 DEF OneAtATime
        <2>5. ASSUME NEW r \in Runs PROVE run'[r].pc \notin {"send", "sent"}
            <3>1. run[r] \in Ticks
                BY DEF TypeInv, RunsTyped
            <3> DEFINE n == Len(saves) + 1
            <3>2. \/ run'[r] = [run[r] EXCEPT !.pc = "landed", !.sig = n]
                  \/ run'[r] = [run[r] EXCEPT !.pc = "reverted"]
                BY <2>1, <2>4, LandsTicks
            <3> HIDE DEF n
            <3> QED  BY <3>1, <3>2 DEF Ticks
        <2> QED  BY <1>3, <2>5 DEF AloneInv, InFlight
    <1>6. CASE ~Lands
        <2>1. orphans = {}
            BY DEF AloneInv
        <2>2. CASE World
            BY <1>4, <2>2 DEF World, MovePrice, BorrowMore, RepayElsewhere, TurnClock, Reclaim,
                   TopUp, Arm, Elsewhere
        <2>3. CASE UNCHANGED vars
            BY <1>4, <2>3 DEF vars, chain
        <2>4. CASE Next
            <3>1. UNCHANGED chain \/ World
                BY <1>2, <1>6, <2>1, <2>4, ChainFrame
            <3> QED  BY <1>4, <2>2, <3>1 DEF chain
        <2> QED  BY <2>3, <2>4
    <1> QED  BY <1>4, <1>5, <1>6

\* The "single protective repay" of README.md holds for a keeper that waits for a tick before
\* it starts the next (index.ts does not) and learns how each of its transactions ended: it
\* repays beyond the target by no more than the owner or others have repaid since it read.
THEOREM RepaysOnceOneAtATime == OneAtATime => (Spec => NeverBeyondTheBuffer)
    <1> SUFFICES ASSUME OneAtATime PROVE Spec => NeverBeyondTheBuffer
        OBVIOUS
    <1> DEFINE Aim ==
            saves' # saves =>
                LET last == saves'[Len(saves')]
                    o == ObligationOf[last.vault]
                IN  debt'[o] + RepaidSince(last) < last.target =>
                        \E i \in last.seen + 1 .. Len(saves) : ObligationOf[saves[i].vault] = o
               Step ==
            saves' # saves =>
                LET last == saves'[Len(saves')]
                IN  debt'[ObligationOf[last.vault]] + RepaidSince(last) >= last.target
    <1>1. TypeInv /\ TypeInv' /\ AimInv /\ AloneInv /\ [Next]_vars /\ [Aim]_vars => [Step]_vars
        <2> HIDE DEF Aim, Step
        <2> SUFFICES ASSUME TypeInv, TypeInv', AimInv, AloneInv, [Next]_vars, [Aim]_vars,
                            ~UNCHANGED vars
                     PROVE  Step
            OBVIOUS
        <2> SUFFICES ASSUME saves' # saves PROVE Step
            BY DEF Step
        <2>0. Aim
            OBVIOUS
        <2>1. PICK x \in InFlight, by \in SUBSET Runs : Fired(x, by)
            BY DebtStep
        <2> DEFINE s == Record(x, by)
                   o == ObligationOf[s.vault]
                   left == debt'[o] + RepaidSince(s)
        <2>2. /\ saves' = Append(saves, s) /\ s.seen = Len(saves)
              /\ s.vault \in Vaults /\ s.target \in Nat /\ s.others \in Nat
            BY <2>1, RecordOf DEF Fired, Record, AloneInv, AimInv, Aimed
        <2> HIDE DEF s
        <2>3. saves'[Len(saves')] = s /\ Len(saves) \in Nat
            BY <2>2 DEF TypeInv, ChainTyped
        <2>4. left \in Int
            <3>1. debt' \in [Obligations -> Nat] /\ others \in [Obligations -> Nat]
                BY DEF TypeInv, ChainTyped, WorldTyped
            <3>2. o \in Obligations
                BY <2>2, KeeperAssumption
            <3>3. debt'[o] \in Nat /\ others[o] \in Nat
                BY <3>1, <3>2
            <3> QED  BY <2>2, <3>3 DEF RepaidSince
        <2>5. s.seen + 1 .. Len(saves) = {}
            BY <2>2, <2>3
        <2>6. ~(left < s.target)
            BY <2>0, <2>3, <2>5 DEF Aim
        <2>7. left >= s.target
            <3> HIDE DEF left
            <3> QED  BY <2>2, <2>4, <2>6
        <2> QED  BY <2>3, <2>7 DEF Step
    <1>2. Spec => [](TypeInv /\ AimInv /\ AloneInv)
        BY TypeInit, TypeNext, AimInit, AimNext, AloneInit, AloneNext, PTL DEF Spec
    <1> QED  BY <1>1, <1>2, BeyondTakesTwo, PTL DEF Spec, OverRepayTakesTwo, NeverBeyondTheBuffer

----------------------------------------------------------------------------
(* How many saves are missing from the ledger.                             *)

Orphaned == Cardinality(orphans)
Missing == Cardinality(Lost)
Crashed == crashes * Cardinality(Runs)

\* A transaction that nobody waits for is counted as lost when it is abandoned, not when it
\* lands: the inequality holds with all of them landed.
CountInv ==
    /\ IsFiniteSet(orphans)
    /\ Missing + Orphaned <= failures + Crashed

\* Every number in it is one.
LEMMA Numbers ==
    ASSUME TypeInv, IsFiniteSet(orphans)
    PROVE  /\ failures \in Nat /\ crashes \in Nat
           /\ Orphaned \in Nat /\ Missing \in Nat /\ Crashed \in Nat
           /\ IsFiniteSet(Runs) /\ Cardinality(Runs) \in Nat
           /\ IsFiniteSet(Unrecorded) /\ IsFiniteSet(Lost)
    <1>1. IsFiniteSet(Runs)
        BY KeeperAssumption
    <1>2. IsFiniteSet(Unrecorded)
        BY <1>1, FS_Subset DEF Unrecorded
    <1>3. IsFiniteSet(Lost)
        <2>1. DOMAIN saves = 1 .. Len(saves) /\ Len(saves) \in Nat
            BY DEF TypeInv, ChainTyped
        <2>2. IsFiniteSet(1 .. Len(saves))
            BY <2>1, FS_Interval
        <2>3. Lost \subseteq 1 .. Len(saves)
            BY <2>1 DEF Lost
        <2> QED  BY <2>2, <2>3, FS_Subset
    <1>4. Cardinality(Runs) \in Nat /\ Missing \in Nat /\ Orphaned \in Nat
        BY <1>1, <1>3, FS_CardinalityType DEF Missing, Orphaned
    <1>5. failures \in Nat /\ crashes \in Nat
        BY KeeperAssumption DEF TypeInv, ProcessTyped
    <1>6. Crashed \in Nat
        BY <1>4, <1>5, SMT DEF Crashed
    <1> QED  BY <1>1, <1>2, <1>3, <1>4, <1>5, <1>6

LEMMA CountInit == Init => CountInv
    <1> SUFFICES ASSUME Init PROVE CountInv
        OBVIOUS
    <1>1. Lost = {}
        BY DEF Init, Lost
    <1>2. orphans = {} /\ failures = 0 /\ crashes = 0
        BY DEF Init
    <1>3. Cardinality(Runs) \in Nat
        BY KeeperAssumption, FS_CardinalityType
    <1>4. IsFiniteSet({}) /\ Cardinality({}) = 0
        BY FS_EmptySet
    <1>5. Orphaned = 0 /\ Missing = 0 /\ Crashed = 0
        BY <1>1, <1>2, <1>3, <1>4, SMT DEF Orphaned, Missing, Crashed
    <1> QED  BY <1>2, <1>4, <1>5 DEF CountInv

\* No more saves are lost, or one more.
LEMMA FewerLost ==
    ASSUME TypeInv, IsFiniteSet(orphans), NEW S, S \subseteq Lost
    PROVE  Cardinality(S) \in Nat /\ Cardinality(S) <= Missing
    BY Numbers, FS_Subset, FS_CardinalityType DEF Missing

LEMMA OneMoreLost ==
    ASSUME TypeInv, IsFiniteSet(orphans), NEW n, NEW S, S \subseteq Lost \cup {n}
    PROVE  Cardinality(S) \in Nat /\ Cardinality(S) <= Missing + 1
    <1>1. /\ IsFiniteSet(Lost \cup {n})
          /\ Cardinality(Lost \cup {n}) \in {Missing, Missing + 1}
        BY Numbers, FS_AddElement DEF Missing
    <1>2. Cardinality(S) \in Nat /\ Cardinality(S) <= Cardinality(Lost \cup {n})
        BY <1>1, FS_Subset, FS_CardinalityType
    <1> QED  BY <1>1, <1>2, Numbers

\* The sum after a step, by what the step adds to each side of it.
LEMMA CountStep ==
    ASSUME TypeInv, TypeInv', CountInv, IsFiniteSet(orphans'), NEW i \in Nat, NEW j \in Int,
           Missing' <= Missing + i, Orphaned' <= Orphaned + j,
           i + j <= (failures' - failures) + (Crashed' - Crashed)
    PROVE  CountInv'
    <1>1. (TypeInv /\ IsFiniteSet(orphans) =>
                /\ Missing \in Nat /\ Orphaned \in Nat /\ failures \in Nat /\ Crashed \in Nat)'
        BY Numbers, PTL
    <1>2. /\ Missing \in Nat /\ Orphaned \in Nat /\ failures \in Nat /\ Crashed \in Nat
        BY Numbers DEF CountInv
    <1>3. PICK m \in Nat : m = Missing'
        BY <1>1
    <1>4. PICK n \in Nat : n = Orphaned'
        BY <1>1
    <1>5. PICK f \in Nat : f = failures'
        BY <1>1
    <1>6. PICK c \in Nat : c = Crashed'
        BY <1>1
    <1>7. /\ m <= Missing + i
          /\ n <= Orphaned + j
          /\ i + j <= (f - failures) + (c - Crashed)
          /\ Missing + Orphaned <= failures + Crashed
        BY <1>3, <1>4, <1>5, <1>6 DEF CountInv
    <1>8. m + n <= f + c
        BY <1>2, <1>7
    <1> QED  BY <1>3, <1>4, <1>5, <1>6, <1>8 DEF CountInv

\* Which ticks are recording after a step of one of them.
LEMMA UnrecordedAfter ==
    ASSUME NEW r \in Runs, \A q \in Runs \ {r} : run'[q] = run[q]
    PROVE  Unrecorded' = IF run'[r].pc \in Recording THEN Unrecorded \cup {r}
                         ELSE Unrecorded \ {r}
    BY DEF Unrecorded, Recording

\* The ticks that record go on to record the same saves: nothing is lost.
LEMMA LostKept ==
    ASSUME Quiet, Unrecorded' = Unrecorded, UNCHANGED <<saves, ledger>>
    PROVE  Lost' = Lost
    BY DEF Lost, Quiet, Unrecorded, Recording

LEMMA CountKept ==
    ASSUME TypeInv, TypeInv', CountInv, Lost' = Lost, orphans' \subseteq orphans,
           UNCHANGED crashes, failures' \in {failures, failures + 1}
    PROVE  CountInv'
    <1>1. IsFiniteSet(orphans) /\ failures \in Nat /\ Crashed \in Int
        BY Numbers DEF CountInv
    <1>2. IsFiniteSet(orphans') /\ Orphaned' <= Orphaned + 0
        BY <1>1, FS_Subset, FS_CardinalityType DEF Orphaned
    <1>3. Missing' = Missing /\ Crashed' = Crashed
        BY DEF Missing, Crashed
    <1>4. Missing' <= Missing + 0
        BY <1>1, <1>3, Numbers
    <1>5. 0 + 0 <= (failures' - failures) + (Crashed' - Crashed)
        <2>1. CASE failures' = failures
            BY <1>1, <1>3, <2>1
        <2>2. CASE failures' = failures + 1
            BY <1>1, <1>3, <2>2
        <2> QED  BY <2>1, <2>2
    <1> QED  BY <1>2, <1>4, <1>5, CountStep

LEMMA CountLeaves ==
    ASSUME TypeInv, TypeInv', CountInv, NEW r \in Runs, Leaves(r)
    PROVE  CountInv'
    <1>1. \A q \in Runs \ {r} : run'[q] = run[q]
        BY LeavesAway
    <1>2. Unrecorded' = Unrecorded \ {r}
        BY LeavesAway, UnrecordedAfter DEF Recording
    <1>3. UNCHANGED <<saves, crashes>>
        BY LeavesFrame DEF Leaves, SkipOpen, Hold, Unreadable, LoadMarketFails, ReadFails,
               SendFails, Reverted, GiveUp, RereadFails, AppendSave, chain, process
    <1>4. IsFiniteSet(orphans) /\ failures \in Nat /\ Crashed \in Nat /\ Crashed' = Crashed
          /\ Orphaned \in Nat /\ Missing \in Nat
        BY <1>3, Numbers DEF CountInv, Crashed
    <1>5. CASE AppendSave(r)
        <2> DEFINE row == [obligation |-> ObligationOf[run[r].vault], sig |-> run[r].sig,
                           repaid |-> run[r].amount, ltvAfter |-> run[r].ltv, by |-> r]
        <2>1. ledger' = Append(ledger, row) /\ UNCHANGED <<orphans, failures>>
            BY <1>5 DEF AppendSave
        <2>2. row.sig = run[r].sig
            OBVIOUS
        <2> HIDE DEF row
        <2>3. /\ DOMAIN ledger' = 1 .. Len(ledger) + 1 /\ DOMAIN ledger = 1 .. Len(ledger)
              /\ ledger'[Len(ledger) + 1] = row
              /\ \A i \in DOMAIN ledger : ledger'[i] = ledger[i]
              /\ Len(ledger) \in Nat
            BY <2>1 DEF TypeInv, FilesTyped
        <2>4. ASSUME NEW s \in Lost' PROVE s \in Lost
            <3>1. s \in DOMAIN saves /\ \A i \in DOMAIN ledger' : ledger'[i].sig # s
                BY <1>3 DEF Lost
            <3>2. \A i \in DOMAIN ledger : ledger[i].sig # s
                BY <2>3, <3>1
            <3>3. run[r].sig # s
                BY <2>2, <2>3, <3>1
            <3>4. \A q \in Unrecorded \ {r} : run[q].sig # s
                BY <1>1, <1>2 DEF Lost, Unrecorded
            <3> QED  BY <3>1, <3>2, <3>3, <3>4 DEF Lost
        <2>5. Missing' \in Nat /\ Missing' <= Missing
            BY <1>4, <2>4, FewerLost DEF Missing
        <2>6. Missing' <= Missing + 0
            BY <1>4, <2>5
        <2>7. IsFiniteSet(orphans') /\ Orphaned' <= Orphaned + 0
            BY <1>4, <2>1 DEF Orphaned
        <2>8. 0 + 0 <= (failures' - failures) + (Crashed' - Crashed)
            BY <1>4, <2>1
        <2> QED  BY <2>6, <2>7, <2>8, CountStep
    <1>6. CASE RereadFails(r) \/ (GiveUp(r) /\ run[r].pc = "landed")
        <2>1. UNCHANGED <<orphans, ledger>> /\ failures' = failures + 1
            BY <1>6 DEF RereadFails, GiveUp, evidence
        <2>2. ASSUME NEW s \in Lost' PROVE s \in Lost \cup {run[r].sig}
            <3>1. s \in DOMAIN saves /\ \A i \in DOMAIN ledger : ledger[i].sig # s
                BY <1>3, <2>1 DEF Lost
            <3>2. \A q \in Unrecorded \ {r} : run[q].sig # s
                BY <1>1, <1>2 DEF Lost, Unrecorded
            <3> QED  BY <3>1, <3>2 DEF Lost
        <2>3. Missing' <= Missing + 1
            BY <1>4, <2>2, OneMoreLost DEF Missing
        <2>4. IsFiniteSet(orphans') /\ Orphaned' <= Orphaned + 0
            BY <1>4, <2>1 DEF Orphaned
        <2>5. 1 + 0 <= (failures' - failures) + (Crashed' - Crashed)
            BY <1>4, <2>1
        <2> QED  BY <2>3, <2>4, <2>5, CountStep
    <1>7. CASE GiveUp(r) /\ run[r].pc = "sent"
        <2>1. /\ UNCHANGED ledger /\ failures' = failures + 1
              /\ orphans' = orphans \cup {Orphan(r)} /\ r \notin Unrecorded
            BY <1>7 DEF GiveUp, evidence, Unrecorded
        <2>2. /\ IsFiniteSet(orphans \cup {Orphan(r)})
              /\ \/ Cardinality(orphans \cup {Orphan(r)}) = Cardinality(orphans)
                 \/ Cardinality(orphans \cup {Orphan(r)}) = Cardinality(orphans) + 1
            <3> HIDE DEF Orphan
            <3> QED  BY <1>4, FS_AddElement
        <2>3. IsFiniteSet(orphans') /\ Orphaned' <= Orphaned + 1
            BY <1>4, <2>1, <2>2 DEF Orphaned
        <2>4. Lost' = Lost
            <3>1. Unrecorded' = Unrecorded
                BY <1>2, <2>1
            <3> QED  BY <1>3, <2>1, <3>1, LeavesQuiet, LostKept
        <2>5. Missing' <= Missing + 0
            BY <1>4, <2>4 DEF Missing
        <2>6. 0 + 1 <= (failures' - failures) + (Crashed' - Crashed)
            BY <1>4, <2>1
        <2> QED  BY <2>3, <2>5, <2>6, CountStep
    <1>8. CASE ~AppendSave(r) /\ ~RereadFails(r) /\ ~GiveUp(r)
        <2>1. /\ UNCHANGED <<orphans, ledger>> /\ failures' \in {failures, failures + 1}
              /\ r \notin Unrecorded
            BY <1>8 DEF Leaves, SkipOpen, Hold, Unreadable, LoadMarketFails, ReadFails,
                   SendFails, Reverted, evidence, Visiting, Detecting, Unrecorded
        <2>2. Unrecorded' = Unrecorded
            BY <1>2, <2>1
        <2>3. Lost' = Lost
            BY <1>3, <2>1, <2>2, LeavesQuiet, LostKept
        <2> QED  BY <1>3, <2>1, <2>3, CountKept
    <1> QED  BY <1>5, <1>6, <1>7, <1>8 DEF GiveUp

LEMMA CountLands ==
    ASSUME TypeInv, TypeInv', CountInv, Lands
    PROVE  CountInv'
    <1>1. PICK x \in Sent, by \in SUBSET Runs : LandsFor(x, by)
        BY DEF Lands
    <1>2. /\ UNCHANGED <<ledger, failures, crashes>> /\ orphans' \subseteq orphans
          /\ \A q \in Runs \ by : run'[q] = run[q]
          /\ \A q \in by : q \notin Unrecorded
        <2>1. UNCHANGED <<ledger, failures, crashes>> /\ orphans' \subseteq orphans
            BY <1>1 DEF LandsFor, evidence, process
        <2>2. \A q \in Runs \ by : run'[q] = run[q]
            BY <1>1, LandsTicks
        <2>3. by \subseteq Senders(x)
            BY <1>1 DEF LandsFor
        <2>4. \A q \in by : q \notin Unrecorded
            BY <2>3 DEF Senders, Unrecorded
        <2> QED  BY <2>1, <2>2, <2>4
    <1>3. /\ IsFiniteSet(orphans) /\ failures \in Nat /\ Crashed \in Nat /\ Crashed' = Crashed
          /\ Orphaned \in Nat /\ Missing \in Nat
        BY <1>2, Numbers DEF CountInv, Crashed
    <1>4. \A q \in Unrecorded : q \in Unrecorded' /\ run'[q].sig = run[q].sig
        BY <1>2 DEF Unrecorded
    <1>5. CASE UNCHANGED chain
        <2>1. ASSUME NEW s \in Lost' PROVE s \in Lost
            BY <1>2, <1>4, <1>5 DEF Lost, chain
        <2>2. Missing' \in Nat /\ Missing' <= Missing
            BY <1>3, <2>1, FewerLost DEF Missing
        <2>3. Missing' <= Missing + 0
            BY <1>3, <2>2
        <2>4. IsFiniteSet(orphans') /\ Orphaned' <= Orphaned + 0
            BY <1>2, <1>3, FS_Subset, FS_CardinalityType DEF Orphaned
        <2>5. 0 + 0 <= (failures' - failures) + (Crashed' - Crashed)
            BY <1>2, <1>3
        <2> QED  BY <2>3, <2>4, <2>5, CountStep
    <1>6. CASE /\ Fired(x, by)
               /\ \A q \in by : run'[q] = [run[q] EXCEPT !.pc = "landed", !.sig = Len(saves) + 1]
        <2> DEFINE n == Len(saves)
        <2>0. saves' = Append(saves, Record(x, by))
            BY <1>6 DEF Fired, Record
        <2>1. n \in Nat /\ DOMAIN saves = 1 .. n /\ DOMAIN saves' = 1 .. n + 1
            BY <2>0 DEF TypeInv, ChainTyped
        <2> HIDE DEF n
        <2>2. ASSUME NEW s \in Lost' PROVE s \in Lost \cup {n + 1}
            <3>1. s \in 1 .. n \/ s = n + 1
                BY <2>1 DEF Lost
            <3> QED  BY <1>2, <1>4, <2>1, <3>1 DEF Lost
        <2>3. CASE by = {}
            <3>1. orphans' = orphans \ {x} /\ x \in orphans
                BY <1>1, <2>3 DEF LandsFor
            <3>2. IsFiniteSet(orphans') /\ Orphaned' <= Orphaned + (-1)
                <4>1. /\ IsFiniteSet(orphans \ {x})
                      /\ Cardinality(orphans \ {x}) = Cardinality(orphans) - 1
                    BY <1>3, <3>1, FS_RemoveElement
                <4>2. Orphaned' = Orphaned - 1 /\ IsFiniteSet(orphans')
                    BY <3>1, <4>1 DEF Orphaned
                <4> QED  BY <1>3, <4>2
            <3>3. Missing' <= Missing + 1
                BY <1>3, <2>2, OneMoreLost DEF Missing
            <3>4. 1 + (-1) <= (failures' - failures) + (Crashed' - Crashed)
                BY <1>2, <1>3
            <3> QED  BY <3>2, <3>3, <3>4, CountStep
        <2>4. CASE by # {}
            <3>1. PICK q \in by : TRUE
                BY <2>4
            <3>2. q \in Unrecorded' /\ run'[q].sig = n + 1
                <4>1. run[q] \in Ticks /\ run'[q] = [run[q] EXCEPT !.pc = "landed", !.sig = n + 1]
                    BY <1>6 DEF n, TypeInv, RunsTyped
                <4>2. run'[q].pc = "landed" /\ run'[q].sig = n + 1
                    BY <4>1 DEF Ticks
                <4> QED  BY <4>2 DEF Unrecorded
            <3>3. n + 1 \notin Lost'
                BY <3>2 DEF Lost
            <3>4. Lost' \subseteq Lost
                BY <2>2, <3>3
            <3>5. Missing' \in Nat /\ Missing' <= Missing
                BY <1>3, <3>4, FewerLost DEF Missing
            <3>6. Missing' <= Missing + 0
                BY <1>3, <3>5
            <3>7. IsFiniteSet(orphans') /\ Orphaned' <= Orphaned + 0
                BY <1>2, <1>3, FS_Subset, FS_CardinalityType DEF Orphaned
            <3>8. 0 + 0 <= (failures' - failures) + (Crashed' - Crashed)
                BY <1>2, <1>3
            <3> QED  BY <3>6, <3>7, <3>8, CountStep
        <2> QED  BY <2>3, <2>4
    <1> QED  BY <1>1, <1>5, <1>6, LandsTicks

LEMMA CountCrash ==
    ASSUME TypeInv, TypeInv', CountInv, Crash
    PROVE  CountInv'
    <1> DEFINE S == {q \in Runs : run[q].pc = "sent"}
               T == {Orphan(r) : r \in S}
               U == {run[q].sig : q \in Unrecorded}
               n == Cardinality(Runs)
    <1>1. /\ UNCHANGED <<saves, ledger, failures>> /\ crashes' = crashes + 1
          /\ orphans' = orphans \cup T
        BY DEF Crash, chain, evidence
    <1>2. /\ IsFiniteSet(orphans) /\ IsFiniteSet(Unrecorded) /\ IsFiniteSet(Lost)
          /\ IsFiniteSet(Runs) /\ n \in Nat /\ crashes \in Nat /\ failures \in Nat
          /\ Orphaned \in Nat /\ Missing \in Nat /\ Crashed \in Nat
        BY Numbers DEF CountInv
    <1>3. IsFiniteSet(S) /\ Cardinality(S) \in Nat /\ Cardinality(Unrecorded) \in Nat
        BY <1>2, FS_Subset, FS_CardinalityType
    <1>4. IsFiniteSet(T) /\ Cardinality(T) \in Nat /\ Cardinality(T) <= Cardinality(S)
        <2> DEFINE f == [r \in S |-> Orphan(r)]
        <2>1. f \in Surjection(S, T)
            BY DEF Surjection
        <2> HIDE DEF f
        <2> QED  BY <1>3, <2>1, FS_Surjection, FS_CardinalityType
    <1>5. IsFiniteSet(U) /\ Cardinality(U) \in Nat /\ Cardinality(U) <= Cardinality(Unrecorded)
        <2> DEFINE f == [q \in Unrecorded |-> run[q].sig]
        <2>1. f \in Surjection(Unrecorded, U)
            BY DEF Surjection
        <2> HIDE DEF f
        <2> QED  BY <1>2, <2>1, FS_Surjection, FS_CardinalityType
    <1>6. Cardinality(S) + Cardinality(Unrecorded) <= n
        <2>1. S \cap Unrecorded = {} /\ S \cup Unrecorded \subseteq Runs
            BY DEF Unrecorded
        <2> HIDE DEF S
        <2>2. Cardinality(S \cup Unrecorded)
                = Cardinality(S) + Cardinality(Unrecorded) - Cardinality(S \cap Unrecorded)
            BY <1>2, <1>3, FS_Union
        <2>3. Cardinality(S \cup Unrecorded) <= n
            BY <1>2, <2>1, FS_Subset
        <2>4. Cardinality(S \cap Unrecorded) = 0
            BY <2>1, FS_EmptySet
        <2> QED  BY <1>3, <2>2, <2>3, <2>4
    <1>7. IsFiniteSet(orphans') /\ Orphaned' <= Orphaned + Cardinality(T)
        <2> HIDE DEF S, T
        <2>1. IsFiniteSet(orphans \cap T) /\ Cardinality(orphans \cap T) \in Nat
            BY <1>2, FS_Intersection, FS_CardinalityType
        <2>2. /\ IsFiniteSet(orphans \cup T)
              /\ Cardinality(orphans \cup T)
                    = Cardinality(orphans) + Cardinality(T) - Cardinality(orphans \cap T)
            BY <1>2, <1>4, FS_Union
        <2>3. Orphaned' = Orphaned + Cardinality(T) - Cardinality(orphans \cap T)
              /\ IsFiniteSet(orphans')
            BY <1>1, <2>2 DEF Orphaned
        <2> QED  BY <1>2, <1>4, <2>1, <2>3
    <1>8. Missing' <= Missing + Cardinality(U)
        <2>1. Lost' \subseteq Lost \cup U
            BY <1>1 DEF Lost
        <2> HIDE DEF U
        <2>2. IsFiniteSet(Lost \cap U) /\ Cardinality(Lost \cap U) \in Nat
            BY <1>2, FS_Intersection, FS_CardinalityType
        <2>3. /\ IsFiniteSet(Lost \cup U)
              /\ Cardinality(Lost \cup U)
                    = Cardinality(Lost) + Cardinality(U) - Cardinality(Lost \cap U)
            BY <1>2, <1>5, FS_Union
        <2>4. Cardinality(Lost') \in Nat /\ Cardinality(Lost') <= Cardinality(Lost \cup U)
            BY <2>1, <2>3, FS_Subset, FS_CardinalityType
        <2>5. Cardinality(Lost \cup U) <= Missing + Cardinality(U)
            BY <1>2, <1>5, <2>2, <2>3 DEF Missing
        <2>6. Cardinality(Lost \cup U) \in Nat
            BY <2>3, FS_CardinalityType
        <2> QED  BY <1>2, <1>5, <2>4, <2>5, <2>6 DEF Missing
    <1>9. Crashed' = Crashed + n
        <2>1. Crashed' = (crashes + 1) * n /\ Crashed = crashes * n
            BY <1>1 DEF Crashed
        <2> HIDE DEF n
        <2> QED  BY <1>2, <2>1, SMT
    <1> DEFINE u == Cardinality(U)
               t == Cardinality(T)
               w == Cardinality(Unrecorded)
               z == Cardinality(S)
    <1>10. /\ u \in Nat /\ t \in Nat /\ w \in Nat /\ z \in Nat
           /\ u <= w /\ t <= z /\ z + w <= n
        BY <1>3, <1>4, <1>5, <1>6
    <1>11. Missing' <= Missing + u /\ Orphaned' <= Orphaned + t
        BY <1>7, <1>8
    <1> HIDE DEF S, T, U, n, u, t, w, z
    <1>12. u + t <= (failures' - failures) + (Crashed' - Crashed)
        BY <1>1, <1>2, <1>9, <1>10
    <1> QED  BY <1>7, <1>10, <1>11, <1>12, CountStep

LEMMA CountNext == TypeInv /\ TypeInv' /\ CountInv /\ [Next]_vars => CountInv'
    <1> SUFFICES ASSUME TypeInv, TypeInv', CountInv, [Next]_vars PROVE CountInv'
        OBVIOUS
    <1>1. ASSUME NEW r \in Runs, Ends(r) PROVE CountInv'
        <2>1. r \notin Unrecorded
            BY <1>1, EndsAway DEF Unrecorded
        <2>2. Unrecorded' = Unrecorded \ {r}
            BY <1>1, EndsAway, UnrecordedAfter DEF Recording
        <2>3. Unrecorded' = Unrecorded
            BY <2>1, <2>2
        <2>4. /\ UNCHANGED <<saves, ledger, orphans, crashes>>
              /\ failures' \in {failures, failures + 1}
            BY <1>1, EndsFrame DEF chain
        <2>5. Lost' = Lost
            BY <1>1, <2>3, <2>4, EndsQuiet, LostKept
        <2> QED  BY <2>4, <2>5, CountKept
    <1>2. ASSUME NEW r \in Runs, GoesOn(r) PROVE CountInv'
        <2>1. UNCHANGED <<saves, ledger, orphans, failures, crashes>>
            BY <1>2, GoesOnFrame DEF chain, process
        <2>2. r \in Unrecorded <=> run[r].pc \in Recording
            BY DEF Unrecorded, Recording
        <2>3. Unrecorded' = Unrecorded
            BY <1>2, <2>2, GoesOnQuiet, UnrecordedAfter
        <2>4. Lost' = Lost
            BY <1>2, <2>1, <2>3, GoesOnQuiet, LostKept
        <2> QED  BY <2>1, <2>4, CountKept
    <1>3. CASE NoTick \/ UNCHANGED vars
        <2>1. /\ UNCHANGED <<saves, ledger, crashes, failures, run>>
              /\ orphans' \subseteq orphans
            BY <1>3 DEF NoTick, vars, TimePasses, DropOrphan, Restart, World, MovePrice,
                   BorrowMore, RepayElsewhere, TurnClock, Reclaim, TopUp, Arm, Elsewhere, chain,
                   process, evidence
        <2>2. Lost' = Lost
            BY <2>1 DEF Lost, Unrecorded
        <2> QED  BY <2>1, <2>2, CountKept
    <1> QED  BY <1>1, <1>2, <1>3, CountLeaves, CountLands, CountCrash, Steps

\* A landed save has a row, or a tick that has yet to write it, or a failed call or a crash of
\* its own that lost it: each failed call loses one save at most, and a crash those of the
\* ticks under way; rows written twice do not count.
THEOREM RowsAreAccountedFor == Spec => []MissingRowsHaveACause
    <1>1. TypeInv /\ CountInv => MissingRowsHaveACause
        BY Numbers DEF CountInv, MissingRowsHaveACause, Missing, Crashed
    <1>2. Spec => [](TypeInv /\ CountInv)
        BY TypeInit, TypeNext, CountInit, CountNext, PTL DEF Spec
    <1> QED  BY <1>1, <1>2, PTL
=============================================================================
