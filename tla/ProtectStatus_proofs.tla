------------------------ MODULE ProtectStatus_proofs ------------------------
(***************************************************************************)
(* What the app tells of a save has happened: for any vaults, loans and    *)
(* keepers of module Keeper, and requests that read the vault and the      *)
(* heartbeat in either order while ticks end, fail and crash.              *)
(*                                                                         *)
(* ToldInv: an outcome that calls its save partial, in the heartbeat or in *)
(* a tick under way, is of a loan that a save has repaid, and so are what  *)
(* a request has read and what is shown.  Saves stay on chain, so that     *)
(* what was true when it was read is true when it is shown.                *)
(***************************************************************************)
EXTENDS ProtectStatus, Keeper_proofs, SequenceTheorems

\* Some vault's reserve has paid for a save of the loan.
LoanRepaid(o) == \E i \in DOMAIN saves : ObligationOf[saves[i].vault] = o

Earned(ticks) == \A i \in DOMAIN ticks : ticks[i].partial => LoanRepaid(ticks[i].obligation)

TicksInv ==
    /\ Earned(heartbeat.ticks)
    /\ \A r \in Runs : Earned(run[r].ticks)

RequestTyped ==
    request \in [vault : Vaults \cup {NoVault}, pending : SUBSET {"vault", "keeper"},
                 armed : BOOLEAN, reserve : Nat, repaid : BOOLEAN, online : BOOLEAN,
                 partial : BOOLEAN]

RequestInv ==
    /\ RequestTyped
    /\ request.pending # {} => request.vault \in Vaults
    /\ request.repaid => HasRepaid(request.vault)
    /\ request.partial => LoanRepaid(ObligationOf[request.vault])

\* "full" is of a save of the vault itself, "partial" of one of its loan.
ShownSaveOfLoan ==
    \A v \in Vaults :
        /\ shown[v].save = "full" => HasRepaid(v)
        /\ shown[v].save = "partial" => LoanRepaid(ObligationOf[v])

ShownInv ==
    /\ DOMAIN shown = Vaults
    /\ \A v \in Vaults : shown[v].save \in {"none", "partial", "full"}
    /\ ShownSaveOfLoan

ToldInv == TicksInv /\ RequestInv /\ ShownInv

----------------------------------------------------------------------------
(* The keeper's side.                                                      *)

\* A step of the app leaves everything of the keeper as it is.
LEMMA StatusStepIsKeeperStep == [StatusNext]_allVars => [Next]_vars
    BY DEF StatusNext, allVars, Ask, StatusStep, ReadVault, ReadKeeper, ReadLoan, LoanUnread,
           Answer, RequestFails

\* Whatever the app asks, the keeper runs as module Keeper says.
THEOREM StatusLeavesKeeper == StatusSpec => Spec
    <1>1. StatusInit => Init
        BY DEF StatusInit
    <1> QED  BY <1>1, StatusStepIsKeeperStep, PTL DEF StatusSpec, Spec

\* The same after the step.
LoanRepaidNext(o) == \E i \in DOMAIN saves' : ObligationOf[saves'[i].vault] = o
EarnedNext(ticks) == \A i \in DOMAIN ticks : ticks[i].partial => LoanRepaidNext(ticks[i].obligation)

LEMMA SavesStay ==
    ASSUME TypeInv, [Next]_vars
    PROVE  /\ \A i \in DOMAIN saves : i \in DOMAIN saves' /\ saves'[i] = saves[i]
           /\ \A o : LoanRepaid(o) => LoanRepaidNext(o)
           /\ \A v : HasRepaid(v) => HasRepaid(v)'
    <1>1. saves \in Seq(Landed)
        BY DEF TypeInv, ChainTyped
    <1>2. UNCHANGED saves \/ \E s : saves' = Append(saves, s)
        BY DebtStep DEF Fired
    <1>3. \A i \in DOMAIN saves : i \in DOMAIN saves' /\ saves'[i] = saves[i]
        <2>1. ASSUME NEW s, saves' = Append(saves, s)
              PROVE  \A i \in DOMAIN saves : i \in DOMAIN saves' /\ saves'[i] = saves[i]
            BY <1>1, <2>1
        <2> QED  BY <1>2, <2>1
    <1> QED  BY <1>3 DEF LoanRepaid, LoanRepaidNext, HasRepaid

LEMMA EarnedStays ==
    ASSUME TypeInv, [Next]_vars
    PROVE  \A ticks : Earned(ticks) => EarnedNext(ticks)
    BY SavesStay DEF Earned, EarnedNext

LEMMA EarnedOneMore ==
    ASSUME NEW ticks \in Outcomes, EarnedNext(ticks), NEW x,
           x.partial => LoanRepaidNext(x.obligation)
    PROVE  EarnedNext(ticks \o <<x>>)
    <1> DEFINE more == ticks \o <<x>>
    <1>1. \A i \in DOMAIN more : (i \in DOMAIN ticks /\ more[i] = ticks[i]) \/ more[i] = x
        BY DEF Outcomes
    <1> HIDE DEF more
    <1>2. EarnedNext(more)
        BY <1>1 DEF EarnedNext
    <1> QED  BY <1>2 DEF more

LEMMA TicksOf ==
    /\ Idle.ticks = <<>>
    /\ \A todo, ticks : Between(todo, ticks).ticks = ticks
    /\ EarnedNext(<<>>)
    BY DEF Idle, Between, EarnedNext

\* On to the next vault with an outcome of this one, which is partial only after a save that
\* the tick is recording.
LEMMA LeavesTicks ==
    ASSUME TypeInv, LedgerInv, TicksInv, NEW r \in Runs, Leaves(r), [Next]_vars
    PROVE  EarnedNext(run'[r].ticks)
    <1> DEFINE Left(v, ticks) ==
            run' = [run EXCEPT ![r] = Between(run[r].todo \ {v}, run[r].ticks \o ticks)]
    <1>1. (\E v \in Vaults : Left(v, <<Outcome(v, FALSE, FALSE)>>))
          \/ (\E v : Left(v, <<>>))
          \/ (/\ Left(run[r].vault, <<Outcome(run[r].vault, TRUE, run[r].partial)>>)
              /\ run[r].pc = "row")
        BY DEF Leaves, Leave, SkipOpen, Hold, Unreadable, LoadMarketFails, ReadFails, SendFails,
               Reverted, GiveUp, RereadFails, AppendSave
    <1>2. ASSUME NEW v, NEW ticks, Left(v, ticks)
          PROVE  run'[r].ticks = run[r].ticks \o ticks
        <2>1. run'[r] = Between(run[r].todo \ {v}, run[r].ticks \o ticks)
            BY <1>2 DEF TypeInv, RunsTyped
        <2> QED  BY <2>1, TicksOf
    <1> HIDE DEF Left
    <1>3. run[r].ticks \in Outcomes /\ EarnedNext(run[r].ticks)
        BY EarnedStays DEF TicksInv, TypeInv, RunsTyped, Ticks
    <1>4. ASSUME NEW v \in Vaults, Left(v, <<Outcome(v, FALSE, FALSE)>>)
          PROVE  EarnedNext(run'[r].ticks)
        <2>1. Outcome(v, FALSE, FALSE).partial = FALSE
            BY DEF Outcome
        <2> QED  BY <1>2, <1>3, <1>4, <2>1, EarnedOneMore
    <1>5. ASSUME NEW v, Left(v, <<>>) PROVE EarnedNext(run'[r].ticks)
        <2>1. run[r].ticks \o <<>> = run[r].ticks
            BY <1>3 DEF Outcomes
        <2> QED  BY <1>2, <1>3, <1>5, <2>1
    <1>6. CASE /\ Left(run[r].vault, <<Outcome(run[r].vault, TRUE, run[r].partial)>>)
               /\ run[r].pc = "row"
        <2>1. LoanRepaid(ObligationOf[run[r].vault])
            BY <1>6 DEF LedgerInv, Recording, LoanRepaid
        <2>2. LoanRepaidNext(ObligationOf[run[r].vault])
            BY <2>1, SavesStay
        <2>3. Outcome(run[r].vault, TRUE, run[r].partial).obligation = ObligationOf[run[r].vault]
            BY DEF Outcome
        <2> QED  BY <1>2, <1>3, <1>6, <2>2, <2>3, EarnedOneMore
    <1> QED  BY <1>1, <1>4, <1>5, <1>6

\* Every other step gathers nothing.
LEMMA GoesOnTicks ==
    ASSUME TypeInv, NEW r \in Runs, GoesOn(r)
    PROVE  /\ run'[r].ticks \in {<<>>, run[r].ticks}
           /\ \A q \in Runs \ {r} : run'[q] = run[q]
    <1> USE DEF TypeInv, RunsTyped
    <1>1. run[r] \in Ticks
        OBVIOUS
    <1>2. CASE Load(r)
        BY <1>2, TicksOf DEF Load
    <1>3. CASE Poll(r) \/ Send(r) \/ Confirm(r) \/ ReclockOpen(r) \/ ReclockClosed(r)
               \/ Measure(r) \/ Log(r)
        BY <1>1, <1>3 DEF Poll, Send, Confirm, ReclockOpen, ReclockClosed, Measure, Log, Ticks
    <1>4. ASSUME NEW v \in Vaults, SeeClosed(r, v) \/ Decide(r, v)
          PROVE  /\ run'[r].ticks = run[r].ticks
                 /\ \A q \in Runs \ {r} : run'[q] = run[q]
        BY <1>1, <1>4 DEF SeeClosed, Decide, Ticks
    <1> QED  BY <1>2, <1>3, <1>4 DEF GoesOn

LEMMA LandsKeepsTicks ==
    ASSUME TypeInv, Lands
    PROVE  heartbeat' = heartbeat /\ \A q \in Runs : run'[q].ticks = run[q].ticks
    <1>1. PICK x \in Sent, by \in SUBSET Runs : LandsFor(x, by)
        BY DEF Lands
    <1>2. ASSUME NEW q \in Runs PROVE run'[q].ticks = run[q].ticks
        <2>1. run[q] \in Ticks
            BY DEF TypeInv, RunsTyped
        <2> DEFINE n == Len(saves) + 1
        <2>2. \/ run'[q] = run[q]
              \/ run'[q] = [run[q] EXCEPT !.pc = "landed", !.sig = n]
              \/ run'[q] = [run[q] EXCEPT !.pc = "reverted"]
            BY <1>1, LandsTicks
        <2> HIDE DEF n
        <2> QED  BY <2>1, <2>2 DEF Ticks
    <1> QED  BY <1>1, <1>2 DEF LandsFor, evidence

LEMMA TicksInit == Init => TicksInv
    BY TicksOf DEF Init, TicksInv, NoHeartbeat, Earned

LEMMA TicksNext ==
    ASSUME TypeInv, LedgerInv, TicksInv, [Next]_vars
    PROVE  TicksInv'
    <1>1. EarnedNext(heartbeat.ticks) /\ \A r \in Runs : EarnedNext(run[r].ticks)
        BY EarnedStays DEF TicksInv
    <1>2. SUFFICES EarnedNext(heartbeat'.ticks) /\ \A r \in Runs : EarnedNext(run'[r].ticks)
        BY DEF TicksInv, Earned, LoanRepaid, EarnedNext, LoanRepaidNext
    <1>3. ASSUME NEW r \in Runs, Leaves(r)
          PROVE  EarnedNext(heartbeat'.ticks) /\ \A q \in Runs : EarnedNext(run'[q].ticks)
        <2>1. heartbeat' = heartbeat
            BY <1>3 DEF Leaves, SkipOpen, Hold, Unreadable, LoadMarketFails, ReadFails, SendFails,
                   Reverted, RereadFails, GiveUp, AppendSave, evidence
        <2> QED  BY <1>1, <1>3, <2>1, LeavesTicks, LeavesAway
    <1>4. ASSUME NEW r \in Runs, Ends(r)
          PROVE  EarnedNext(heartbeat'.ticks) /\ \A q \in Runs : EarnedNext(run'[q].ticks)
        <2>1. \E ticks \in {<<>>, run[r].ticks} : heartbeat' = [written |-> TRUE, ticks |-> ticks]
            BY <1>4 DEF Ends, LoadNone, LoadFails, EndTick, Beat
        <2>2. heartbeat'.ticks \in {<<>>, run[r].ticks}
            BY <2>1
        <2>3. run'[r] = Idle
            BY <1>4 DEF Ends, LoadNone, LoadFails, EndTick, Beat, TypeInv, RunsTyped
        <2> QED  BY <1>1, <1>4, <2>2, <2>3, TicksOf, EndsAway
    <1>5. ASSUME NEW r \in Runs, GoesOn(r)
          PROVE  EarnedNext(heartbeat'.ticks) /\ \A q \in Runs : EarnedNext(run'[q].ticks)
        <2>1. heartbeat' = heartbeat
            BY <1>5 DEF GoesOn, Poll, Load, SeeClosed, Decide, Send, Confirm, ReclockOpen,
               ReclockClosed, Measure, Log, evidence
        <2> QED  BY <1>1, <1>5, <2>1, GoesOnTicks, TicksOf
    <1>6. CASE NoTick \/ UNCHANGED vars
        <2>1. UNCHANGED <<run, heartbeat>>
            BY <1>6 DEF NoTick, vars, TimePasses, DropOrphan, Restart, World, MovePrice,
                   BorrowMore, RepayElsewhere, TurnClock, Reclaim, TopUp, Arm, Elsewhere, evidence
        <2> QED  BY <1>1, <2>1
    <1>7. CASE Crash
        <2>1. heartbeat' = heartbeat /\ \A q \in Runs : run'[q] = Idle
            BY <1>7 DEF Crash, evidence
        <2> QED  BY <1>1, <2>1, TicksOf
    <1>8. CASE Lands
        BY <1>1, <1>8, LandsKeepsTicks
    <1> QED  BY <1>3, <1>4, <1>5, <1>6, <1>7, <1>8, Steps

----------------------------------------------------------------------------
(* The app's side.                                                         *)

LEMMA ToldInit == StatusInit => ToldInv
    <1> SUFFICES ASSUME StatusInit PROVE ToldInv
        OBVIOUS
    <1>1. RequestInv
        BY DEF StatusInit, NoRequest, RequestInv, RequestTyped
    <1>2. ShownInv
        BY DEF StatusInit, NothingShown, ShownInv, ShownSaveOfLoan
    <1> QED  BY <1>1, <1>2, TicksInit DEF StatusInit, ToldInv

LEMMA NoRequestTyped ==
    NoRequest \in [vault : Vaults \cup {NoVault}, pending : SUBSET {"vault", "keeper"},
                   armed : BOOLEAN, reserve : Nat, repaid : BOOLEAN, online : BOOLEAN,
                   partial : BOOLEAN]
    BY DEF NoRequest

\* What has been read and what is shown stays true while the keeper goes on.
LEMMA RequestStays ==
    ASSUME TypeInv, RequestInv, [Next]_vars, UNCHANGED request
    PROVE  RequestInv'
    BY SavesStay DEF RequestInv, RequestTyped, LoanRepaid, LoanRepaidNext

LEMMA ShownStays ==
    ASSUME TypeInv, ShownInv, [Next]_vars, UNCHANGED shown
    PROVE  ShownInv'
    BY SavesStay DEF ShownInv, ShownSaveOfLoan, LoanRepaid, LoanRepaidNext

\* The vault's tick is of its loan.
LEMMA PartialIsOfLoan ==
    ASSUME TicksInv, NEW v, PartialTick(v)
    PROVE  LoanRepaid(ObligationOf[v])
    BY DEF TicksInv, Earned, PartialTick

LEMMA ReadsStep ==
    ASSUME TypeInv, TicksInv, RequestInv, ReadVault \/ ReadKeeper
    PROVE  RequestInv'
    <1>1. CASE ReadVault
        <2>1. request.vault \in Vaults /\ reserve[request.vault] \in Nat
            BY <1>1 DEF ReadVault, RequestInv, TypeInv, ChainTyped
        <2>2. UNCHANGED saves
            BY <1>1 DEF ReadVault, vars, chain
        <2>3. PICK repaid \in BOOLEAN : repaid <=> HasRepaid(request.vault)
            OBVIOUS
        <2>4. PICK there \in BOOLEAN : there <=> request.vault \in armed
            OBVIOUS
        <2>5. request' = [request EXCEPT !.pending = @ \ {"vault"}, !.armed = there,
                                         !.reserve = reserve[request.vault], !.repaid = repaid]
            BY <1>1, <2>3, <2>4 DEF ReadVault, HasRepaid
        <2>6. /\ RequestTyped'
              /\ request'.vault = request.vault /\ request'.partial = request.partial
              /\ request'.repaid = repaid
            BY <2>1, <2>5 DEF RequestInv, RequestTyped
        <2> QED  BY <2>1, <2>2, <2>3, <2>6 DEF RequestInv, HasRepaid, LoanRepaid
    <1>2. CASE ReadKeeper
        <2>1. UNCHANGED saves /\ request.vault \in Vaults
            BY <1>2 DEF ReadKeeper, vars, chain, RequestInv
        <2>2. /\ RequestTyped'
              /\ request'.vault = request.vault /\ request'.repaid = request.repaid
              /\ request'.partial = PartialTick(request.vault)
            BY <1>2 DEF ReadKeeper, RequestInv, RequestTyped, Online, PartialTick
        <2> QED  BY <2>1, <2>2, PartialIsOfLoan DEF RequestInv, HasRepaid, LoanRepaid
    <1> QED  BY <1>1, <1>2

LEMMA AnswerStep ==
    ASSUME RequestInv, ShownInv, NEW readable, Answer(readable)
    PROVE  ShownInv'
    <1> DEFINE v == request.vault
               save == IF request.armed THEN SaveState(request.partial, request.repaid)
                       ELSE "none"
               short == \/ save = "partial"
                        \/ /\ readable
                           /\ request.armed
                           /\ save = "none"
                           /\ request.reserve < Gap(v)
               told == [answered |-> TRUE, armed |-> request.armed, online |-> request.online,
                        save |-> save, short |-> short]
    <1>1. shown' = [shown EXCEPT ![v] = told] /\ UNCHANGED saves
        BY DEF Answer, vars, chain
    <1>2. /\ save \in {"none", "partial", "full"}
          /\ save = "full" => HasRepaid(v)
          /\ save = "partial" => LoanRepaid(ObligationOf[v])
        BY DEF SaveState, RequestInv
    <1>3. told.save = save
        OBVIOUS
    <1> HIDE DEF told, save
    <1> QED  BY <1>1, <1>2, <1>3 DEF ShownInv, ShownSaveOfLoan, HasRepaid, LoanRepaid

LEMMA ToldNext ==
    ASSUME TypeInv, LedgerInv, ToldInv, [StatusNext]_allVars
    PROVE  ToldInv'
    <1> USE DEF ToldInv
    <1>1. [Next]_vars
        BY StatusStepIsKeeperStep
    <1>2. TicksInv'
        BY <1>1, TicksNext
    <1>3. RequestInv'
        <2>1. CASE UNCHANGED request
            BY <1>1, <2>1, RequestStays
        <2>2. CASE ReadVault \/ ReadKeeper
            BY <2>2, ReadsStep
        <2>3. CASE request' = NoRequest
            BY <2>3, NoRequestTyped DEF NoRequest, RequestInv, RequestTyped
        <2>4. ASSUME NEW v \in Vaults, Ask(v) PROVE RequestInv'
            <3>1. /\ NoRequest.repaid = FALSE /\ NoRequest.partial = FALSE
                BY DEF NoRequest
            <3>2. request' = [NoRequest EXCEPT !.vault = v, !.pending = {"vault", "keeper"}]
                BY <2>4 DEF Ask
            <3>3. /\ RequestTyped'
                  /\ request'.vault = v /\ request'.repaid = FALSE /\ request'.partial = FALSE
                BY <3>1, <3>2, NoRequestTyped DEF RequestTyped
            <3> QED  BY <3>3 DEF RequestInv
        <2> QED  BY <2>1, <2>2, <2>3, <2>4 DEF StatusNext, allVars, appVars, StatusStep, ReadLoan,
                    LoanUnread, Answer, RequestFails
    <1>4. ShownInv'
        <2>1. CASE UNCHANGED shown
            BY <1>1, <2>1, ShownStays
        <2>2. CASE ReadLoan \/ LoanUnread
            BY <2>2, AnswerStep DEF ReadLoan, LoanUnread
        <2> QED  BY <2>1, <2>2 DEF StatusNext, allVars, appVars, StatusStep, ReadVault, ReadKeeper,
                    Ask, RequestFails
    <1> QED  BY <1>2, <1>3, <1>4

LEMMA ToldAlways == StatusSpec => []ToldInv
    <1>1. StatusSpec => [](TypeInv /\ LedgerInv)
        <2>1. StatusSpec => Spec
            BY StatusLeavesKeeper
        <2>2. Spec => [](TypeInv /\ LedgerInv)
            BY TypeAlways, LedgerInit, LedgerNext, PTL DEF Spec
        <2> QED  BY <2>1, <2>2, PTL
    <1> QED  BY <1>1, ToldInit, ToldNext, PTL DEF StatusSpec

\* What the answers tell, whoever shares a loan: "full" only when the reserve of the vault
\* has paid for a save, "partial" only when that of some vault has paid for one of its loan.
THEOREM ShownSavesAreOfTheLoan == StatusSpec => []ShownSaveOfLoan
    <1>1. ToldInv => ShownSaveOfLoan
        BY DEF ToldInv, ShownInv
    <1> QED  BY <1>1, ToldAlways, PTL

\* The answer tells of a save only when the reserve of that vault has paid for one (route.ts
\* looks up the tick of the vault's obligation), provided no two vaults share a loan.
THEOREM ShownSavesHappened ==
    ASSUME \A u, v \in Vaults : ObligationOf[u] = ObligationOf[v] => u = v
    PROVE  StatusSpec => []ShownSaveHappened
    <1>1. TypeInv /\ ToldInv => ShownSaveHappened
        <2> SUFFICES ASSUME TypeInv, ToldInv, NEW v \in Vaults, shown[v].save # "none"
                     PROVE  HasRepaid(v)
            BY DEF ShownSaveHappened
        <2>1. CASE shown[v].save = "full"
            BY <2>1 DEF ToldInv, ShownInv, ShownSaveOfLoan
        <2>2. CASE shown[v].save = "partial"
            <3>1. PICK i \in DOMAIN saves : ObligationOf[saves[i].vault] = ObligationOf[v]
                BY <2>2 DEF ToldInv, ShownInv, ShownSaveOfLoan, LoanRepaid
            <3>2. saves \in Seq(Landed)
                BY DEF TypeInv, ChainTyped
            <3>3. i \in 1 .. Len(saves)
                BY <3>1, <3>2
            <3>4. saves[i] \in Landed
                BY <3>2, <3>3, ElementOfSeq
            <3>5. saves[i].vault = v
                BY <3>1, <3>4 DEF Landed
            <3> QED  BY <3>1, <3>5 DEF HasRepaid
        <2> QED  BY <2>1, <2>2 DEF ToldInv, ShownInv
    <1>2. StatusSpec => []TypeInv
        BY StatusLeavesKeeper, TypeAlways, PTL
    <1> QED  BY <1>1, <1>2, ToldAlways, PTL
=============================================================================
