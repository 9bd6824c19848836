---------------------------- MODULE ProtectStatus ----------------------------
(***************************************************************************)
(* What the app tells the owner of a vault: GET /api/protect/status        *)
(* (app/src/app/api/protect/status/route.ts) over the heartbeat file and   *)
(* the chain, while the keeper of module Keeper runs.                      *)
(*                                                                         *)
(* A request reads the vault account and the heartbeat at once, in either  *)
(* order, and the loan after both; the keeper goes on in between.  The     *)
(* dashboard asks again and again.                                         *)
(***************************************************************************)
EXTENDS Keeper

VARIABLES
    request,    \* the request under way
    shown       \* shown[v]: the last answer for v

appVars == <<request, shown>>
allVars == <<vars, request, shown>>

NoRequest == [vault |-> NoVault, pending |-> {}, armed |-> FALSE, reserve |-> 0,
              repaid |-> FALSE, online |-> FALSE, partial |-> FALSE]
NothingShown == [answered |-> FALSE, armed |-> FALSE, online |-> FALSE, save |-> "none",
                 short |-> FALSE]

----------------------------------------------------------------------------
(* readKeeperStatus and the lookup of the vault's tick.                    *)

\* Plausible bug: any heartbeat file counts.
OnlineIfPresent == heartbeat.written

Online == heartbeat.written /\ age <= StaleAfter

\* Plausible bug (the one the per-obligation ticks were added for): the tick of the vault
\* that was processed last counts for every vault.
PartialLastTick(v) ==
    /\ heartbeat.ticks # <<>>
    /\ heartbeat.ticks[Len(heartbeat.ticks)].partial

\* The first tick of the obligation.  lastTick, the fallback, is the last of the ticks
\* or, when there is none, one without an obligation that is not partial.
PartialTick(v) ==
    \E i \in DOMAIN heartbeat.ticks :
        /\ heartbeat.ticks[i].obligation = ObligationOf[v]
        /\ heartbeat.ticks[i].partial
        /\ \A j \in 1 .. i - 1 : heartbeat.ticks[j].obligation # ObligationOf[v]

\* What readVault sees as totalRepaidUsdc > 0.
HasRepaid(v) == \E i \in DOMAIN saves : saves[i].vault = v

SaveState(partial, repaid) ==
    IF partial THEN "partial" ELSE IF repaid THEN "full" ELSE "none"

\* The size of the gap irrespective of the cap.
Gap(v) == IF AtRisk(v)
          THEN Needed(debt[ObligationOf[v]], collateral[ObligationOf[v]], SafeBuffer)
          ELSE 0

----------------------------------------------------------------------------
(* A request.                                                              *)

Ask(v) ==
    /\ request = NoRequest
    /\ request' = [NoRequest EXCEPT !.vault = v, !.pending = {"vault", "keeper"}]
    /\ UNCHANGED <<vars, shown>>

ReadVault ==
    /\ "vault" \in request.pending
    /\ LET v == request.vault IN
        request' = [request EXCEPT !.pending = @ \ {"vault"},
                                   !.armed = v \in armed,
                                   !.reserve = reserve[v],
                                   !.repaid = HasRepaid(v)]
    /\ UNCHANGED <<vars, shown>>

\* readVault throws: the request ends in a 500, and what was shown stays.
RequestFails ==
    /\ "vault" \in request.pending
    /\ request' = NoRequest
    /\ UNCHANGED <<vars, shown>>

ReadKeeper ==
    /\ "keeper" \in request.pending
    /\ request' = [request EXCEPT !.pending = @ \ {"keeper"},
                                  !.online = Online,
                                  !.partial = PartialTick(request.vault)]
    /\ UNCHANGED <<vars, shown>>

\* The answer.  short: a shortfall is shown, which needs the loan unless the save is
\* partial; without a vault nothing but the keeper's liveness is.
Answer(readable) ==
    /\ request # NoRequest
    /\ request.pending = {}
    /\ LET v == request.vault
           save == IF request.armed THEN SaveState(request.partial, request.repaid)
                   ELSE "none"
       IN  shown' = [shown EXCEPT ![v] =
                [answered |-> TRUE, armed |-> request.armed, online |-> request.online,
                 save |-> save,
                 short |-> \/ save = "partial"
                           \/ /\ readable
                              /\ request.armed
                              /\ save = "none"
                              /\ request.reserve < Gap(v)]]
    /\ request' = NoRequest
    /\ UNCHANGED vars

\* getObligationView answers, or throws.
ReadLoan == request # NoRequest /\ Readable(request.vault) /\ Answer(TRUE)
LoanUnread == Answer(FALSE)

StatusInit ==
    /\ Init
    /\ request = NoRequest
    /\ shown = [v \in Vaults |-> NothingShown]

StatusStep == ReadVault \/ ReadKeeper \/ ReadLoan \/ LoanUnread

StatusNext ==
    \/ Next /\ UNCHANGED appVars
    \/ \E v \in Vaults : Ask(v)
    \/ StatusStep
    \/ RequestFails

StatusSpec == StatusInit /\ [][StatusNext]_allVars

\* The keeper's fairness, and a dashboard that polls and gets its answers.
FairStatusSpec ==
    /\ StatusSpec
    /\ \A r \in Runs : WF_run(Poll(r) /\ UNCHANGED appVars)
                       /\ WF_run(Progress(r) /\ UNCHANGED appVars)
    /\ WF_age(TimePasses /\ UNCHANGED appVars)
    /\ WF_allVars(StatusStep)
    /\ \A v \in Vaults : SF_allVars(Ask(v)) /\ SF_allVars(ReadVault /\ request.vault = v)

----------------------------------------------------------------------------
(* Properties.                                                             *)

\* keeper-status.ts, "fail-closed": a keeper that is down for good is shown offline in
\* the end, whatever its last heartbeat said.
DownIsShown ==
    \A v \in Vaults : (~up) ~> (up \/ (shown[v].answered /\ ~shown[v].online))

\* route.ts, "attribute partial/fire to THIS obligation, never a different vault's": the
\* answer tells of a save only when the reserve of that vault has paid for one.
ShownSaveHappened ==
    \A v \in Vaults : shown[v].save # "none" => HasRepaid(v)

\* The last recorded save of the loan left it at the trigger or over it, and there it is
\* still, in a closed market.
LeftAtRisk(v) ==
    /\ closed
    /\ AtRisk(v)
    /\ \E i \in DOMAIN ledger :
        /\ ledger[i].obligation = ObligationOf[v]
        /\ ledger[i].ltvAfter >= Trigger[v]
        /\ \A j \in i + 1 .. Len(ledger) : ledger[j].obligation # ObligationOf[v]

\* README.md, "labeled as such, never silently marked safe": the owner of such a loan is
\* not told for good that the save was full, with no shortfall.
PartialStaysLoud ==
    \A v \in Vaults :
        []<>~(LeftAtRisk(v) /\ shown[v].save = "full" /\ ~shown[v].short)
==============================================================================
