------------------------------ MODULE Evidence ------------------------------
(***************************************************************************)
(* The custody proof: scripts/prove-offline.sh boots a fork, seeds a vault,*)
(* fires one atomic save (fire-atomic.ts, a row of evidence/saves.jsonl)   *)
(* and sends the adversarial transactions of control-hardening.ts, a row   *)
(* of evidence/control-hardening.jsonl each.  A build of the app mirrors   *)
(* the rows (sync-evidence.mjs) and the Lie Detector panel replays them.   *)
(*                                                                         *)
(* A prove run stops at the first command that fails (set -e) and can be   *)
(* interrupted anywhere; the app can be built at any moment of it.  The    *)
(* program under test is what was built last, holes included.              *)
(*                                                                         *)
(* What the controls send is in module VaultProgram; here a control is its *)
(* name and what came of it.  Left out: the texts of a row, and the boot   *)
(* of the validator, which writes no evidence.                             *)
(***************************************************************************)
EXTENDS Integers, Sequences, SequencesExt

CONSTANTS
    Builds,         \* a build of the program: the controls it does not stop
    Roomy,          \* markets whose vault is seeded with a cap over the debt
    MaxProves,      \* bound: prove runs
    MaxSaves,       \* bound: saves of a keeper that shares the ledger
    MaxFailures     \* bound: commands and RPC calls that fail

Markets == {"kamino", "save"}

\* The controls of a market, in order.  D is sent only when the cap exceeds the debt.
BeyondDebt(market) == IF market \in Roomy THEN <<"D">> ELSE <<>>
KaminoControls == <<"B", "C1", "C2", "A", "E">> \o BeyondDebt("kamino") \o <<"DH-6a", "DH-6b">>
SaveControls == <<"B", "C1", "C2", "A", "E", "DH-4a", "DH-4b">> \o BeyondDebt("save")
Controls(market) == IF market = "kamino" THEN KaminoControls ELSE SaveControls

\* DH-6b is an honest transaction: it must confirm.
Honest == {"DH-6b"}
Adversarial == {"B", "C1", "C2", "A", "E", "D", "DH-4a", "DH-4b", "DH-6a"}

ASSUME EvidenceAssumption ==
    /\ Builds \subseteq SUBSET (Adversarial \cup Honest)
    /\ Roomy \subseteq Markets
    /\ MaxProves \in Nat
    /\ MaxSaves \in Nat
    /\ MaxFailures \in Nat

VARIABLES
    job,        \* the prove run under way
    saves,      \* the markets of the rows of saves.jsonl
    rows,       \* control-hardening.jsonl
    torn,       \* its last line is cut short
    bundle,     \* control-hardening.json of the app
    panel,      \* what the Lie Detector shows
    proves, others, failures,
    outcomes,   \* history: what came of each control sent
    broken      \* history: runs that were interrupted

files == <<saves, rows, torn>>
app == <<bundle, panel>>
history == <<outcomes, broken>>
vars == <<job, files, app, proves, others, failures, history>>

NoSave == 0
NoJob == [pc |-> "none", run |-> 0, market |-> "kamino", todo |-> <<>>, holes |-> {},
          outcome |-> "none", since |-> 0]
Loading == [status |-> "loading", rows |-> <<>>, allCaught |-> FALSE]

Fail == failures < MaxFailures /\ failures' = failures + 1

----------------------------------------------------------------------------
(* The prove run.                                                          *)

\* The program is the local build, or the committed one.
Boot(market, holes) ==
    /\ job = NoJob
    /\ proves < MaxProves
    /\ proves' = proves + 1
    /\ job' = [NoJob EXCEPT !.pc = "fund", !.run = proves + 1, !.market = market,
                            !.todo = Controls(market), !.holes = holes,
                            !.since = Len(saves)]
    /\ UNCHANGED <<files, app, others, failures, history>>

Command(pc, next) ==
    /\ job.pc = pc
    /\ job' = [job EXCEPT !.pc = next]
    /\ UNCHANGED <<files, app, proves, others, failures, history>>

FundWallets == Command("fund", "load")
LoadFork == Command("load", "seed")

\* Loan, vault and reserve, the vault bound to its market.
SeedFork == job.market = "kamino" /\ Command("seed", "fire")
SeedVault == job.market = "save" /\ Command("seed", "fire")

\* fire-atomic.ts: the save is confirmed, and then its row is appended.
Fire == Command("fire", "append")

AppendSave ==
    /\ job.pc = "append"
    /\ saves' = Append(saves, job.market)
    /\ job' = [job EXCEPT !.pc = "reset"]
    /\ UNCHANGED <<rows, torn, app, proves, others, failures, history>>

\* Plausible bug: the rows of the last run stay.
KeepEvidence ==
    /\ job.pc = "reset"
    /\ job' = [job EXCEPT !.pc = "control"]
    /\ UNCHANGED <<files, app, proves, others, failures, history>>

\* control-hardening.ts: "each prove run OWNS the file".
ResetEvidence ==
    /\ job.pc = "reset"
    /\ rows' = <<>>
    /\ torn' = FALSE
    /\ job' = [job EXCEPT !.pc = "control"]
    /\ UNCHANGED <<saves, app, proves, others, failures, history>>

Controlling == job.pc = "control" /\ job.todo # <<>>

\* What can come of a control.  One that a hole lets through confirms, or the market
\* refuses it for a reason of its own; the honest one reverts if a guard is too strict.
Outcomes(control) ==
    IF control \in Honest THEN {IF control \in job.holes THEN "other" ELSE "confirmed"}
    ELSE IF control \in job.holes THEN {"confirmed", "other"}
    ELSE {"expected"}

Sent(outcome) ==
    /\ job' = [job EXCEPT !.pc = "emit", !.outcome = outcome]
    /\ outcomes' = outcomes \cup {[run |-> job.run, control |-> Head(job.todo),
                                   outcome |-> outcome]}
    /\ UNCHANGED <<files, app, proves, others, broken>>

SendControl ==
    /\ Controlling
    /\ \E outcome \in Outcomes(Head(job.todo)) : Sent(outcome)
    /\ UNCHANGED failures

\* sendKeeperTx throws something else.
SendFails ==
    /\ Controlling
    /\ Fail
    /\ Sent("other")

\* Plausible bug: any error is taken for the revert.
VerdictOfAnyError(control, outcome) ==
    IF outcome = "confirmed" THEN IF control \in Honest THEN "GREEN" ELSE "LEAKED"
    ELSE IF control \in Honest THEN "LEAKED" ELSE "CAUGHT"

\* expectRevert and expectConfirm.
Verdict(control, outcome) ==
    IF control \in Honest THEN IF outcome = "confirmed" THEN "GREEN" ELSE "LEAKED"
    ELSE IF outcome = "expected" THEN "CAUGHT" ELSE "LEAKED"

Row(control, verdict, sig) == [run |-> job.run, since |-> job.since, control |-> control,
                               verdict |-> verdict, sig |-> sig]

\* Plausible bug: a leak throws before its row is written.
EmitCaughtOnly ==
    /\ job.pc = "emit"
    /\ LET control == Head(job.todo)
           verdict == Verdict(control, job.outcome)
       IN  /\ rows' = IF verdict = "LEAKED" THEN rows
                      ELSE Append(rows, Row(control, verdict, NoSave))
           /\ job' = IF verdict = "LEAKED" THEN NoJob
                     ELSE [job EXCEPT !.pc = "control", !.todo = Tail(@), !.outcome = "none"]
    /\ UNCHANGED <<saves, torn, app, proves, others, failures, history>>

\* Plausible bug: the same control is sent again.
EmitAndRepeat ==
    /\ job.pc = "emit"
    /\ LET control == Head(job.todo)
           verdict == Verdict(control, job.outcome)
       IN  /\ rows' = Append(rows, Row(control, verdict, NoSave))
           /\ job' = IF verdict = "LEAKED" THEN NoJob
                     ELSE [job EXCEPT !.pc = "control", !.outcome = "none"]
    /\ UNCHANGED <<saves, torn, app, proves, others, failures, history>>

\* emitRow; after a leak the run exits.
Emit ==
    /\ job.pc = "emit"
    /\ LET control == Head(job.todo)
           verdict == Verdict(control, job.outcome)
       IN  /\ rows' = Append(rows, Row(control, verdict, NoSave))
           /\ job' = IF verdict = "LEAKED" THEN NoJob
                     ELSE [job EXCEPT !.pc = "control", !.todo = Tail(@), !.outcome = "none"]
    /\ UNCHANGED <<saves, torn, app, proves, others, failures, history>>

LastSave(market) == SelectLastInSeq(saves, LAMBDA m : m = market)

\* emitLegitGreen: with the last save of the market, if there is one.
EmitLegitGreen ==
    /\ job.pc = "control"
    /\ job.todo = <<>>
    /\ rows' = IF LastSave(job.market) = NoSave THEN rows
               ELSE Append(rows, Row("LEGIT", "GREEN", LastSave(job.market)))
    /\ job' = NoJob
    /\ UNCHANGED <<saves, torn, app, proves, others, failures, history>>

\* Plausible bug: the script goes on after a command that failed.
GoOnAfterFailure ==
    /\ job.pc \in {"fund", "load", "seed", "fire", "append", "reset", "control"}
    /\ Fail
    /\ job' = IF job.pc \in {"fund", "load", "seed", "fire", "append"} THEN [job EXCEPT !.pc = "reset"]
              ELSE NoJob
    /\ UNCHANGED <<files, app, proves, others, history>>

\* A command fails: the run ends.
CommandFails ==
    /\ job.pc \in {"fund", "load", "seed", "fire", "append", "reset", "control"}
    /\ Fail
    /\ job' = NoJob
    /\ UNCHANGED <<files, app, proves, others, history>>

\* The run is interrupted, also in the middle of a line.
Interrupt ==
    /\ job # NoJob
    /\ Fail
    /\ job' = NoJob
    /\ broken' = broken \cup {job.run}
    /\ torn' \in {torn, torn \/ job.pc = "emit" \/ (job.pc = "control" /\ job.todo = <<>>)}
    /\ UNCHANGED <<saves, rows, app, proves, others, outcomes>>

\* A keeper run from the same checkout.
KeeperSaves(market) ==
    /\ others < MaxSaves
    /\ others' = others + 1
    /\ saves' = Append(saves, market)
    /\ UNCHANGED <<job, rows, torn, app, proves, failures, history>>

----------------------------------------------------------------------------
(* The app.                                                                *)

\* sync-evidence.mjs: a line that does not parse leaves the bundle as it is.
SyncEvidence ==
    /\ ~torn
    /\ bundle' = rows
    /\ UNCHANGED <<job, files, panel, proves, others, failures, history>>

Load ==
    /\ panel.status # "loading"
    /\ panel' = Loading
    /\ UNCHANGED <<job, files, bundle, proves, others, failures, history>>

Diverts(rs) == {i \in DOMAIN rs : rs[i].verdict # "GREEN"}
Caught(r) == r.verdict = "CAUGHT"

\* replayEvidence: 503 without a row.
ReplayEvidence ==
    /\ panel.status = "loading"
    /\ panel' = IF bundle = <<>> THEN [Loading EXCEPT !.status = "no-proof"]
                ELSE [status |-> "ready", rows |-> bundle,
                      allCaught |-> /\ Diverts(bundle) # {}
                                    /\ \A i \in Diverts(bundle) : Caught(bundle[i])]
    /\ UNCHANGED <<job, files, bundle, proves, others, failures, history>>

LoadFails ==
    /\ panel.status = "loading"
    /\ panel' = [Loading EXCEPT !.status = "error"]
    /\ UNCHANGED <<job, files, bundle, proves, others, failures, history>>

----------------------------------------------------------------------------
Init ==
    /\ job = NoJob
    /\ saves = <<>>
    /\ rows = <<>>
    /\ torn = FALSE
    /\ bundle = <<>>
    /\ panel = Loading
    /\ proves = 0
    /\ others = 0
    /\ failures = 0
    /\ outcomes = {}
    /\ broken = {}

Prove ==
    \/ \E market \in Markets, holes \in Builds : Boot(market, holes)
    \/ FundWallets
    \/ LoadFork
    \/ SeedFork
    \/ SeedVault
    \/ Fire
    \/ AppendSave
    \/ ResetEvidence
    \/ SendControl
    \/ SendFails
    \/ Emit
    \/ EmitLegitGreen
    \/ CommandFails
    \/ Interrupt

App == SyncEvidence \/ Load \/ ReplayEvidence \/ LoadFails

Next == Prove \/ (\E market \in Markets : KeeperSaves(market)) \/ App

Spec == Init /\ [][Next]_vars

----------------------------------------------------------------------------
(* Properties.                                                             *)

RowType == [run : 1 .. MaxProves, since : Nat, control : Adversarial \cup Honest \cup {"LEGIT"},
            verdict : {"CAUGHT", "LEAKED", "GREEN"}, sig : Nat]

\* Every variable has its type; there are never more rows than one run writes.
TypeOK ==
    /\ job.pc \in {"none", "fund", "load", "seed", "fire", "append", "reset", "control",
                  "emit"}
    /\ job.run \in 0 .. MaxProves
    /\ job.market \in Markets
    /\ job.todo \in Seq(Adversarial \cup Honest)
    /\ job.holes \in Builds \cup {{}}
    /\ job.outcome \in {"none", "expected", "confirmed", "other"}
    /\ saves \in Seq(Markets)
    /\ \A rs \in {rows, bundle, panel.rows} :
        /\ Len(rs) <= 9
        /\ \A i \in DOMAIN rs : rs[i] \in RowType
    /\ torn \in BOOLEAN
    /\ panel.status \in {"loading", "no-proof", "error", "ready"}
    /\ panel.allCaught \in BOOLEAN
    /\ broken \subseteq 1 .. MaxProves

ShownRows == {panel.rows[i] : i \in DOMAIN panel.rows}

\* "A row is written ONLY from a real on-chain outcome", "observedRevert is REAL, not echoed
\* from the expectation": a control shown as caught was sent in the run the row is of, and
\* the program refused it with the error that names it; one that the market refused for a
\* reason of its own, or that never reached the chain, does not count.
CaughtWasRefused ==
    \A r \in ShownRows : r.verdict = "CAUGHT" =>
        [run |-> r.run, control |-> r.control, outcome |-> "expected"] \in outcomes

\* "Each prove run OWNS the file": a panel shows the rows of one run, however the runs were
\* cut short and whenever the app was built.
OneRunPerPanel == \A r, s \in ShownRows : r.run = s.run

\* "A single LEAKED flips it false": once a run that was not interrupted has let a divert
\* through, a panel with its rows does not say ALL CAUGHT.
LeakIsLoud ==
    \A o \in outcomes :
        /\ o.control \in Adversarial
        /\ o.outcome = "confirmed"
        /\ o.run = proves
        /\ o.run \notin broken
        /\ job = NoJob
        /\ panel.rows = rows
        => ~panel.allCaught

\* "The REAL ProtectFired signature ... earlier in the same prove run": the green row of a
\* panel is a save recorded after that run began.
GreenIsOfItsRun ==
    \A r \in ShownRows : r.control = "LEGIT" => r.since < r.sig
=============================================================================
