-------------------------- MODULE Evidence_proofs --------------------------
(***************************************************************************)
(* The panel shows one run, and only real refusals as caught: for any      *)
(* builds of the program, any number of runs, failures and interruptions.  *)
(*                                                                         *)
(* RowsInv: a file of rows, its copies in the app's bundle and on the      *)
(* panel, are each of one run, and a CAUGHT row has its outcome in the     *)
(* history; while controls are sent, the file is of the run under way.     *)
(***************************************************************************)
EXTENDS Evidence, FiniteSetTheorems, TLAPS

IsSequence(s) == \E S : s \in Seq(S)

\* job has the fields of a job, whatever their values.
JobShape ==
    job = [pc |-> job.pc, run |-> job.run, market |-> job.market, todo |-> job.todo,
           holes |-> job.holes, outcome |-> job.outcome, since |-> job.since]

Refused(r) ==
    r.verdict = "CAUGHT" =>
        [run |-> r.run, control |-> r.control, outcome |-> "expected"] \in outcomes

OfOneRun(rs) == \A i, j \in DOMAIN rs : rs[i].run = rs[j].run
Proven(rs) == OfOneRun(rs) /\ \A i \in DOMAIN rs : Refused(rs[i])

SentInv ==
    job.pc = "emit" => [run |-> job.run, control |-> Head(job.todo),
                        outcome |-> job.outcome] \in outcomes

RowsInv ==
    /\ IsSequence(rows)
    /\ Proven(rows)
    /\ Proven(bundle)
    /\ Proven(panel.rows)
    /\ job.pc \in {"control", "emit"} => \A i \in DOMAIN rows : rows[i].run = job.run

EvidenceInv == JobShape /\ SentInv /\ RowsInv

----------------------------------------------------------------------------
\* One more row at the end of a file.
LEMMA OneMore ==
    ASSUME NEW s, IsSequence(s), NEW x
    PROVE  /\ IsSequence(Append(s, x))
           /\ \A i \in DOMAIN Append(s, x) :
                \/ Append(s, x)[i] = x
                \/ i \in DOMAIN s /\ Append(s, x)[i] = s[i]
    <1>1. PICK S : s \in Seq(S)
        BY DEF IsSequence
    <1>2. s \in Seq(S \cup {x})
        BY <1>1
    <1>3. Append(s, x) \in Seq(S \cup {x})
        BY <1>2
    <1>4. \A i \in DOMAIN Append(s, x) :
                \/ Append(s, x)[i] = x
                \/ i \in DOMAIN s /\ Append(s, x)[i] = s[i]
        BY <1>2
    <1> QED  BY <1>3, <1>4 DEF IsSequence

\* The history of outcomes only grows.
LEMMA ProvenStays ==
    ASSUME NEW s, Proven(s), outcomes \subseteq outcomes'
    PROVE  (OfOneRun(s) /\ \A i \in DOMAIN s : Refused(s[i])')
    BY DEF Proven, Refused

LEMMA EvidenceInitially == Init => EvidenceInv
    <1> SUFFICES ASSUME Init PROVE EvidenceInv
        OBVIOUS
    <1>1. JobShape /\ SentInv
        BY DEF Init, NoJob, JobShape, SentInv
    <1>2. IsSequence(<<>>) /\ Proven(<<>>)
        BY DEF IsSequence, Proven, OfOneRun
    <1> QED  BY <1>1, <1>2 DEF Init, Loading, NoJob, RowsInv, EvidenceInv

\* No row of the file, the bundle or the panel is new.
LEMMA NoNewRow ==
    ASSUME RowsInv, outcomes \subseteq outcomes', UNCHANGED rows,
           bundle' \in {bundle, rows},
           panel'.rows \in {panel.rows, bundle, <<>>},
           job'.pc \in {"control", "emit"} =>
                job.pc \in {"control", "emit"} /\ job'.run = job.run
    PROVE  RowsInv'
    <1>1. ASSUME NEW s, s \in {rows, bundle, panel.rows, <<>>}
          PROVE  OfOneRun(s) /\ \A i \in DOMAIN s : Refused(s[i])'
        BY <1>1 DEF RowsInv, Proven, OfOneRun, Refused
    <1>2. Proven(rows)'
        BY <1>1 DEF Proven, OfOneRun
    <1>3. Proven(bundle)'
        BY <1>1 DEF Proven, OfOneRun
    <1>4. Proven(panel.rows)'
        BY <1>1 DEF Proven, OfOneRun
    <1> QED  BY <1>2, <1>3, <1>4 DEF RowsInv

\* A row of the run under way is added.
LEMMA NewRow ==
    ASSUME RowsInv, UNCHANGED <<outcomes, bundle, panel>>,
           job.pc \in {"control", "emit"},
           NEW r, r.run = job.run, Refused(r),
           rows' = Append(rows, r),
           job'.pc \in {"control", "emit"} => job'.run = job.run
    PROVE  RowsInv'
    <1>1. /\ IsSequence(rows')
          /\ \A i \in DOMAIN rows' : rows'[i] = r \/ (i \in DOMAIN rows /\ rows'[i] = rows[i])
        BY OneMore DEF RowsInv
    <1>2. \A i \in DOMAIN rows' : rows'[i].run = job.run /\ Refused(rows'[i])
        BY <1>1 DEF RowsInv, Proven
    <1>3. Proven(rows)'
        BY <1>2 DEF Proven, OfOneRun, Refused
    <1>4. Proven(bundle)' /\ Proven(panel.rows)'
        BY DEF RowsInv, Proven, OfOneRun, Refused
    <1> QED  BY <1>1, <1>2, <1>3, <1>4 DEF RowsInv

LEMMA EvidenceStep ==
    ASSUME EvidenceInv, [Next]_vars
    PROVE  EvidenceInv'
    <1> USE DEF EvidenceInv
    <1>1. ASSUME NEW market \in Markets, NEW holes \in Builds, Boot(market, holes)
          PROVE  EvidenceInv'
        <2>1. job' = [pc |-> "fund", run |-> proves + 1, market |-> market,
                      todo |-> Controls(market), holes |-> holes, outcome |-> "none",
                      since |-> Len(saves)]
            BY <1>1 DEF Boot, NoJob
        <2>2. JobShape' /\ SentInv'
            BY <2>1 DEF JobShape, SentInv
        <2>3. RowsInv'
            BY <1>1, <2>1, NoNewRow DEF Boot, files, app, history
        <2> QED  BY <2>2, <2>3
    <1>2. CASE \/ FundWallets \/ LoadFork \/ SeedFork \/ SeedVault \/ Fire \/ AppendSave
        <2>1. PICK pc \in {"load", "seed", "fire", "append", "reset"} :
                job' = [job EXCEPT !.pc = pc]
            BY <1>2 DEF FundWallets, LoadFork, SeedFork, SeedVault, Fire, AppendSave, Command
        <2>2. job'.pc = pc /\ JobShape'
            BY <2>1 DEF JobShape
        <2>3. SentInv'
            BY <2>2 DEF SentInv
        <2>4. UNCHANGED <<rows, bundle, panel, outcomes>>
            BY <1>2 DEF FundWallets, LoadFork, SeedFork, SeedVault, Fire, AppendSave, Command,
                        files, app, history
        <2>5. RowsInv'
            BY <2>2, <2>4, NoNewRow
        <2> QED  BY <2>2, <2>3, <2>5
    <1>3. CASE ResetEvidence
        <2>1. job'.pc = "control" /\ JobShape'
            BY <1>3 DEF ResetEvidence, JobShape
        <2>2. SentInv'
            BY <2>1 DEF SentInv
        <2>3. IsSequence(<<>>)
            BY DEF IsSequence
        <2>4. rows' = <<>> /\ UNCHANGED <<bundle, panel, outcomes>>
            BY <1>3 DEF ResetEvidence, app, history
        <2>5. RowsInv'
            BY <2>3, <2>4 DEF RowsInv, Proven, OfOneRun, Refused
        <2> QED  BY <2>1, <2>2, <2>5
    <1>4. CASE SendControl \/ SendFails
        <2>1. PICK outcome : job.pc = "control" /\ Sent(outcome)
            BY <1>4 DEF SendControl, SendFails, Controlling
        <2>2. /\ JobShape'
              /\ job'.pc = "emit" /\ job'.outcome = outcome
              /\ job'.run = job.run /\ job'.todo = job.todo
            BY <2>1 DEF Sent, JobShape
        <2>3. SentInv'
            BY <2>1, <2>2 DEF Sent, SentInv
        <2>4. RowsInv'
            BY <2>1, <2>2, NoNewRow DEF Sent, files, app
        <2> QED  BY <2>2, <2>3, <2>4
    <1>5. CASE Emit
        <2> DEFINE control == Head(job.todo)
                   row == Row(control, Verdict(control, job.outcome), NoSave)
        <2>1. /\ job.pc = "emit"
              /\ rows' = Append(rows, row)
              /\ UNCHANGED <<outcomes, bundle, panel>>
            BY <1>5 DEF Emit, app, history
        <2>2. \/ job' = NoJob
              \/ job' = [job EXCEPT !.pc = "control", !.todo = Tail(@), !.outcome = "none"]
            BY <1>5 DEF Emit
        <2>3. JobShape' /\ job'.pc # "emit" /\ (job'.pc = "control" => job'.run = job.run)
            <3>1. CASE job' = NoJob
                BY <3>1 DEF JobShape, NoJob
            <3>2. ASSUME NEW rest, job' = [job EXCEPT !.pc = "control", !.todo = rest,
                                                      !.outcome = "none"]
                  PROVE  JobShape' /\ job'.pc = "control" /\ job'.run = job.run
                BY <3>2 DEF JobShape
            <3> QED  BY <2>2, <3>1, <3>2
        <2>4. Verdict(control, job.outcome) = "CAUGHT" => job.outcome = "expected"
            BY DEF Verdict
        <2>5. row.run = job.run /\ Refused(row)
            BY <2>1, <2>4 DEF Row, Refused, SentInv
        <2>6. RowsInv'
            BY <2>1, <2>3, <2>5, NewRow
        <2> QED  BY <2>3, <2>6 DEF SentInv
    <1>6. CASE EmitLegitGreen
        <2> DEFINE row == Row("LEGIT", "GREEN", LastSave(job.market))
        <2>1. /\ job.pc = "control" /\ job' = NoJob
              /\ rows' = rows \/ rows' = Append(rows, row)
              /\ UNCHANGED <<outcomes, bundle, panel>>
            BY <1>6 DEF EmitLegitGreen, app, history
        <2>2. JobShape' /\ job'.pc = "none" /\ SentInv'
            BY <2>1 DEF JobShape, NoJob, SentInv
        <2>3. row.run = job.run /\ Refused(row)
            BY DEF Row, Refused
        <2>4. CASE rows' = rows
            BY <2>1, <2>2, <2>4, NoNewRow
        <2>5. CASE rows' = Append(rows, row)
            BY <2>1, <2>2, <2>3, <2>5, NewRow
        <2> QED  BY <2>1, <2>2, <2>4, <2>5
    <1>7. CASE CommandFails \/ Interrupt
        <2>1. job' = NoJob /\ UNCHANGED <<rows, bundle, panel, outcomes>>
            BY <1>7 DEF CommandFails, Interrupt, files, app, history
        <2>2. JobShape' /\ job'.pc = "none" /\ SentInv'
            BY <2>1 DEF JobShape, NoJob, SentInv
        <2> QED  BY <2>1, <2>2, NoNewRow
    <1>8. CASE App
        <2>1. UNCHANGED <<job, rows, outcomes>>
            BY <1>8 DEF App, SyncEvidence, Load, ReplayEvidence, LoadFails, files, history
        <2>2. bundle' \in {bundle, rows} /\ panel'.rows \in {panel.rows, bundle, <<>>}
            BY <1>8 DEF App, SyncEvidence, Load, ReplayEvidence, LoadFails, Loading
        <2>3. JobShape' /\ SentInv'
            BY <2>1 DEF JobShape, SentInv
        <2> QED  BY <2>1, <2>2, <2>3, NoNewRow
    <1>9. CASE (\E market \in Markets : KeeperSaves(market)) \/ UNCHANGED vars
        <2>1. UNCHANGED <<job, rows, bundle, panel, outcomes>>
            BY <1>9 DEF KeeperSaves, vars, files, app, history
        <2>2. JobShape' /\ SentInv'
            BY <2>1 DEF JobShape, SentInv
        <2> QED  BY <2>1, <2>2, NoNewRow
    <1> QED
        BY <1>1, <1>2, <1>3, <1>4, <1>5, <1>6, <1>7, <1>8, <1>9 DEF Next, Prove

LEMMA EvidenceAlways == Spec => []EvidenceInv
    BY EvidenceInitially, EvidenceStep, PTL DEF Spec

\* "Each prove run OWNS the file": no panel mixes the rows of two runs.
THEOREM PanelIsOfOneRun == Spec => []OneRunPerPanel
    <1>1. EvidenceInv => OneRunPerPanel
        BY DEF EvidenceInv, RowsInv, Proven, OfOneRun, OneRunPerPanel, ShownRows
    <1> QED  BY <1>1, EvidenceAlways, PTL

\* A control shown as caught was sent, and refused with the error that names it.
THEOREM CaughtIsReal == Spec => []CaughtWasRefused
    <1>1. EvidenceInv => CaughtWasRefused
        BY DEF EvidenceInv, RowsInv, Proven, Refused, CaughtWasRefused, ShownRows
    <1> QED  BY <1>1, EvidenceAlways, PTL

----------------------------------------------------------------------------
(* Types: of a run, and of the files it writes.                            *)

Sendable == Adversarial \cup Honest
Jobs == [pc : {"none", "fund", "load", "seed", "fire", "append", "reset", "control", "emit"},
         run : 0 .. MaxProves, market : Markets, todo : Seq(Sendable),
         holes : Builds \cup {{}}, outcome : {"none", "expected", "confirmed", "other"},
         since : Nat]
RowFiles == {rs \in Seq(RowType) : Len(rs) <= 9}
Panels == [status : {"loading", "no-proof", "error", "ready"}, rows : RowFiles,
           allCaught : BOOLEAN]

\* A run writes a row for each control, and one more: while it sends them there is room for
\* those that are left.
JobInv ==
    /\ job \in Jobs
    /\ job.pc = "none" => job = NoJob
    /\ job.pc # "none" => job.run = proves /\ job.run > 0
    /\ job.pc = "emit" => job.todo # <<>>
    /\ Len(job.todo) <= 8
    /\ job.pc \in {"control", "emit"} => Len(rows) + Len(job.todo) <= 8

FilesInv ==
    /\ saves \in Seq(Markets)
    /\ rows \in RowFiles
    /\ bundle \in RowFiles
    /\ panel \in Panels
    /\ torn \in BOOLEAN

CountersInv ==
    /\ proves \in 0 .. MaxProves
    /\ broken \subseteq 1 .. MaxProves

TypeInv == JobInv /\ FilesInv /\ CountersInv

LEMMA TypeInvImpliesTypeOK == TypeInv => TypeOK
    <1> SUFFICES ASSUME TypeInv PROVE TypeOK
        OBVIOUS
    <1>1. ASSUME NEW rs \in RowFiles
          PROVE  Len(rs) <= 9 /\ \A i \in DOMAIN rs : rs[i] \in RowType
        <2> DEFINE S == RowType
        <2>1. rs \in Seq(S) /\ Len(rs) <= 9
            BY <1>1 DEF RowFiles
        <2> HIDE DEF S
        <2>2. \A i \in DOMAIN rs : rs[i] \in S
            BY <2>1
        <2> QED  BY <2>1, <2>2 DEF S
    <1>2. {rows, bundle, panel.rows} \subseteq RowFiles
        BY DEF TypeInv, FilesInv, Panels
    <1>3. \A rs \in {rows, bundle, panel.rows} :
            Len(rs) <= 9 /\ \A i \in DOMAIN rs : rs[i] \in RowType
        BY <1>1, <1>2, Zenon
    <1> QED
        BY <1>3 DEF TypeInv, JobInv, FilesInv, CountersInv, TypeOK, Jobs, Panels, Sendable

LEMMA ControlsTyped ==
    ASSUME NEW market
    PROVE  Controls(market) \in Seq(Sendable) /\ Len(Controls(market)) <= 8
    <1>1. \A m : BeyondDebt(m) \in Seq(Sendable) /\ Len(BeyondDebt(m)) <= 1
        <2>1. "D" \in Sendable
            BY DEF Sendable, Adversarial
        <2>2. <<"D">> \in Seq(Sendable) /\ Len(<<"D">>) = 1
            BY <2>1
        <2>3. <<>> \in Seq(Sendable) /\ Len(<<>>) = 0
            OBVIOUS
        <2> QED  BY <2>2, <2>3 DEF BeyondDebt
    <1>2. /\ <<"B", "C1", "C2", "A", "E">> \in Seq(Sendable)
          /\ Len(<<"B", "C1", "C2", "A", "E">>) = 5
        BY DEF Sendable, Adversarial
    <1>3. <<"DH-6a", "DH-6b">> \in Seq(Sendable) /\ Len(<<"DH-6a", "DH-6b">>) = 2
        BY DEF Sendable, Adversarial, Honest
    <1>4. /\ <<"B", "C1", "C2", "A", "E", "DH-4a", "DH-4b">> \in Seq(Sendable)
          /\ Len(<<"B", "C1", "C2", "A", "E", "DH-4a", "DH-4b">>) = 7
        BY DEF Sendable, Adversarial
    <1>5. \A s, t, u \in Seq(Sendable) :
            /\ s \o t \in Seq(Sendable) /\ Len(s \o t) = Len(s) + Len(t)
            /\ s \o t \o u \in Seq(Sendable) /\ Len(s \o t \o u) = Len(s) + Len(t) + Len(u)
        OBVIOUS
    <1>6. KaminoControls \in Seq(Sendable) /\ Len(KaminoControls) <= 8
        BY <1>1, <1>2, <1>3, <1>5 DEF KaminoControls
    <1>7. SaveControls \in Seq(Sendable) /\ Len(SaveControls) <= 8
        BY <1>1, <1>4, <1>5 DEF SaveControls
    <1> QED  BY <1>6, <1>7 DEF Controls

LEMMA NoJobTyped == NoJob \in Jobs /\ NoJob.pc = "none" /\ Len(NoJob.todo) = 0
    <1>1. <<>> \in Seq(Sendable) /\ Len(<<>>) = 0
        OBVIOUS
    <1>2. 0 \in 0 .. MaxProves
        BY EvidenceAssumption
    <1> QED  BY <1>1, <1>2 DEF NoJob, Jobs, Markets

\* The last of a finite set of numbers.
LEMMA MaxExists ==
    ASSUME NEW I, IsFiniteSet(I), I # {}, I \subseteq Nat
    PROVE  Max(I) \in I /\ \A j \in I : Max(I) >= j
    <1> DEFINE Above(i) == {j \in I : j > i}
               T == {Above(i) : i \in I}
    <1>0. \A i \in I : i \in Nat
        OBVIOUS
    <1>1. T \subseteq FiniteSubsetsOf(I) /\ T # {}
        <2>1. \A i \in I : Above(i) \subseteq I /\ IsFiniteSet(Above(i))
            BY FS_Subset
        <2> QED  BY <2>1 DEF FiniteSubsetsOf
    <1>2. IsWellFoundedOn(StrictSubsetOrdering(I), FiniteSubsetsOf(I))
        BY FS_StrictSubsetOrderingWellFounded
    <1>3. PICK m \in I : \A i \in I : ~(<<Above(i), Above(m)>> \in StrictSubsetOrdering(I))
        <2> HIDE DEF T
        <2>1. PICK x \in T : \A y \in T : ~(<<y, x>> \in StrictSubsetOrdering(I))
            BY <1>1, <1>2, WFMin
        <2> QED  BY <2>1 DEF T
    <1>4. \A j \in I : m >= j
        <2> SUFFICES ASSUME NEW j \in I, j > m PROVE FALSE
            OBVIOUS
        <2>1. j > m /\ ~(j > j) /\ \A k \in I : k > j => k > m
            BY <1>0
        <2>2. Above(j) \subseteq Above(m) /\ j \in Above(m) /\ j \notin Above(j)
            BY <2>1
        <2>3. <<Above(j), Above(m)>> \in StrictSubsetOrdering(I)
            BY <2>2 DEF StrictSubsetOrdering
        <2> QED  BY <1>3, <2>3
    <1> QED  BY <1>4 DEF Max

\* The last save of a market is one of its saves, and no save of it is later.
LEMMA LastSaveIsLast ==
    ASSUME saves \in Seq(Markets), NEW market
    PROVE  /\ LastSave(market) \in 0 .. Len(saves)
           /\ \A i \in 1 .. Len(saves) : saves[i] = market => LastSave(market) >= i
    <1> DEFINE I == {i \in 1 .. Len(saves) : saves[i] = market}
    <1>1. LastSave(market) = IF I # {} THEN Max(I) ELSE 0
        BY DEF LastSave, SelectLastInSeq
    <1>2. I \subseteq 1 .. Len(saves) /\ Len(saves) \in Nat
        OBVIOUS
    <1>3. IsFiniteSet(I)
        <2>1. IsFiniteSet(1 .. Len(saves))
            BY <1>2, FS_Interval
        <2> QED  BY <1>2, <2>1, FS_Subset
    <1>4. I # {} => Max(I) \in I /\ \A j \in I : Max(I) >= j
        <2>1. I \subseteq Nat
            BY <1>2
        <2> HIDE DEF I
        <2> QED  BY <1>3, <2>1, MaxExists
    <1> QED  BY <1>1, <1>2, <1>4

LEMMA LoadingTyped ==
    /\ Loading \in Panels
    /\ \A status \in {"no-proof", "error"} : [Loading EXCEPT !.status = status] \in Panels
    <1> DEFINE S == RowType
    <1>1. <<>> \in RowFiles
        <2>1. <<>> \in Seq(S) /\ Len(<<>>) <= 9
            OBVIOUS
        <2> QED  BY <2>1 DEF RowFiles
    <1>2. Loading \in Panels
        BY <1>1 DEF Loading, Panels
    <1>3. \A p \in Panels, status \in {"no-proof", "error"} :
            [p EXCEPT !.status = status] \in Panels
        BY DEF Panels
    <1> QED  BY <1>2, <1>3

LEMMA TypeInitially == Init => TypeInv
    <1> SUFFICES ASSUME Init PROVE TypeInv
        OBVIOUS
    <1>1. JobInv
        BY NoJobTyped DEF Init, JobInv
    <1>2. <<>> \in RowFiles
        BY DEF RowFiles
    <1>3. FilesInv
        <2>1. saves \in Seq(Markets)
            BY DEF Init
        <2> QED  BY <1>2, <2>1, LoadingTyped DEF Init, FilesInv
    <1>4. CountersInv
        BY EvidenceAssumption DEF Init, CountersInv
    <1> QED  BY <1>1, <1>3, <1>4 DEF TypeInv

LEMMA MoreRows ==
    ASSUME NEW S, NEW rs \in Seq(S), NEW x \in S
    PROVE  Append(rs, x) \in Seq(S) /\ Len(Append(rs, x)) = Len(rs) + 1 /\ Len(rs) \in Nat
    OBVIOUS

\* A row of the run under way.
LEMMA RowTyped ==
    ASSUME TypeInv, job.pc \in {"control", "emit"}, NEW control \in Sendable \cup {"LEGIT"},
           NEW verdict \in {"CAUGHT", "LEAKED", "GREEN"}, NEW sig \in Nat
    PROVE  Row(control, verdict, sig) \in RowType
    <1>1. job.run \in 1 .. MaxProves /\ job.since \in Nat
        BY EvidenceAssumption DEF TypeInv, JobInv, Jobs
    <1> QED  BY <1>1 DEF Row, RowType, Sendable

\* One more row, while there is room.
LEMMA RowsTyped ==
    ASSUME rows \in RowFiles, Len(rows) <= 8, NEW r \in RowType
    PROVE  Append(rows, r) \in RowFiles /\ Len(Append(rows, r)) = Len(rows) + 1
    <1> DEFINE S == RowType
    <1>1. rows \in Seq(S) /\ r \in S
        BY DEF RowFiles
    <1> HIDE DEF S
    <1>2. Append(rows, r) \in Seq(S) /\ Len(Append(rows, r)) = Len(rows) + 1 /\ Len(rows) \in Nat
        BY <1>1, MoreRows
    <1> QED  BY <1>2 DEF S, RowFiles

LEMMA NoJobInv == job' = NoJob => JobInv'
    BY NoJobTyped DEF JobInv

LEMMA TypeStep ==
    ASSUME TypeInv, [Next]_vars
    PROVE  TypeInv'
    <1> USE DEF TypeInv
    <1>0. Len(rows) \in Nat /\ Len(job.todo) \in Nat
        BY DEF FilesInv, RowFiles, JobInv, Jobs
    <1>1. ASSUME NEW market \in Markets, NEW holes \in Builds, Boot(market, holes)
          PROVE  TypeInv'
        <2>1. job' = [pc |-> "fund", run |-> proves + 1, market |-> market,
                      todo |-> Controls(market), holes |-> holes, outcome |-> "none",
                      since |-> Len(saves)]
            BY <1>1 DEF Boot, NoJob
        <2>2. proves' = proves + 1 /\ proves' \in 1 .. MaxProves
            BY <1>1, EvidenceAssumption DEF Boot, CountersInv
        <2>3. Len(saves) \in Nat
            BY DEF FilesInv
        <2>4. Controls(market) \in Seq(Sendable) /\ Len(Controls(market)) <= 8
            BY ControlsTyped
        <2>5. job' \in Jobs
            BY <2>1, <2>2, <2>3, <2>4 DEF Jobs
        <2>6. JobInv'
            BY <2>1, <2>2, <2>4, <2>5 DEF JobInv
        <2>7. FilesInv' /\ CountersInv'
            BY <1>1, <2>2 DEF Boot, files, app, history, FilesInv, CountersInv
        <2> QED  BY <2>6, <2>7
    <1>2. CASE \/ FundWallets \/ LoadFork \/ SeedFork \/ SeedVault \/ Fire \/ AppendSave
        <2>1. PICK pc \in {"load", "seed", "fire", "append", "reset"} :
                job' = [job EXCEPT !.pc = pc]
            BY <1>2 DEF FundWallets, LoadFork, SeedFork, SeedVault, Fire, AppendSave, Command
        <2>2. job.pc # "none" /\ UNCHANGED <<rows, torn, bundle, panel, proves, broken>>
            BY <1>2 DEF FundWallets, LoadFork, SeedFork, SeedVault, Fire, AppendSave, Command,
                        files, app, history
        <2>3. JobInv'
            BY <2>1, <2>2 DEF JobInv, Jobs
        <2>4. saves' \in Seq(Markets)
            <3>1. job.market \in Markets
                BY DEF JobInv, Jobs
            <3>2. saves' = saves \/ saves' = Append(saves, job.market)
                BY <1>2 DEF FundWallets, LoadFork, SeedFork, SeedVault, Fire, AppendSave, Command,
                            files
            <3> QED  BY <3>1, <3>2 DEF FilesInv
        <2> QED  BY <2>2, <2>3, <2>4 DEF FilesInv, CountersInv
    <1>3. CASE ResetEvidence
        <2>1. /\ job' = [job EXCEPT !.pc = "control"] /\ job.pc = "reset"
              /\ rows' = <<>> /\ torn' = FALSE
              /\ UNCHANGED <<saves, bundle, panel, proves, broken>>
            BY <1>3 DEF ResetEvidence, app, history
        <2>2. rows' \in RowFiles /\ Len(rows') = 0
            BY <2>1 DEF RowFiles
        <2>3. JobInv'
            BY <1>0, <2>1, <2>2 DEF JobInv, Jobs
        <2> QED  BY <2>1, <2>2, <2>3 DEF FilesInv, CountersInv
    <1>4. CASE SendControl \/ SendFails
        <2>1. PICK outcome \in {"expected", "confirmed", "other"} :
                /\ job.pc = "control" /\ job.todo # <<>>
                /\ job' = [job EXCEPT !.pc = "emit", !.outcome = outcome]
                /\ UNCHANGED <<saves, rows, torn, bundle, panel, proves, broken>>
            BY <1>4 DEF SendControl, SendFails, Controlling, Sent, Outcomes, files, app
        <2>2. JobInv'
            BY <2>1 DEF JobInv, Jobs
        <2> QED  BY <2>1, <2>2 DEF FilesInv, CountersInv
    <1>5. CASE Emit
        <2> DEFINE control == Head(job.todo)
                   rest == Tail(job.todo)
                   row == Row(control, Verdict(control, job.outcome), NoSave)
        <2>1. /\ job.pc = "emit"
              /\ rows' = Append(rows, row)
              /\ UNCHANGED <<saves, torn, bundle, panel, proves, broken>>
            BY <1>5 DEF Emit, app, history
        <2>2. /\ job.todo # <<>> /\ job.todo \in Seq(Sendable)
              /\ Len(rows) + Len(job.todo) <= 8
            BY <2>1 DEF JobInv, Jobs
        <2>3. control \in Sendable /\ rest \in Seq(Sendable) /\ Len(rest) = Len(job.todo) - 1
            BY <2>2
        <2>4. Verdict(control, job.outcome) \in {"CAUGHT", "LEAKED", "GREEN"}
            BY DEF Verdict
        <2>5. row \in RowType
            BY <2>1, <2>3, <2>4, RowTyped DEF NoSave
        <2>6. Len(rows) <= 8
            BY <1>0, <2>2
        <2>7. rows' \in RowFiles /\ Len(rows') = Len(rows) + 1
            BY <2>1, <2>5, <2>6, RowsTyped DEF FilesInv
        <2>8. JobInv'
            <3>1. CASE job' = NoJob
                BY <3>1, NoJobInv
            <3>2. CASE job' = [job EXCEPT !.pc = "control", !.todo = Tail(@), !.outcome = "none"]
                <4>1. Len(rows') + Len(rest) <= 8 /\ Len(rest) <= 8
                    <5>1. PICK n \in Nat : n = Len(rows) /\ Len(rows') = n + 1
                        BY <1>0, <2>7
                    <5>2. PICK k \in Nat : k = Len(job.todo) /\ Len(rest) = k - 1
                        BY <1>0, <2>3
                    <5>3. n + k <= 8 /\ k <= 8
                        BY <2>2, <5>1, <5>2 DEF JobInv
                    <5>4. n + 1 + (k - 1) <= 8 /\ k - 1 <= 8
                        BY <5>3
                    <5> HIDE DEF rest
                    <5> QED  BY <5>1, <5>2, <5>4
                <4>2. job' = [job EXCEPT !.pc = "control", !.todo = rest, !.outcome = "none"]
                    BY <3>2
                <4> HIDE DEF rest
                <4>3. job' \in Jobs /\ job'.pc = "control" /\ job'.todo = rest /\ job'.run = job.run
                    BY <2>3, <4>2 DEF JobInv, Jobs
                <4> QED  BY <2>1, <4>1, <4>3 DEF JobInv
            <3> QED  BY <1>5, <3>1, <3>2 DEF Emit
        <2> QED  BY <2>1, <2>7, <2>8 DEF FilesInv, CountersInv
    <1>6. CASE EmitLegitGreen
        <2> DEFINE sig == LastSave(job.market)
                   row == Row("LEGIT", "GREEN", sig)
        <2>1. /\ job.pc = "control" /\ job' = NoJob /\ job.todo = <<>>
              /\ rows' = rows \/ rows' = Append(rows, row)
              /\ UNCHANGED <<saves, torn, bundle, panel, proves, broken>>
            BY <1>6 DEF EmitLegitGreen, app, history
        <2>2. sig \in Nat
            BY LastSaveIsLast DEF FilesInv
        <2>3. row \in RowType
            BY <2>1, <2>2, RowTyped
        <2>4. Len(rows) <= 8
            BY <1>0, <2>1 DEF JobInv
        <2>5. rows' \in RowFiles
            BY <2>1, <2>3, <2>4, RowsTyped DEF FilesInv
        <2>6. JobInv'
            BY <2>1, NoJobInv
        <2> QED  BY <2>1, <2>5, <2>6 DEF FilesInv, CountersInv
    <1>7. CASE CommandFails \/ Interrupt
        <2>1. job' = NoJob /\ UNCHANGED <<saves, rows, bundle, panel, proves>>
            BY <1>7 DEF CommandFails, Interrupt, files, app, history
        <2>2. torn' \in BOOLEAN
            BY <1>7 DEF CommandFails, Interrupt, files, FilesInv
        <2>3. broken' \subseteq 1 .. MaxProves
            <3>1. job # NoJob => job.run \in 1 .. MaxProves
                BY EvidenceAssumption DEF JobInv, CountersInv
            <3>2. broken' = broken \/ (job # NoJob /\ broken' = broken \cup {job.run})
                BY <1>7 DEF CommandFails, Interrupt, history
            <3> QED  BY <3>1, <3>2 DEF CountersInv
        <2>4. JobInv'
            BY <2>1, NoJobInv
        <2> QED  BY <2>1, <2>2, <2>3, <2>4 DEF FilesInv, CountersInv
    <1>8. CASE App
        <2>1. UNCHANGED <<job, saves, rows, torn, proves, broken>>
            BY <1>8 DEF App, SyncEvidence, Load, ReplayEvidence, LoadFails, files, history
        <2>2. bundle' \in RowFiles
            BY <1>8 DEF App, SyncEvidence, Load, ReplayEvidence, LoadFails, FilesInv
        <2>3. panel' \in Panels
            <3>1. CASE SyncEvidence
                BY <3>1 DEF SyncEvidence, FilesInv
            <3>2. CASE Load \/ LoadFails
                BY <3>2, LoadingTyped DEF Load, LoadFails
            <3>3. CASE ReplayEvidence
                <4>1. PICK all \in BOOLEAN : all <=> /\ Diverts(bundle) # {}
                                                   /\ \A i \in Diverts(bundle) : Caught(bundle[i])
                    OBVIOUS
                <4>2. \/ panel' = [status |-> "ready", rows |-> bundle, allCaught |-> all]
                      \/ panel' = [Loading EXCEPT !.status = "no-proof"]
                    BY <3>3, <4>1 DEF ReplayEvidence
                <4>3. CASE panel' = [status |-> "ready", rows |-> bundle, allCaught |-> all]
                    BY <4>3 DEF FilesInv, Panels
                <4>4. CASE panel' = [Loading EXCEPT !.status = "no-proof"]
                    BY <4>4, LoadingTyped
                <4> QED  BY <4>2, <4>3, <4>4
            <3> QED  BY <1>8, <3>1, <3>2, <3>3 DEF App
        <2> QED  BY <2>1, <2>2, <2>3 DEF JobInv, FilesInv, CountersInv
    <1>9. CASE (\E market \in Markets : KeeperSaves(market)) \/ UNCHANGED vars
        <2>1. UNCHANGED <<job, rows, torn, bundle, panel, proves, broken>>
            BY <1>9 DEF KeeperSaves, vars, files, app, history
        <2>2. saves' \in Seq(Markets)
            BY <1>9 DEF KeeperSaves, vars, files, FilesInv
        <2> QED  BY <2>1, <2>2 DEF JobInv, FilesInv, CountersInv
    <1> QED
        BY <1>1, <1>2, <1>3, <1>4, <1>5, <1>6, <1>7, <1>8, <1>9 DEF Next, Prove

LEMMA TypeAlways == Spec => []TypeInv
    BY TypeInitially, TypeStep, PTL DEF Spec

\* Every variable has its type, and there are never more rows than one run writes: eight
\* controls and the honest save.
THEOREM TypeCorrect == Spec => []TypeOK
    BY TypeAlways, TypeInvImpliesTypeOK, PTL

----------------------------------------------------------------------------
(* The green row.                                                          *)

\* A green row carries a save recorded after its run began.
OfItsRun(rs) == \A i \in DOMAIN rs : rs[i].control = "LEGIT" => rs[i].since < rs[i].sig

\* A run reaches the controls only past its own save.
GreenInv ==
    /\ job.since \in 0 .. Len(saves)
    /\ job.pc \in {"reset", "control", "emit"} =>
        \E i \in job.since + 1 .. Len(saves) : saves[i] = job.market
    /\ OfItsRun(rows)
    /\ OfItsRun(bundle)
    /\ OfItsRun(panel.rows)

LEMMA GreenInitially == Init => GreenInv
    BY DEF Init, GreenInv, OfItsRun, NoJob, Loading

\* One more row.
LEMMA GreenAppends ==
    ASSUME rows \in RowFiles, OfItsRun(rows), NEW r, r.control = "LEGIT" => r.since < r.sig
    PROVE  OfItsRun(Append(rows, r))
    <1> DEFINE S == RowType
    <1>1. rows \in Seq(S)
        BY DEF RowFiles
    <1> HIDE DEF S
    <1>2. \A i \in DOMAIN Append(rows, r) :
            \/ i \in DOMAIN rows /\ Append(rows, r)[i] = rows[i]
            \/ Append(rows, r)[i] = r
        BY <1>1
    <1> QED  BY <1>2 DEF OfItsRun

\* The ledger only grows.
LEMMA SavesGrow ==
    ASSUME saves \in Seq(Markets), NEW market \in Markets,
           NEW since \in 0 .. Len(saves), NEW m
    PROVE  LET more == Append(saves, market)
           IN  /\ since \in 0 .. Len(more)
               /\ (\E i \in since + 1 .. Len(saves) : saves[i] = m) =>
                    \E i \in since + 1 .. Len(more) : more[i] = m
               /\ \E i \in since + 1 .. Len(more) : more[i] = market
    <1> DEFINE more == Append(saves, market)
    <1>1. Len(saves) \in Nat /\ Len(more) = Len(saves) + 1 /\ more[Len(saves) + 1] = market
        OBVIOUS
    <1>2. \A i \in 1 .. Len(saves) : more[i] = saves[i]
        OBVIOUS
    <1>3. since \in Nat /\ since <= Len(saves)
        BY <1>1
    <1> HIDE DEF more
    <1>4. Len(saves) + 1 \in since + 1 .. Len(more)
        BY <1>1, <1>3
    <1>5. \A i \in since + 1 .. Len(saves) : i \in 1 .. Len(saves) /\ i \in since + 1 .. Len(more)
        BY <1>1, <1>3
    <1>6. since \in 0 .. Len(more)
        BY <1>1, <1>3
    <1> QED  BY <1>1, <1>2, <1>4, <1>5, <1>6 DEF more

LEMMA GreenStep ==
    ASSUME TypeInv, GreenInv, [Next]_vars
    PROVE  GreenInv'
    <1> USE DEF TypeInv, FilesInv
    <1>0. Len(saves) \in Nat
        OBVIOUS
    <1>1. ASSUME NEW market \in Markets, NEW holes \in Builds, Boot(market, holes)
          PROVE  GreenInv'
        <2>1. job'.pc = "fund" /\ job'.since = Len(saves)
            BY <1>1 DEF Boot, NoJob
        <2>2. UNCHANGED <<saves, rows, bundle, panel>>
            BY <1>1 DEF Boot, files, app
        <2> QED  BY <1>0, <2>1, <2>2 DEF GreenInv, OfItsRun
    <1>2. CASE FundWallets \/ LoadFork \/ SeedFork \/ SeedVault \/ Fire
        <2>1. PICK pc \in {"load", "seed", "fire", "append"} : job' = [job EXCEPT !.pc = pc]
            BY <1>2 DEF FundWallets, LoadFork, SeedFork, SeedVault, Fire, Command
        <2>2. UNCHANGED <<saves, rows, bundle, panel>>
            BY <1>2 DEF FundWallets, LoadFork, SeedFork, SeedVault, Fire, Command, files, app
        <2>3. job'.pc = pc /\ job'.since = job.since
            BY <2>1 DEF JobInv, Jobs
        <2> QED  BY <2>2, <2>3 DEF GreenInv, OfItsRun
    <1>3. CASE AppendSave
        <2>1. /\ saves' = Append(saves, job.market) /\ job' = [job EXCEPT !.pc = "reset"]
              /\ UNCHANGED <<rows, bundle, panel>>
            BY <1>3 DEF AppendSave, app
        <2>2. job.market \in Markets /\ job'.market = job.market /\ job'.since = job.since
            BY <2>1 DEF JobInv, Jobs
        <2>3. /\ job'.since \in 0 .. Len(saves')
              /\ \E i \in job'.since + 1 .. Len(saves') : saves'[i] = job'.market
            BY <2>1, <2>2, SavesGrow DEF GreenInv
        <2> QED  BY <2>1, <2>3 DEF GreenInv, OfItsRun
    <1>4. CASE ResetEvidence
        <2>1. /\ job' = [job EXCEPT !.pc = "control"] /\ job.pc = "reset" /\ rows' = <<>>
              /\ UNCHANGED <<saves, bundle, panel>>
            BY <1>4 DEF ResetEvidence, app
        <2>2. job'.market = job.market /\ job'.since = job.since
            BY <2>1 DEF JobInv, Jobs
        <2>3. OfItsRun(rows')
            BY <2>1 DEF OfItsRun
        <2> QED  BY <2>1, <2>2, <2>3 DEF GreenInv, OfItsRun
    <1>5. CASE SendControl \/ SendFails
        <2>1. PICK outcome \in {"expected", "confirmed", "other"} :
                /\ job.pc = "control"
                /\ job' = [job EXCEPT !.pc = "emit", !.outcome = outcome]
                /\ UNCHANGED <<saves, rows, bundle, panel>>
            BY <1>5 DEF SendControl, SendFails, Controlling, Sent, Outcomes, files, app
        <2>2. job'.market = job.market /\ job'.since = job.since
            BY <2>1 DEF JobInv, Jobs
        <2> QED  BY <2>1, <2>2 DEF GreenInv, OfItsRun
    <1>6. CASE Emit
        <2> DEFINE row == Row(Head(job.todo), Verdict(Head(job.todo), job.outcome), NoSave)
                   on == [job EXCEPT !.pc = "control", !.todo = Tail(@), !.outcome = "none"]
        <2>1. /\ job.pc = "emit" /\ rows' = Append(rows, row)
              /\ job' = NoJob \/ job' = on
              /\ UNCHANGED <<saves, bundle, panel>>
            BY <1>6 DEF Emit, app
        <2>2. job.todo # <<>> /\ job.todo \in Seq(Sendable)
            BY <2>1 DEF JobInv, Jobs
        <2>3. Head(job.todo) \in Sendable
            BY <2>2
        <2>4. row.control # "LEGIT"
            BY <2>3 DEF Row, Sendable, Adversarial, Honest
        <2>5. OfItsRun(rows')
            <3> HIDE DEF row
            <3> QED  BY <2>1, <2>4, GreenAppends DEF GreenInv
        <2>6. on.since = job.since /\ on.market = job.market
            BY DEF JobInv, Jobs
        <2>7. \/ job'.since = 0 /\ job'.pc = "none"
              \/ job'.since = job.since /\ job'.market = job.market
            <3>1. NoJob.since = 0 /\ NoJob.pc = "none"
                BY DEF NoJob
            <3> HIDE DEF on
            <3> QED  BY <2>1, <2>6, <3>1
        <2>8. 0 \in 0 .. Len(saves)
            BY <1>0
        <2> QED  BY <2>1, <2>5, <2>7, <2>8 DEF GreenInv, OfItsRun
    <1>7. CASE EmitLegitGreen
        <2> DEFINE sig == LastSave(job.market)
                   row == Row("LEGIT", "GREEN", sig)
        <2>1. /\ job.pc = "control" /\ job' = NoJob
              /\ rows' = rows \/ rows' = Append(rows, row)
              /\ UNCHANGED <<saves, bundle, panel>>
            BY <1>7 DEF EmitLegitGreen, app
        <2>2. PICK i \in job.since + 1 .. Len(saves) : saves[i] = job.market
            BY <2>1 DEF GreenInv
        <2>3. job.since \in 0 .. Len(saves)
            BY DEF GreenInv
        <2>4. i \in 1 .. Len(saves) /\ job.since < i
            BY <1>0, <2>2, <2>3
        <2>5. sig >= i /\ sig \in Nat
            BY <2>2, <2>4, LastSaveIsLast
        <2>6. job.since < sig
            <3> HIDE DEF sig
            <3> QED  BY <1>0, <2>3, <2>4, <2>5
        <2>7. row.since < row.sig
            BY <2>6 DEF Row
        <2>8. OfItsRun(rows')
            <3> HIDE DEF row
            <3> QED  BY <2>1, <2>7, GreenAppends DEF GreenInv
        <2>9. job'.since \in 0 .. Len(saves) /\ job'.pc = "none"
            BY <1>0, <2>1 DEF NoJob
        <2> QED  BY <2>1, <2>8, <2>9 DEF GreenInv, OfItsRun
    <1>8. CASE CommandFails \/ Interrupt
        <2>1. job' = NoJob /\ UNCHANGED <<saves, rows, bundle, panel>>
            BY <1>8 DEF CommandFails, Interrupt, files, app
        <2>2. job'.since \in 0 .. Len(saves) /\ job'.pc = "none"
            BY <1>0, <2>1 DEF NoJob
        <2> QED  BY <2>1, <2>2 DEF GreenInv, OfItsRun
    <1>9. CASE App
        <2>1. UNCHANGED <<job, saves, rows>>
            BY <1>9 DEF App, SyncEvidence, Load, ReplayEvidence, LoadFails, files
        <2>2. bundle' \in {bundle, rows} /\ panel'.rows \in {panel.rows, bundle, <<>>}
            BY <1>9 DEF App, SyncEvidence, Load, ReplayEvidence, LoadFails, Loading
        <2>3. OfItsRun(<<>>)
            BY DEF OfItsRun
        <2>4. OfItsRun(bundle') /\ OfItsRun(panel'.rows)
            BY <2>2, <2>3 DEF GreenInv
        <2> QED  BY <2>1, <2>4 DEF GreenInv, OfItsRun
    <1>10. ASSUME NEW market \in Markets, KeeperSaves(market)
           PROVE  GreenInv'
        <2>1. saves' = Append(saves, market) /\ UNCHANGED <<job, rows, bundle, panel>>
            BY <1>10 DEF KeeperSaves, app
        <2>2. job.since \in 0 .. Len(saves')
            BY <2>1, SavesGrow DEF GreenInv
        <2>3. (\E i \in job.since + 1 .. Len(saves) : saves[i] = job.market) =>
                \E i \in job.since + 1 .. Len(saves') : saves'[i] = job.market
            BY <2>1, SavesGrow DEF GreenInv
        <2> QED  BY <2>1, <2>2, <2>3 DEF GreenInv, OfItsRun
    <1>11. CASE UNCHANGED vars
        BY <1>11 DEF vars, files, app, GreenInv, OfItsRun
    <1> QED
        BY <1>1, <1>2, <1>3, <1>4, <1>5, <1>6, <1>7, <1>8, <1>9, <1>10, <1>11 DEF Next, Prove

\* The green row of a panel is a save recorded after that run began.
THEOREM GreenIsReal == Spec => []GreenIsOfItsRun
    <1>1. GreenInv => GreenIsOfItsRun
        BY DEF GreenInv, OfItsRun, GreenIsOfItsRun, ShownRows
    <1> QED  BY <1>1, TypeAlways, GreenInitially, GreenStep, PTL DEF Spec

----------------------------------------------------------------------------
(* A leak is loud.                                                         *)

Confirmed(o) == o.control \in Adversarial /\ o.outcome = "confirmed"
Leaked(rs) == \E i \in DOMAIN rs : rs[i].verdict = "LEAKED"

\* The run is about to write the row of o.
AboutToTell(o) ==
    /\ job.pc = "emit"
    /\ Head(job.todo) = o.control
    /\ job.outcome = "confirmed"

\* A divert that the last run let through is told, unless the run was interrupted: the row
\* is the next thing written, and it is the last of the run.
LeakInv ==
    /\ \A o \in outcomes : o.run \in 0 .. proves
    /\ \A o \in outcomes : Confirmed(o) /\ o.run = proves /\ o.run \notin broken =>
        AboutToTell(o) \/ (job.pc = "none" /\ Leaked(rows))
    /\ panel.allCaught => ~Leaked(panel.rows)

LEMMA LeakInitially == Init => LeakInv
    BY DEF Init, LeakInv, Loading

LEMMA LeakStep ==
    ASSUME TypeInv, LeakInv, [Next]_vars
    PROVE  LeakInv'
    <1> USE DEF TypeInv
    <1>0. /\ proves \in Nat
          /\ \A o \in outcomes : o.run \in 0 .. proves
        BY EvidenceAssumption DEF CountersInv, LeakInv
    \* Of a run that has not let one through, nothing is owed.
    <1>a. ASSUME job.pc \notin {"none", "emit"}, UNCHANGED <<outcomes, broken, proves, panel>>
          PROVE  LeakInv'
        BY <1>0, <1>a DEF LeakInv, AboutToTell, Leaked
    <1>1. ASSUME NEW market \in Markets, NEW holes \in Builds, Boot(market, holes)
          PROVE  LeakInv'
        <2>1. proves' = proves + 1 /\ UNCHANGED <<outcomes, panel>>
            BY <1>1 DEF Boot, history, app
        <2>2. PICK n \in Nat : n = proves
            BY <1>0
        <2>3. \A o \in outcomes : o.run \in 0 .. n + 1 /\ o.run # n + 1
            BY <1>0, <2>2
        <2>4. \A o \in outcomes : o.run \in 0 .. proves' /\ o.run # proves'
            BY <2>1, <2>2, <2>3
        <2> QED  BY <2>1, <2>4 DEF LeakInv, Leaked
    <1>2. CASE FundWallets \/ LoadFork \/ SeedFork \/ SeedVault \/ Fire \/ AppendSave
        <2>1. job.pc \notin {"none", "emit"} /\ UNCHANGED <<outcomes, broken, proves, panel>>
            BY <1>2 DEF FundWallets, LoadFork, SeedFork, SeedVault, Fire, AppendSave, Command,
                        app, history
        <2> QED  BY <1>a, <2>1
    <1>3. CASE ResetEvidence
        BY <1>3, <1>a DEF ResetEvidence, app, history
    <1>4. CASE SendControl \/ SendFails
        <2>1. PICK outcome \in {"expected", "confirmed", "other"} :
                /\ job.pc = "control"
                /\ job' = [job EXCEPT !.pc = "emit", !.outcome = outcome]
                /\ outcomes' = outcomes \cup {[run |-> job.run, control |-> Head(job.todo),
                                               outcome |-> outcome]}
                /\ UNCHANGED <<rows, panel, proves, broken>>
            BY <1>4 DEF SendControl, SendFails, Controlling, Sent, Outcomes, files, app
        <2>2. job'.pc = "emit" /\ job'.todo = job.todo /\ job'.outcome = outcome /\ job.run = proves
            BY <2>1 DEF JobInv, Jobs
        <2>3. \A o \in outcomes' : o.run \in 0 .. proves'
            BY <1>0, <2>1, <2>2
        <2>4. \A o \in outcomes : ~(Confirmed(o) /\ o.run = proves /\ o.run \notin broken)
            BY <2>1 DEF LeakInv, AboutToTell
        <2>5. \A o \in outcomes' : Confirmed(o) /\ o.run = proves /\ o.run \notin broken =>
                job'.pc = "emit" /\ Head(job'.todo) = o.control /\ job'.outcome = "confirmed"
            BY <2>1, <2>2, <2>4 DEF Confirmed
        <2> QED  BY <2>1, <2>3, <2>5 DEF LeakInv, AboutToTell, Leaked, Confirmed
    <1>5. CASE Emit
        <2> DEFINE verdict == Verdict(Head(job.todo), job.outcome)
                   row == Row(Head(job.todo), verdict, NoSave)
        <2>1. /\ job.pc = "emit" /\ rows' = Append(rows, row)
              /\ verdict = "LEAKED" => job' = NoJob
              /\ UNCHANGED <<outcomes, broken, proves, panel>>
            BY <1>5 DEF Emit, app, history
        <2>2. ASSUME NEW o \in outcomes, Confirmed(o), o.run = proves, o.run \notin broken
              PROVE  job'.pc = "none" /\ Leaked(rows')
            <3>1. AboutToTell(o)
                BY <2>1, <2>2 DEF LeakInv
            <3>2. verdict = "LEAKED"
                BY <2>2, <3>1 DEF AboutToTell, Verdict, Confirmed, Adversarial, Honest
            <3>3. row.verdict = "LEAKED"
                BY <3>2 DEF Row
            <3>4. Len(rows) + 1 \in DOMAIN rows' /\ rows'[Len(rows) + 1] = row
                <4> DEFINE S == RowType
                <4>1. rows \in Seq(S)
                    BY DEF FilesInv, RowFiles
                <4> HIDE DEF S, row
                <4> QED  BY <2>1, <4>1
            <3> QED  BY <2>1, <3>2, <3>3, <3>4 DEF Leaked, NoJob
        <2> QED  BY <1>0, <2>1, <2>2 DEF LeakInv, Leaked
    <1>6. CASE EmitLegitGreen
        BY <1>6, <1>a DEF EmitLegitGreen, app, history
    <1>7. CASE CommandFails
        <2>1. job.pc \notin {"none", "emit"} /\ UNCHANGED <<outcomes, broken, proves, panel>>
            BY <1>7 DEF CommandFails, app, history
        <2> QED  BY <1>a, <2>1
    <1>8. CASE Interrupt
        <2>1. /\ job.pc # "none" /\ broken' = broken \cup {job.run}
              /\ UNCHANGED <<outcomes, proves, panel>>
            BY <1>8 DEF Interrupt, JobInv, app
        <2>2. proves \in broken'
            BY <2>1 DEF JobInv
        <2> QED  BY <2>1, <2>2 DEF LeakInv, Leaked
    <1>9. CASE App
        <2>1. UNCHANGED <<job, rows, outcomes, broken, proves>>
            BY <1>9 DEF App, SyncEvidence, Load, ReplayEvidence, LoadFails, files, history
        <2>2. panel'.allCaught => ~Leaked(panel'.rows)
            <3>1. CASE SyncEvidence
                BY <3>1 DEF SyncEvidence, LeakInv
            <3>2. CASE Load \/ LoadFails
                <4>1. panel'.allCaught = FALSE
                    BY <3>2 DEF Load, LoadFails, Loading
                <4> QED  BY <4>1
            <3>3. CASE ReplayEvidence
                <4>1. PICK all \in BOOLEAN : all <=> /\ Diverts(bundle) # {}
                                                   /\ \A i \in Diverts(bundle) : Caught(bundle[i])
                    OBVIOUS
                <4>2. \/ panel' = [status |-> "ready", rows |-> bundle, allCaught |-> all]
                      \/ panel' = [Loading EXCEPT !.status = "no-proof"]
                    BY <3>3, <4>1 DEF ReplayEvidence
                <4>3. CASE panel' = [status |-> "ready", rows |-> bundle, allCaught |-> all]
                    <5>1. all => ~Leaked(bundle)
                        BY <4>1 DEF Leaked, Diverts, Caught
                    <5> QED  BY <4>3, <5>1
                <4>4. CASE panel' = [Loading EXCEPT !.status = "no-proof"]
                    <5>1. panel'.allCaught = FALSE
                        BY <4>4 DEF Loading
                    <5> QED  BY <5>1
                <4> QED  BY <4>2, <4>3, <4>4
            <3> QED  BY <1>9, <3>1, <3>2, <3>3 DEF App
        <2> QED  BY <2>1, <2>2 DEF LeakInv, AboutToTell, Leaked
    <1>10. CASE (\E market \in Markets : KeeperSaves(market)) \/ UNCHANGED vars
        <2>1. UNCHANGED <<job, rows, panel, outcomes, broken, proves>>
            BY <1>10 DEF KeeperSaves, vars, files, app, history
        <2> QED  BY <2>1 DEF LeakInv, AboutToTell, Leaked
    <1> QED
        BY <1>1, <1>2, <1>3, <1>4, <1>5, <1>6, <1>7, <1>8, <1>9, <1>10 DEF Next, Prove

\* Once a run that was not interrupted has let a divert through, a panel with its rows does
\* not say ALL CAUGHT.
THEOREM LeaksAreLoud == Spec => []LeakIsLoud
    <1>1. TypeInv /\ LeakInv => LeakIsLoud
        <2> SUFFICES ASSUME TypeInv, LeakInv, NEW o \in outcomes, Confirmed(o), o.run = proves,
                            o.run \notin broken, job = NoJob, panel.rows = rows
                     PROVE  ~panel.allCaught
            BY DEF LeakIsLoud, Confirmed
        <2>1. job.pc = "none"
            BY DEF NoJob
        <2>2. Leaked(rows)
            BY <2>1 DEF LeakInv, AboutToTell
        <2> QED  BY <2>2 DEF LeakInv
    <1> QED  BY <1>1, TypeAlways, LeakInitially, LeakStep, PTL DEF Spec
=============================================================================
