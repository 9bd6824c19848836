-------------------------- MODULE Waitlist_proofs --------------------------
(***************************************************************************)
(* The counts of the waitlist are real and what it calls persisted is      *)
(* durable: for any browsers, forms and addresses, any number of requests  *)
(* at once, of faults and of deaths of the server.                         *)
(*                                                                         *)
(* ListInv: whatever a request has read, and every row of a store, is of   *)
(* an address that was posted, so that the rows a count is made of are     *)
(* some of the posted addresses; one about to be appended is not among     *)
(* the rows its request read, and so may be counted once more.             *)
(***************************************************************************)
EXTENDS Waitlist, FiniteSetTheorems, TLAPS

Pages == [count : Counts, duplicate : BOOLEAN,
          status : {"idle", "submitting", "done", "error"}]
Requests == [kind : {"GET", "POST"}, from : Browsers, live : BOOLEAN, born : 0 .. MaxFaults,
             email : Emails \cup {Invalid}, duplicate : BOOLEAN, pending : SUBSET Stores,
             pc : {"read", "append", "fallback", "answered", "refused"},
             seen : [Emails -> Nat], count : Nat]
Rows == [Emails -> Nat]
Files == [lines : Rows, corrupt : BOOLEAN, torn : BOOLEAN]

\* The rows are of addresses in P.
Of(rows, P) == \A e \in Emails : rows[e] > 0 => e \in P

Sound(q, P) ==
    /\ q \in Requests
    /\ Of(q.seen, P)
    /\ q.kind = "POST" /\ q.pc # "refused" => q.email \in P
    /\ q.pc \in {"append", "fallback"} => q.kind = "POST" /\ q.seen[q.email] = 0
    /\ q.count <= Cardinality(P)

PagesInv == page \in [Browsers -> Pages] /\ CountIsReal
RequestsInv == \A q \in requests : Sound(q, posted)
FilesInv == file \in [Stores -> Files] /\ \A s \in Stores : Of(file[s].lines, posted)
BoundsInv ==
    /\ faults \in 0 .. MaxFaults
    /\ deaths \in 0 .. MaxDeaths
    /\ posted \subseteq Emails
    /\ IsFiniteSet(posted)
    /\ promised \subseteq posted
    /\ tears \in Nat

ListInv == PagesInv /\ RequestsInv /\ FilesInv /\ BoundsInv

\* The addresses answered as persisted whose row is not there.
Lost == {e \in promised : file["primary"].lines[e] = 0}

----------------------------------------------------------------------------
(* Rows and requests.                                                      *)

\* A count of rows of addresses in P is at most their number, and leaves room for one more
\* address of P without a row.
LEMMA CountBound ==
    ASSUME NEW P, IsFiniteSet(P), NEW rows \in Rows, Of(rows, P)
    PROVE  /\ CountRows(rows) \in Nat
           /\ CountRows(rows) <= Cardinality(P)
           /\ \A e \in Emails : e \in P /\ rows[e] = 0 => CountRows(rows) + 1 <= Cardinality(P)
    <1> DEFINE C == {e \in Emails : rows[e] > 0}
    <1>1. C \subseteq P
        BY DEF Of
    <1>2. IsFiniteSet(C) /\ Cardinality(C) \in Nat /\ Cardinality(C) <= Cardinality(P)
        BY <1>1, FS_Subset, FS_CardinalityType
    <1>3. ASSUME NEW e \in Emails, e \in P, rows[e] = 0
          PROVE  Cardinality(C) + 1 <= Cardinality(P)
        <2>1. IsFiniteSet(P \ {e}) /\ Cardinality(P \ {e}) = Cardinality(P) - 1
            BY <1>3, FS_RemoveElement
        <2>2. C \subseteq P \ {e}
            BY <1>1, <1>3 DEF Rows
        <2>3. Cardinality(C) <= Cardinality(P \ {e})
            BY <2>1, <2>2, FS_Subset
        <2>4. Cardinality(P) \in Nat
            BY FS_CardinalityType
        <2> QED  BY <1>2, <2>1, <2>3, <2>4
    <1> QED  BY <1>2, <1>3 DEF CountRows

LEMMA NoRowsOf == NoRows \in Rows /\ \A P : Of(NoRows, P)
    BY DEF NoRows, Rows, Of

\* More addresses posted: what was sound remains so.
LEMMA SoundGrows ==
    ASSUME NEW P, NEW R, P \subseteq R, IsFiniteSet(R), NEW q, Sound(q, P)
    PROVE  Sound(q, R)
    <1>1. Cardinality(P) <= Cardinality(R) /\ IsFiniteSet(P)
        BY FS_Subset
    <1>2. Cardinality(P) \in Nat /\ Cardinality(R) \in Nat
        BY <1>1, FS_CardinalityType
    <1>3. q.count \in Nat /\ q.count <= Cardinality(P)
        BY DEF Sound, Requests
    <1>4. q.count <= Cardinality(R)
        BY <1>1, <1>2, <1>3
    <1> QED  BY <1>4 DEF Sound, Of

LEMMA NewRequest ==
    ASSUME NEW P, IsFiniteSet(P), WaitlistAssumption, NEW b \in Browsers
    PROVE  /\ Sound(Request("GET", b, Invalid), P)
           /\ \A e \in P \cap Emails : Sound(Request("POST", b, e), P)
           /\ Sound([Request("POST", b, Invalid) EXCEPT !.pc = "refused"], P)
    <1>1. Cardinality(P) \in Nat
        BY FS_CardinalityType
    <1>2. Request("GET", b, Invalid) \in Requests
        BY NoRowsOf DEF Request, Requests, Rows, WaitlistAssumption
    <1>3. \A e \in P \cap Emails : Request("POST", b, e) \in Requests
        BY NoRowsOf DEF Request, Requests, Rows, WaitlistAssumption
    <1>4. Request("POST", b, Invalid) \in Requests
        BY NoRowsOf DEF Request, Requests, Rows, WaitlistAssumption
    <1>5. Sound(Request("GET", b, Invalid), P)
        BY <1>1, <1>2, NoRowsOf DEF Request, Sound
    <1>6. \A e \in P \cap Emails : Sound(Request("POST", b, e), P)
        BY <1>1, <1>3, NoRowsOf DEF Request, Sound
    <1>7. Sound([Request("POST", b, Invalid) EXCEPT !.pc = "refused"], P)
        <2> DEFINE q == Request("POST", b, Invalid)
        <2>1. q.count = 0 /\ q.seen = NoRows
            BY DEF Request
        <2> HIDE DEF q
        <2>2. [q EXCEPT !.pc = "refused"] \in Requests
            BY <1>4 DEF q, Requests
        <2> QED  BY <1>1, <1>4, <2>1, <2>2, NoRowsOf DEF q, Sound, Requests
    <1> QED  BY <1>5, <1>6, <1>7

LEMMA TookSound ==
    ASSUME NEW P, NEW q, Sound(q, P), NEW s, Reading(q, s), NEW rows \in Rows, Of(rows, P)
    PROVE  Sound(Took(q, s, rows), P)
    <1> DEFINE sum == [e \in Emails |-> q.seen[e] + rows[e]]
    <1>1. sum \in Rows /\ Of(sum, P)
        BY DEF Sound, Requests, Rows, Of
    <1>2. Took(q, s, rows) = [q EXCEPT !.pending = @ \ {s}, !.seen = sum]
        BY DEF Took
    <1> HIDE DEF sum
    <1>3. Took(q, s, rows) \in Requests
        BY <1>1, <1>2 DEF Sound, Requests, Rows
    <1> QED  BY <1>1, <1>2, <1>3 DEF Sound, Requests, Reading

LEMMA AnsweredSound ==
    ASSUME NEW P, NEW q, Sound(q, P), q.pc # "refused", NEW c \in Nat, c <= Cardinality(P),
           NEW d \in BOOLEAN
    PROVE  Sound(Answered(q, c, d), P)
    <1>1. Answered(q, c, d) \in Requests
        BY NoRowsOf DEF Sound, Requests, Answered, Rows
    <1> QED  BY <1>1, NoRowsOf DEF Sound, Requests, Answered

LEMMA OrphanSound ==
    ASSUME NEW P, NEW q, Sound(q, P), NEW n \in 0 .. MaxFaults
    PROVE  Sound([q EXCEPT !.live = FALSE, !.born = n], P)
    <1>1. [q EXCEPT !.live = FALSE, !.born = n] \in Requests
        BY DEF Sound, Requests
    <1> QED  BY <1>1 DEF Sound, Requests

LEMMA OrphansSound ==
    ASSUME BoundsInv, WaitlistAssumption, Fault, NEW qs, \A q \in qs : Sound(q, posted)
    PROVE  \A q \in Orphaned(qs) : Sound(q, posted)
    <1>1. faults + 1 \in 0 .. MaxFaults
        BY DEF BoundsInv, Fault, WaitlistAssumption
    <1>2. \A q \in qs : Sound([q EXCEPT !.live = FALSE, !.born = faults + 1], posted)
        BY <1>1, OrphanSound
    <1> QED  BY <1>2, Zenon DEF Orphaned

\* A request moves on to another sound one, or ends.
LEMMA Moved ==
    ASSUME RequestsInv, NEW q \in requests, NEW r, Sound(r, posted), posted' = posted,
           Becomes(q, r) \/ Finishes(q, r)
    PROVE  RequestsInv'
    BY DEF RequestsInv, Becomes, Finishes

LEMMA AppendedOf ==
    ASSUME NEW P, NEW f \in Files, Of(f.lines, P), NEW e \in Emails, e \in P
    PROVE  Appended(f, e) \in Files /\ Of(Appended(f, e).lines, P)
    <1>1. CASE f.torn
        BY <1>1 DEF Appended, Files
    <1>2. CASE ~f.torn
        <2> DEFINE more == [f.lines EXCEPT ![e] = @ + 1]
        <2>1. more \in Rows /\ Of(more, P)
            BY DEF Files, Rows, Of
        <2>2. Appended(f, e) = [f EXCEPT !.lines = more]
            BY <1>2 DEF Appended
        <2> HIDE DEF more
        <2> QED  BY <2>1, <2>2 DEF Files
    <1> QED  BY <1>1, <1>2

\* What a request that is done appending has to say.
LEMMA JoinedSound ==
    ASSUME BoundsInv, NEW q, Sound(q, posted), q.pc \in {"append", "fallback"}
    PROVE  Sound(Joined(q), posted)
    <1>1. q.email \in posted /\ q.email \in Emails /\ q.seen[q.email] = 0
        BY DEF Sound, BoundsInv
    <1>2. q.seen \in Rows /\ Of(q.seen, posted)
        BY DEF Sound, Requests, Rows
    <1>3. CountRows(q.seen) + 1 \in Nat /\ CountRows(q.seen) + 1 <= Cardinality(posted)
        BY <1>1, <1>2, CountBound DEF BoundsInv
    <1> QED  BY <1>3, AnsweredSound DEF Joined

----------------------------------------------------------------------------
(* The steps.                                                              *)

LEMMA ListInitially == WaitlistAssumption /\ Init => ListInv
    <1> SUFFICES ASSUME WaitlistAssumption, Init PROVE ListInv
        OBVIOUS
    <1>1. IsFiniteSet({}) /\ Cardinality({}) = 0
        BY FS_EmptySet
    <1>2. BoundsInv
        BY <1>1 DEF Init, BoundsInv, WaitlistAssumption
    <1>3. [Fresh EXCEPT !.count = 0] \in Pages /\ [Fresh EXCEPT !.count = 0].count = 0
        <2>1. Fresh \in Pages
            BY DEF Fresh, Pages, Counts
        <2>2. \A p \in Pages : [p EXCEPT !.count = 0] \in Pages /\ [p EXCEPT !.count = 0].count = 0
            BY DEF Pages, Counts
        <2> QED  BY <2>1, <2>2
    <1>4. PagesInv
        <2> DEFINE first == [Fresh EXCEPT !.count = 0]
        <2>1. page = [b \in Browsers |-> first] /\ posted = {}
            BY DEF Init
        <2>2. first \in Pages /\ first.count = 0
            BY <1>3
        <2> HIDE DEF first
        <2> QED  BY <1>1, <2>1, <2>2 DEF PagesInv, CountIsReal
    <1>5. FilesInv
        BY NoRowsOf DEF Init, FilesInv, Files, Empty
    <1>6. RequestsInv
        BY DEF Init, RequestsInv
    <1> QED  BY <1>2, <1>4, <1>5, <1>6 DEF ListInv

\* Steps of the server that answer no browser.
LEMMA ServeFrame ==
    ASSUME ListInv, UNCHANGED <<page, deaths, posted, tears>>,
           RequestsInv', FilesInv', faults' \in 0 .. MaxFaults, promised' \subseteq posted
    PROVE  ListInv'
    BY DEF ListInv, PagesInv, BoundsInv, CountIsReal

LEMMA FilesFrame == ASSUME FilesInv, UNCHANGED <<file, posted>> PROVE FilesInv'
    BY DEF FilesInv

LEMMA BoundsPrime == ASSUME BoundsInv PROVE Cardinality(posted) \in Nat
    BY FS_CardinalityType DEF BoundsInv

LEMMA SubmitStep ==
    ASSUME WaitlistAssumption, ListInv, NEW b \in Browsers, NEW f \in Forms, Submit(b, f)
    PROVE  ListInv'
    <1> USE DEF ListInv
    <1> DEFINE e == Normal[f]
    <1>1. /\ e \in Emails \cup {Invalid}
          /\ posted \subseteq posted' /\ posted' \subseteq Emails
          /\ e # Invalid => e \in posted' \cap Emails
        BY DEF WaitlistAssumption, BoundsInv, Submit
    <1>2. IsFiniteSet(posted')
        <2>1. IsFiniteSet(posted \cup {e})
            BY FS_AddElement DEF BoundsInv
        <2>2. posted' \subseteq posted \cup {e}
            BY DEF Submit
        <2> QED  BY <2>1, <2>2, FS_Subset
    <1>3. Cardinality(posted) <= Cardinality(posted')
        BY <1>1, <1>2, FS_Subset
    <1>4. Cardinality(posted) \in Nat /\ Cardinality(posted') \in Nat
        BY <1>2, FS_CardinalityType DEF BoundsInv
    <1>5. RequestsInv'
        <2>1. \A q \in requests : Sound(q, posted')
            BY <1>1, <1>2, SoundGrows DEF RequestsInv
        <2>2. CASE e = Invalid
            <3>1. requests' = requests \cup {[Request("POST", b, Invalid) EXCEPT !.pc = "refused"]}
                BY <2>2 DEF Submit
            <3>2. Sound([Request("POST", b, Invalid) EXCEPT !.pc = "refused"], posted')
                BY <1>2, NewRequest
            <3> QED  BY <2>1, <3>1, <3>2 DEF RequestsInv
        <2>3. CASE e # Invalid
            <3>1. requests' = requests \cup {Request("POST", b, e)}
                BY <2>3 DEF Submit
            <3>2. Sound(Request("POST", b, e), posted')
                BY <1>1, <1>2, <2>3, NewRequest
            <3> QED  BY <2>1, <3>1, <3>2 DEF RequestsInv
        <2> QED  BY <2>2, <2>3
    <1>6. PagesInv'
        <2>1. page' = [page EXCEPT ![b].status = "submitting"]
            BY DEF Submit
        <2>2. page' \in [Browsers -> Pages]
            BY <2>1 DEF PagesInv, Pages
        <2>3. \A c \in Browsers : page'[c].count = page[c].count /\ page[c].count \in Counts
            BY <2>1 DEF PagesInv, Pages
        <2>4. CountIsReal'
            BY <1>3, <1>4, <2>3 DEF PagesInv, CountIsReal, Counts, Unknown
        <2> QED  BY <2>2, <2>4 DEF PagesInv
    <1>7. FilesInv'
        BY <1>1 DEF Submit, FilesInv, Of
    <1>8. BoundsInv'
        BY <1>1, <1>2 DEF Submit, BoundsInv
    <1> QED  BY <1>5, <1>6, <1>7, <1>8

LEMMA ReloadStep ==
    ASSUME WaitlistAssumption, ListInv, NEW b \in Browsers, Reload(b)
    PROVE  ListInv'
    <1> USE DEF ListInv
    <1>1. RequestsInv'
        <2> DEFINE left == {q \in requests : q.live /\ q.from = b}
        <2>1. \A q \in Orphaned(left) : Sound(q, posted)
            BY OrphansSound DEF Reload, RequestsInv
        <2>2. Sound(Request("GET", b, Invalid), posted)
            BY NewRequest DEF BoundsInv
        <2>3. /\ requests' = (requests \ left) \cup Orphaned(left) \cup {Request("GET", b, Invalid)}
              /\ posted' = posted
            BY DEF Reload, history
        <2> QED  BY <2>1, <2>2, <2>3, Zenon DEF RequestsInv
    <1>2. PagesInv'
        <2>1. Fresh \in Pages /\ Fresh.count = -1
            BY DEF Fresh, Pages, Counts, Unknown
        <2>2. page' = [page EXCEPT ![b] = Fresh] /\ posted' = posted
            BY DEF Reload, history
        <2> QED  BY <2>1, <2>2, BoundsPrime DEF PagesInv, CountIsReal
    <1>3. FilesInv' /\ BoundsInv'
        BY DEF Reload, history, FilesInv, BoundsInv, Fault, WaitlistAssumption
    <1> QED  BY <1>1, <1>2, <1>3

LEMMA LoseStep ==
    ASSUME WaitlistAssumption, ListInv, NEW q \in requests, Lose(q)
    PROVE  ListInv'
    <1> USE DEF ListInv
    <1>0. Sound(q, posted)
        BY DEF RequestsInv
    <1>1. RequestsInv'
        <2>1. \A p \in Orphaned({q}) : Sound(p, posted)
            BY <1>0, OrphansSound DEF Lose
        <2>2. requests' \subseteq requests \cup Orphaned({q}) /\ posted' = posted
            BY DEF Lose, history
        <2> QED  BY <2>1, <2>2, Zenon DEF RequestsInv
    <1>2. PagesInv'
        <2>1. q.from \in Browsers /\ page[q.from] \in Pages
            BY <1>0 DEF PagesInv, Sound, Requests
        <2>2. Failed(page[q.from], q.kind) \in Pages
            BY <2>1 DEF Failed, Pages, Counts, Unknown
        <2>3. Failed(page[q.from], q.kind).count \in {page[q.from].count, -1}
            BY <2>1 DEF Failed, Pages, Unknown
        <2>4. page' = [page EXCEPT ![q.from] = Failed(page[q.from], q.kind)] /\ posted' = posted
            BY DEF Lose, history
        <2> QED  BY <2>1, <2>2, <2>3, <2>4, BoundsPrime DEF PagesInv, CountIsReal
    <1>3. FilesInv' /\ BoundsInv'
        BY DEF Lose, history, FilesInv, BoundsInv, Fault, WaitlistAssumption
    <1> QED  BY <1>1, <1>2, <1>3

LEMMA DeliverStep ==
    ASSUME WaitlistAssumption, ListInv, NEW q \in requests, Deliver(q)
    PROVE  ListInv'
    <1> USE DEF ListInv
    <1>0. Sound(q, posted)
        BY DEF RequestsInv
    <1>1. RequestsInv'
        BY DEF Deliver, history, RequestsInv
    <1>2. PagesInv'
        <2>1. /\ q.from \in Browsers /\ page[q.from] \in Pages
              /\ q.count \in Nat /\ q.count <= Cardinality(posted) /\ q.duplicate \in BOOLEAN
            BY <1>0 DEF PagesInv, Sound, Requests
        <2>2. PICK p \in Pages : /\ p.count \in {page[q.from].count, q.count}
                                 /\ page' = [page EXCEPT ![q.from] = p]
            <3>1. CASE q.kind = "GET"
                <4>1. [page[q.from] EXCEPT !.count = q.count] \in Pages
                    BY <2>1 DEF Pages, Counts
                <4> QED  BY <2>1, <3>1, <4>1 DEF Deliver, Pages
            <3>2. CASE q.kind # "GET" /\ q.pc = "refused"
                <4>1. [page[q.from] EXCEPT !.status = "error"] \in Pages
                    BY <2>1 DEF Pages
                <4> QED  BY <2>1, <3>2, <4>1 DEF Deliver, Pages
            <3>3. CASE q.kind # "GET" /\ q.pc # "refused"
                <4> DEFINE p == [count |-> q.count, status |-> "done",
                                 duplicate |-> q.duplicate]
                <4>1. p \in Pages /\ p.count = q.count
                    BY <2>1 DEF Pages, Counts
                <4>2. page' = [page EXCEPT ![q.from] = p]
                    BY <3>3 DEF Deliver
                <4> QED  BY <4>1, <4>2
            <3> QED  BY <3>1, <3>2, <3>3
        <2>3. posted' = posted
            BY DEF Deliver, history
        <2> QED  BY <2>1, <2>2, <2>3 DEF PagesInv, CountIsReal
    <1>3. FilesInv' /\ BoundsInv'
        BY DEF Deliver, history, FilesInv, BoundsInv
    <1> QED  BY <1>1, <1>2, <1>3

\* A store is read, or cannot be.
LEMMA ReadStep ==
    ASSUME WaitlistAssumption, ListInv, NEW q \in requests, NEW s \in Stores,
           ReadFileRows(q, s) \/ ReadFails(q, s)
    PROVE  ListInv'
    <1> USE DEF ListInv
    <1>1. file[s].lines \in Rows /\ Of(file[s].lines, posted)
        BY DEF FilesInv, Files
    <1>2. PICK rows \in Rows : Of(rows, posted) /\ Becomes(q, Took(q, s, rows)) /\ Reading(q, s)
        BY <1>1, NoRowsOf DEF ReadFileRows, ReadFails
    <1>3. Sound(Took(q, s, rows), posted)
        BY <1>2, TookSound DEF RequestsInv
    <1>4. UNCHANGED <<page, file, deaths, posted, promised, tears>>
        BY DEF ReadFileRows, ReadFails, history
    <1>5. RequestsInv'
        BY <1>2, <1>3, <1>4, Moved
    <1>6. faults' \in 0 .. MaxFaults
        BY DEF ReadFileRows, ReadFails, Fault, BoundsInv, WaitlistAssumption
    <1> QED  BY <1>4, <1>5, <1>6, FilesFrame, ServeFrame DEF BoundsInv

\* The request is answered with what it has read.
LEMMA AnswerStep ==
    ASSUME ListInv, NEW q \in requests, AnswerCount(q) \/ AnswerDuplicate(q)
    PROVE  ListInv'
    <1> USE DEF ListInv
    <1>1. Sound(q, posted) /\ q.pc = "read" /\ q.seen \in Rows /\ Of(q.seen, posted)
        BY DEF RequestsInv, Sound, Requests, Rows, AnswerCount, AnswerDuplicate, Looked
    <1>2. CountRows(q.seen) \in Nat /\ CountRows(q.seen) <= Cardinality(posted)
        BY <1>1, CountBound DEF BoundsInv
    <1>3. PICK d \in BOOLEAN : Finishes(q, Answered(q, CountRows(q.seen), d))
        BY DEF AnswerCount, AnswerDuplicate
    <1>4. Sound(Answered(q, CountRows(q.seen), d), posted)
        BY <1>1, <1>2, AnsweredSound
    <1>5. UNCHANGED <<page, file, faults, deaths, posted, promised, tears>>
        BY DEF AnswerCount, AnswerDuplicate, history
    <1>6. RequestsInv'
        BY <1>3, <1>4, <1>5, Moved
    <1> QED  BY <1>5, <1>6, FilesFrame, ServeFrame DEF BoundsInv

\* The request turns to the next store.
LEMMA TurnStep ==
    ASSUME ListInv, NEW q \in requests, NewRow(q) \/ AppendFails(q)
    PROVE  ListInv'
    <1> USE DEF ListInv
    <1>1. /\ Sound(q, posted) /\ q.kind = "POST" /\ q.seen[q.email] = 0
        BY DEF RequestsInv, Sound, NewRow, AppendFails
    <1>2. q.pc # "refused"
        BY DEF NewRow, Looked, AppendFails
    <1>3. PICK pc \in {"append", "fallback"} : Becomes(q, [q EXCEPT !.pc = pc])
        BY DEF NewRow, AppendFails
    <1>4. Sound([q EXCEPT !.pc = pc], posted)
        BY <1>1, <1>2 DEF Sound, Requests
    <1>5. UNCHANGED <<page, file, faults, deaths, posted, promised, tears>>
        BY DEF NewRow, AppendFails, history
    <1>6. RequestsInv'
        BY <1>3, <1>4, <1>5, Moved
    <1> QED  BY <1>5, <1>6, FilesFrame, ServeFrame DEF BoundsInv

\* The row is appended to one of the stores, or to neither.
LEMMA JoinStep ==
    ASSUME ListInv, NEW q \in requests, AppendRow(q) \/ AppendFallback(q) \/ FallbackFails(q)
    PROVE  ListInv'
    <1> USE DEF ListInv
    <1>1. Sound(q, posted) /\ q.pc \in {"append", "fallback"}
        BY DEF RequestsInv, AppendRow, AppendFallback, FallbackFails
    <1>2. q.email \in posted /\ q.email \in Emails
        BY <1>1 DEF Sound, BoundsInv
    <1>3. UNCHANGED <<page, faults, deaths, posted, tears>>
        BY DEF AppendRow, AppendFallback, FallbackFails, history
    <1>4. RequestsInv'
        <2>1. Finishes(q, Joined(q))
            BY DEF AppendRow, AppendFallback, FallbackFails
        <2> QED  BY <1>1, <1>3, <2>1, JoinedSound, Moved
    <1>5. FilesInv'
        <2>1. \A s \in Stores : /\ Appended(file[s], q.email) \in Files
                                /\ Of(Appended(file[s], q.email).lines, posted)
            BY <1>2, AppendedOf DEF FilesInv
        <2>2. \/ \E s \in Stores : file' = [file EXCEPT ![s] = Appended(file[s], q.email)]
              \/ file' = file
            BY DEF AppendRow, AppendFallback, FallbackFails, Append, Stores
        <2> QED  BY <1>3, <2>1, <2>2 DEF FilesInv
    <1>6. promised' \subseteq posted
        BY <1>2 DEF AppendRow, AppendFallback, FallbackFails, history, BoundsInv
    <1>7. faults' \in 0 .. MaxFaults
        BY <1>3 DEF BoundsInv
    <1> QED  BY <1>3, <1>4, <1>5, <1>6, <1>7, ServeFrame

\* What an append leaves in the file that the server dies in.
LEMMA BrokenOf ==
    ASSUME FilesInv, RequestsInv, BoundsInv, NEW q \in requests, NEW left \in Broken(q)
    PROVE  /\ left \in [Stores -> Files]
           /\ \A s \in Stores : Of(left[s].lines, posted)
    <1>1. q.pc \in {"append", "fallback"}
        BY DEF Broken
    <1>2. q.email \in posted /\ q.email \in Emails
        BY <1>1 DEF RequestsInv, Sound, BoundsInv
    <1> DEFINE s == IF q.pc = "append" THEN "primary" ELSE "fallback"
    <1>3. s \in Stores
        BY DEF Stores
    <1>4. \/ left = [file EXCEPT ![s] = Appended(@, q.email)]
          \/ left = [file EXCEPT ![s].corrupt = TRUE, ![s].torn = TRUE]
        BY <1>1 DEF Broken
    <1> HIDE DEF s
    <1>5. CASE left = [file EXCEPT ![s] = Appended(@, q.email)]
        <2>1. Appended(file[s], q.email) \in Files /\ Of(Appended(file[s], q.email).lines, posted)
            BY <1>2, <1>3, AppendedOf DEF FilesInv
        <2> QED  BY <1>3, <1>5, <2>1 DEF FilesInv
    <1>6. CASE left = [file EXCEPT ![s].corrupt = TRUE, ![s].torn = TRUE]
        BY <1>3, <1>6 DEF FilesInv, Files
    <1> QED  BY <1>4, <1>5, <1>6

LEMMA DiesStep ==
    ASSUME WaitlistAssumption, ListInv, ServerDies
    PROVE  ListInv'
    <1> USE DEF ListInv
    <1>1. PICK left \in {file} \cup UNION {Broken(q) : q \in requests} :
            /\ \E tmp \in {left["fallback"], Empty} : file' = [left EXCEPT !["fallback"] = tmp]
            /\ tears' = tears + (IF left["primary"].torn /\ ~file["primary"].torn THEN 1 ELSE 0)
        BY DEF ServerDies
    <1>2. /\ left \in [Stores -> Files]
          /\ \A s \in Stores : Of(left[s].lines, posted)
        BY BrokenOf DEF FilesInv
    <1>3. posted' = posted /\ promised' = promised /\ faults' = faults
        BY DEF ServerDies
    <1>4. FilesInv'
        <2>1. Empty \in Files /\ Of(Empty.lines, posted)
            BY NoRowsOf DEF Empty, Files
        <2> QED  BY <1>1, <1>2, <1>3, <2>1 DEF FilesInv, Stores
    <1>5. RequestsInv'
        BY DEF ServerDies, RequestsInv
    <1>6. PagesInv'
        <2>1. \A b \in Browsers : /\ Failed(page[b], "POST") \in Pages
                                  /\ Failed(page[b], "POST").count = page[b].count
            BY DEF PagesInv, Pages, Failed
        <2>2. \A b \in Browsers : page'[b] \in Pages /\ page'[b].count = page[b].count
            BY <2>1 DEF ServerDies, PagesInv
        <2>3. page' \in [Browsers -> Pages]
            BY <2>2 DEF ServerDies
        <2> QED  BY <1>3, <2>2, <2>3 DEF PagesInv, CountIsReal
    <1>7. BoundsInv'
        BY <1>1, <1>3 DEF ServerDies, BoundsInv, WaitlistAssumption
    <1> QED  BY <1>4, <1>5, <1>6, <1>7

LEMMA ListStep ==
    ASSUME WaitlistAssumption, ListInv, [Next]_vars
    PROVE  ListInv'
    <1>1. ASSUME NEW b \in Browsers, NEW f \in Forms, Submit(b, f) PROVE ListInv'
        BY <1>1, SubmitStep
    <1>2. ASSUME NEW b \in Browsers, Reload(b) PROVE ListInv'
        BY <1>2, ReloadStep
    <1>3. ASSUME NEW q \in requests, Serve(q) PROVE ListInv'
        BY <1>3, ReadStep, AnswerStep, TurnStep, JoinStep, DeliverStep DEF Serve
    <1>4. ASSUME NEW q \in requests, Lose(q) PROVE ListInv'
        BY <1>4, LoseStep
    <1>5. ASSUME NEW q \in requests, NEW s \in Stores, ReadFails(q, s) PROVE ListInv'
        BY <1>5, ReadStep
    <1>6. CASE ServerDies
        BY <1>6, DiesStep
    <1>7. CASE UNCHANGED vars
        BY <1>7 DEF vars, history, ListInv, PagesInv, RequestsInv, FilesInv, BoundsInv, CountIsReal
    <1> QED  BY <1>1, <1>2, <1>3, <1>4, <1>5, <1>6, <1>7 DEF Next

LEMMA ListAlways == Spec => []ListInv
    BY ListInitially, ListStep, WaitlistAssumption, PTL DEF Spec

----------------------------------------------------------------------------
(* The durable store.                                                      *)

Torn == IF file["primary"].torn THEN 1 ELSE 0
LostRows == Cardinality(Lost)

LEMMA DurableIsLost ==
    /\ PersistedIsDurable <=> LostRows + Torn <= tears
    /\ PersistedIsDurable' <=> LostRows' + Torn' <= tears'
    BY Zenon DEF PersistedIsDurable, Lost, LostRows, Torn

LEMMA LostIsFinite ==
    ASSUME BoundsInv, BoundsInv'
    PROVE  /\ IsFiniteSet(Lost) /\ LostRows \in Nat
           /\ IsFiniteSet(Lost') /\ LostRows' \in Nat
    <1>1. Lost \subseteq posted /\ Lost' \subseteq posted'
        BY DEF Lost, BoundsInv
    <1>2. IsFiniteSet(posted) /\ IsFiniteSet(posted')
        BY DEF BoundsInv
    <1>3. IsFiniteSet(Lost) /\ IsFiniteSet(Lost')
        BY <1>1, <1>2, FS_Subset
    <1> QED  BY <1>3, FS_CardinalityType DEF LostRows

\* A row of the primary store stays there: nothing is lost but what was not in it.
LEMMA NothingLost ==
    ASSUME ListInv, ListInv', PersistedIsDurable, promised' = promised, tears' \in Nat,
           \A e \in Emails : file'["primary"].lines[e] >= file["primary"].lines[e],
           Torn' - Torn <= tears' - tears
    PROVE  PersistedIsDurable'
    <1>1. Lost' \subseteq Lost
        BY DEF ListInv, FilesInv, Files, Rows, BoundsInv, Stores, Lost
    <1>2. IsFiniteSet(Lost) /\ LostRows \in Nat /\ LostRows' \in Nat
        BY LostIsFinite DEF ListInv
    <1>3. LostRows' <= LostRows
        BY <1>1, <1>2, FS_Subset DEF LostRows
    <1>4. LostRows + Torn <= tears
        BY DurableIsLost
    <1>5. Torn \in Nat /\ Torn' \in Nat /\ tears \in Nat
        BY DEF Torn, ListInv, BoundsInv
    <1>6. LostRows' + Torn' <= tears'
        <2>1. PICK m \in Nat : m = LostRows'
            BY <1>2
        <2>2. PICK u \in Nat : u = Torn'
            BY <1>5
        <2>3. PICK d \in Nat : d = tears'
            OBVIOUS
        <2>4. m <= LostRows /\ u - Torn <= d - tears
            BY <1>3, <2>1, <2>2, <2>3
        <2>5. m + u <= d
            BY <1>2, <1>4, <1>5, <2>4
        <2> QED  BY <2>1, <2>2, <2>3, <2>5
    <1> QED  BY <1>6, DurableIsLost

\* An append leaves the rows there were.
LEMMA AppendedGrows ==
    ASSUME NEW f \in Files, NEW a \in Emails
    PROVE  /\ Appended(f, a).torn = FALSE
           /\ \A e \in Emails : Appended(f, a).lines[e] >= f.lines[e]
           /\ ~f.torn => Appended(f, a).lines[a] > 0
    <1> DEFINE more == [f.lines EXCEPT ![a] = @ + 1]
    <1>1. \A e \in Emails : f.lines[e] \in Nat /\ more[e] >= f.lines[e]
        BY DEF Files, Rows
    <1>2. more[a] > 0
        BY DEF Files, Rows
    <1>3. Appended(f, a) = IF f.torn THEN [f EXCEPT !.torn = FALSE] ELSE [f EXCEPT !.lines = more]
        BY DEF Appended
    <1> HIDE DEF more
    <1> QED  BY <1>1, <1>2, <1>3 DEF Files

\* The row appended to the primary store is there, or is the one the line without its end took.
LEMMA AppendIsDurable ==
    ASSUME ListInv, ListInv', PersistedIsDurable, NEW q \in requests, AppendRow(q)
    PROVE  PersistedIsDurable'
    <1> DEFINE a == q.email
               f == file["primary"]
    <1>1. f \in Files /\ a \in Emails
        BY DEF ListInv, FilesInv, RequestsInv, BoundsInv, Sound, AppendRow, Stores
    <1>2. file'["primary"] = Appended(f, a) /\ promised' = promised \cup {a} /\ tears' = tears
        BY DEF AppendRow, Append, ListInv, FilesInv, Stores
    <1>3. /\ \A e \in Emails : file'["primary"].lines[e] >= f.lines[e]
          /\ file'["primary"].torn = FALSE
          /\ ~f.torn => file'["primary"].lines[a] > 0
        BY <1>1, <1>2, AppendedGrows
    <1>4. \A e \in Emails : f.lines[e] \in Nat /\ file'["primary"].lines[e] \in Nat
        BY DEF ListInv, FilesInv, Files, Rows, Stores
    <1>5. promised \subseteq Emails
        BY DEF ListInv, BoundsInv
    <1>6. Lost' \subseteq Lost \cup {a} /\ (~f.torn => Lost' \subseteq Lost)
        BY <1>2, <1>3, <1>4, <1>5 DEF Lost
    <1>7. IsFiniteSet(Lost) /\ LostRows \in Nat /\ LostRows' \in Nat
        BY LostIsFinite DEF ListInv
    <1>8. /\ IsFiniteSet(Lost \cup {a})
          /\ Cardinality(Lost \cup {a}) \in Nat
          /\ Cardinality(Lost \cup {a}) <= LostRows + 1
        <2>1. /\ IsFiniteSet(Lost \cup {a})
              /\ \/ Cardinality(Lost \cup {a}) = Cardinality(Lost)
                 \/ Cardinality(Lost \cup {a}) = Cardinality(Lost) + 1
            BY <1>7, FS_AddElement
        <2> QED  BY <1>7, <2>1 DEF LostRows
    <1>9. LostRows' <= Cardinality(Lost \cup {a}) /\ (~f.torn => LostRows' <= LostRows)
        BY <1>6, <1>7, <1>8, FS_Subset DEF LostRows
    <1>10. LostRows' <= LostRows + Torn
        <2>1. CASE f.torn
            BY <1>7, <1>8, <1>9, <2>1 DEF Torn
        <2>2. CASE ~f.torn
            BY <1>7, <1>9, <2>2 DEF Torn
        <2> QED  BY <2>1, <2>2
    <1>11. Torn \in Nat /\ Torn' = 0 /\ tears \in Nat
        BY <1>3 DEF Torn, ListInv, BoundsInv
    <1>12. LostRows + Torn <= tears
        BY DurableIsLost
    <1>13. LostRows' + Torn' <= tears'
        <2>1. PICK m \in Nat : m = LostRows'
            BY <1>7
        <2>2. PICK u \in Nat : u = Torn'
            BY <1>11
        <2>3. PICK d \in Nat : d = tears'
            BY <1>2, <1>11
        <2>4. m <= LostRows + Torn /\ u = 0 /\ d = tears
            BY <1>2, <1>10, <1>11, <2>1, <2>2, <2>3
        <2>5. m + u <= d
            BY <1>7, <1>11, <1>12, <2>4
        <2> QED  BY <2>1, <2>2, <2>3, <2>5
    <1> QED  BY <1>13, DurableIsLost

LEMMA DeathIsDurable ==
    ASSUME ListInv, ListInv', PersistedIsDurable, ServerDies
    PROVE  PersistedIsDurable'
    <1>1. PICK left \in {file} \cup UNION {Broken(q) : q \in requests} :
            /\ \E tmp \in {left["fallback"], Empty} : file' = [left EXCEPT !["fallback"] = tmp]
            /\ tears' = tears + (IF left["primary"].torn /\ ~file["primary"].torn THEN 1 ELSE 0)
        BY DEF ServerDies
    <1>2. left \in [Stores -> Files] /\ file \in [Stores -> Files]
        BY BrokenOf DEF ListInv, FilesInv
    <1>3. file'["primary"] = left["primary"]
        BY <1>1, <1>2 DEF Stores
    <1>4. \A e \in Emails : left["primary"].lines[e] >= file["primary"].lines[e]
        <2>1. \A f \in Files, e \in Emails : f.lines[e] \in Nat
            BY DEF Files, Rows
        <2>2. CASE left = file
            BY <1>2, <2>1, <2>2 DEF Stores
        <2>3. ASSUME NEW q \in requests, left \in Broken(q)
              PROVE  \A e \in Emails : left["primary"].lines[e] >= file["primary"].lines[e]
            <3>1. q.email \in Emails
                BY <2>3 DEF Broken, ListInv, RequestsInv, BoundsInv, Sound
            <3> DEFINE s == IF q.pc = "append" THEN "primary" ELSE "fallback"
            <3>2. \/ left = [file EXCEPT ![s] = Appended(@, q.email)]
                  \/ left = [file EXCEPT ![s].corrupt = TRUE, ![s].torn = TRUE]
                BY <2>3 DEF Broken
            <3>3. s \in Stores /\ "primary" \in Stores
                BY DEF Stores
            <3> HIDE DEF s
            <3>4. \/ left["primary"] = Appended(file["primary"], q.email)
                  \/ left["primary"].lines = file["primary"].lines
                BY <1>2, <3>2, <3>3 DEF Files
            <3>5. file["primary"] \in Files
                BY <1>2, <3>3
            <3>6. CASE left["primary"] = Appended(file["primary"], q.email)
                BY <3>1, <3>5, <3>6, AppendedGrows
            <3>7. CASE left["primary"].lines = file["primary"].lines
                BY <2>1, <3>5, <3>7
            <3> QED  BY <3>4, <3>6, <3>7
        <2> QED  BY <1>1, <2>2, <2>3
    <1>5. Torn' - Torn <= tears' - tears
        <2>1. tears \in Nat
            BY DEF ListInv, BoundsInv
        <2> QED  BY <1>1, <1>2, <1>3, <2>1 DEF Torn
    <1>6. promised' = promised /\ tears' \in Nat
        BY DEF ServerDies, ListInv, BoundsInv
    <1> QED  BY <1>3, <1>4, <1>5, <1>6, NothingLost

\* Every other step leaves the primary store as it is.
LEMMA SameStore ==
    ASSUME ListInv, ListInv', PersistedIsDurable, promised' = promised, tears' = tears,
           file'["primary"] = file["primary"]
    PROVE  PersistedIsDurable'
    <1>1. \A e \in Emails : file["primary"].lines[e] \in Nat
        BY DEF ListInv, FilesInv, Files, Rows, Stores
    <1>2. Torn' = Torn /\ Torn \in Int /\ tears' \in Nat
        BY DEF Torn, ListInv, BoundsInv
    <1> QED  BY <1>1, <1>2, NothingLost DEF ListInv, BoundsInv

LEMMA DurableStep ==
    ASSUME ListInv, ListInv', PersistedIsDurable, [Next]_vars
    PROVE  PersistedIsDurable'
    <1> USE DEF history
    <1>1. ASSUME NEW b \in Browsers, NEW f \in Forms, Submit(b, f) PROVE PersistedIsDurable'
        BY <1>1, SameStore DEF Submit
    <1>2. ASSUME NEW b \in Browsers, Reload(b) PROVE PersistedIsDurable'
        BY <1>2, SameStore DEF Reload
    <1>3. ASSUME NEW q \in requests, Serve(q) PROVE PersistedIsDurable'
        <2>1. CASE AppendRow(q)
            BY <2>1, AppendIsDurable
        <2>2. CASE AppendFallback(q)
            BY <2>2, SameStore DEF AppendFallback, Append, ListInv, FilesInv, Stores
        <2>3. CASE \E s \in Stores : ReadFileRows(q, s)
            BY <2>3, SameStore DEF ReadFileRows
        <2>4. CASE AnswerCount(q) \/ AnswerDuplicate(q) \/ NewRow(q)
            BY <2>4, SameStore DEF AnswerCount, AnswerDuplicate, NewRow
        <2>5. CASE AppendFails(q) \/ FallbackFails(q) \/ Deliver(q)
            BY <2>5, SameStore DEF AppendFails, FallbackFails, Deliver
        <2> QED  BY <1>3, <2>1, <2>2, <2>3, <2>4, <2>5 DEF Serve
    <1>4. ASSUME NEW q \in requests, Lose(q) PROVE PersistedIsDurable'
        BY <1>4, SameStore DEF Lose
    <1>5. ASSUME NEW q \in requests, NEW s \in Stores, ReadFails(q, s) PROVE PersistedIsDurable'
        BY <1>5, SameStore DEF ReadFails
    <1>6. CASE ServerDies
        BY <1>6, DeathIsDurable
    <1>7. CASE UNCHANGED vars
        BY <1>7, SameStore DEF vars
    <1> QED  BY <1>1, <1>2, <1>3, <1>4, <1>5, <1>6, <1>7 DEF Next

----------------------------------------------------------------------------
(* The theorems.                                                           *)

LapsedInv == lapsed \subseteq Emails

LEMMA LapsedStep ==
    ASSUME ListInv, LapsedInv, [Next]_vars
    PROVE  LapsedInv'
    <1> USE DEF LapsedInv
    <1>1. ASSUME NEW es \in SUBSET Emails, Lapse(es) PROVE lapsed' \subseteq Emails
        BY <1>1 DEF Lapse
    <1>2. ASSUME NEW q \in requests, AppendRow(q) \/ AppendFallback(q) \/ FallbackFails(q)
          PROVE  lapsed' \subseteq Emails
        <2>1. q.email \in Emails
            BY <1>2 DEF ListInv, RequestsInv, BoundsInv, Sound, AppendRow, AppendFallback,
                        FallbackFails
        <2>2. PICK es \in SUBSET Emails : Lapse(es)
            BY <1>2, <2>1 DEF AppendRow, AppendFallback, FallbackFails, Append
        <2> QED  BY <1>1, <2>2
    <1>3. CASE ServerDies
        <2>1. PICK es \in SUBSET Emails : Lapse(es)
            BY <1>3 DEF ServerDies
        <2> QED  BY <1>1, <2>1
    <1>4. ASSUME lapsed' = lapsed PROVE lapsed' \subseteq Emails
        BY <1>4
    <1>5. ASSUME NEW q \in requests, Serve(q) PROVE lapsed' \subseteq Emails
        <2>1. CASE AppendRow(q) \/ AppendFallback(q) \/ FallbackFails(q)
            BY <1>2, <2>1
        <2>2. CASE ~(AppendRow(q) \/ AppendFallback(q) \/ FallbackFails(q))
            BY <1>4, <1>5, <2>2 DEF Serve, ReadFileRows, AnswerCount, AnswerDuplicate, NewRow,
                   AppendFails, Deliver, history
        <2> QED  BY <2>1, <2>2
    <1>6. CASE UNCHANGED vars
        BY <1>4, <1>6 DEF vars, history
    <1>7. ASSUME NEW b \in Browsers, NEW f \in Forms, Submit(b, f)
          PROVE  lapsed' \subseteq Emails
        BY <1>4, <1>7 DEF Submit, history
    <1>8. ASSUME NEW b \in Browsers, Reload(b) PROVE lapsed' \subseteq Emails
        BY <1>4, <1>8 DEF Reload, history
    <1>9. ASSUME NEW q \in requests, Lose(q) \/ \E s \in Stores : ReadFails(q, s)
          PROVE  lapsed' \subseteq Emails
        BY <1>4, <1>9 DEF Lose, ReadFails, history
    <1> QED  BY <1>3, <1>5, <1>6, <1>7, <1>8, <1>9 DEF Next

\* Every variable of the list has its type, whatever the requests do at once.
THEOREM TypeCorrect == Spec => []TypeOK
    <1>1. ListInv /\ LapsedInv => TypeOK
        BY Zenon DEF ListInv, LapsedInv, PagesInv, RequestsInv, FilesInv, BoundsInv, Sound, Pages,
                     Requests, Files, Rows, TypeOK
    <1>2. Init => LapsedInv
        BY DEF Init, LapsedInv
    <1> QED  BY <1>1, <1>2, ListAlways, LapsedStep, PTL DEF Spec

\* A count on a page never exceeds the number of addresses posted (readRows keeps one row
\* per address, the answer to a new one adds one): however many requests with one address
\* append it twice, whatever reads fail, browsers reload and servers die.
THEOREM CountStaysReal == Spec => []CountIsReal
    <1>1. ListInv => CountIsReal
        BY DEF ListInv, PagesInv
    <1> QED  BY <1>1, ListAlways, PTL

\* An address that the route answered with persisted is in the primary store for good, but
\* for at most one for each line that a dying server left without its end there.
THEOREM PersistedStaysDurable == Spec => []PersistedIsDurable
    <1>1. WaitlistAssumption /\ Init => PersistedIsDurable
        <2> SUFFICES ASSUME WaitlistAssumption, Init PROVE PersistedIsDurable
            OBVIOUS
        <2>1. Lost = {} /\ Torn = 0 /\ tears = 0
            BY DEF Init, Lost, Torn, Empty, Stores
        <2>2. LostRows = 0
            BY <2>1, FS_EmptySet DEF LostRows
        <2> QED  BY <2>1, <2>2, DurableIsLost
    <1> QED  BY <1>1, ListAlways, DurableStep, WaitlistAssumption, PTL DEF Spec
=============================================================================
