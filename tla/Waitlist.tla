------------------------------ MODULE Waitlist ------------------------------
(***************************************************************************)
(* The waitlist: POST and GET /api/waitlist (app/src/app/api/waitlist/     *)
(* route.ts) over two append-only files, and the form that asks them       *)
(* (app/src/app/(ui)/components/WaitlistHook.tsx).                         *)
(*                                                                         *)
(* Every await of a handler is a step: requests read the two files and     *)
(* append to them in any order.  A server that dies in an append can leave *)
(* a line without its end, and what is appended next becomes part of it.   *)
(* Left out of a row: everything but the address.                          *)
(***************************************************************************)
EXTENDS Integers, FiniteSets, FiniteSetsExt

CONSTANTS
    Browsers,
    Forms,
    Typed,          \* Typed[b]: the forms the visitor at b types
    Emails,
    Invalid,        \* the address of a form the route refuses
    Normal,         \* Normal[f]: the address of form f, trimmed and in lower case
    MaxFaults,      \* bound: reads that fail, connections that break, reloads
    MaxDeaths       \* bound: deaths of the server

Stores == {"primary", "fallback"}

ASSUME WaitlistAssumption ==
    /\ Invalid \notin Emails
    /\ Normal \in [Forms -> Emails \cup {Invalid}]
    /\ Typed \in [Browsers -> SUBSET Forms]
    /\ MaxFaults \in Nat
    /\ MaxDeaths \in Nat

VARIABLES
    page,       \* page[b]: what the hook of browser b shows
    requests,   \* the requests under way
    file,       \* file[s]: the lines of a store
    faults, deaths,
    posted,     \* history: the addresses posted
    promised,   \* history: those answered with persisted and not as duplicates
    tears,      \* history: lines of the primary store left without their end
    lapsed      \* history: addresses without a row, after one was not written or was lost

history == <<posted, promised, tears, lapsed>>
vars == <<page, requests, file, faults, deaths, history>>

Unknown == -1
NoRows == [e \in Emails |-> 0]
Empty == [lines |-> NoRows, corrupt |-> FALSE, torn |-> FALSE]
Fresh == [count |-> Unknown, status |-> "idle", duplicate |-> FALSE]

\* live: a browser waits for the answer.  born tells the others apart.
Request(kind, b, email) ==
    [kind |-> kind, from |-> b, live |-> TRUE, born |-> 0, email |-> email, pc |-> "read",
     pending |-> Stores, seen |-> NoRows, count |-> 0, duplicate |-> FALSE]

Becomes(q, r) == requests' = (requests \ {q}) \cup {r}

\* The answer; without a browser that waits for it, it goes nowhere.
Finishes(q, r) == IF q.live THEN Becomes(q, r) ELSE requests' = requests \ {q}

Fault == faults < MaxFaults /\ faults' = faults + 1

----------------------------------------------------------------------------
(* The browser.                                                            *)

\* Plausible bug: the route takes any string.
SubmitAnything(b, f) ==
    /\ f \in Typed[b]
    /\ page[b].status \in {"idle", "error"}
    /\ page' = [page EXCEPT ![b].status = "submitting"]
    /\ requests' = requests \cup {Request("POST", b, Normal[f])}
    /\ posted' = posted \cup {Normal[f]}
    /\ UNCHANGED <<file, faults, deaths, promised, tears, lapsed>>

\* The button, and what POST does before it reads: a form it refuses goes no further.
Submit(b, f) ==
    /\ f \in Typed[b]
    /\ page[b].status \in {"idle", "error"}
    /\ page' = [page EXCEPT ![b].status = "submitting"]
    /\ LET q == Request("POST", b, Normal[f])
       IN  requests' = requests \cup {IF Normal[f] = Invalid THEN [q EXCEPT !.pc = "refused"]
                                      ELSE q}
    /\ posted' = posted \cup ({Normal[f]} \ {Invalid})
    /\ UNCHANGED <<file, faults, deaths, promised, tears, lapsed>>

Deliver(q) ==
    /\ q.live
    /\ q.pc \in {"answered", "refused"}
    /\ requests' = requests \ {q}
    /\ page' = [page EXCEPT ![q.from] =
            IF q.kind = "GET" THEN [@ EXCEPT !.count = q.count]
            ELSE IF q.pc = "refused" THEN [@ EXCEPT !.status = "error"]
            ELSE [count |-> q.count, status |-> "done", duplicate |-> q.duplicate]]
    /\ UNCHANGED <<file, faults, deaths, history>>

\* What a browser shows of a request that failed; the count of a first GET stays unknown.
Failed(p, kind) == IF kind = "GET" THEN [p EXCEPT !.count = Unknown]
                   ELSE [p EXCEPT !.status = "error"]

\* The requests without their browsers: a POST that has arrived goes on.
Orphaned(qs) == {[q EXCEPT !.live = FALSE, !.born = faults + 1] :
                    q \in {p \in qs : p.kind = "POST" /\ p.pc \in {"read", "append", "fallback"}}}

\* The connection breaks, also before the request has arrived.
Lose(q) ==
    /\ q.live
    /\ Fault
    /\ \/ requests' = (requests \ {q}) \cup Orphaned({q})
       \/ q.pending = Stores /\ requests' = requests \ {q}
    /\ page' = [page EXCEPT ![q.from] = Failed(@, q.kind)]
    /\ UNCHANGED <<file, deaths, history>>

Reload(b) ==
    /\ Fault
    /\ page' = [page EXCEPT ![b] = Fresh]
    /\ LET left == {q \in requests : q.live /\ q.from = b}
       IN  requests' = (requests \ left) \cup Orphaned(left) \cup {Request("GET", b, Invalid)}
    /\ UNCHANGED <<file, deaths, history>>

----------------------------------------------------------------------------
(* The route.                                                              *)

Reading(q, s) == q.pc = "read" /\ s \in q.pending

Took(q, s, rows) == [q EXCEPT !.pending = @ \ {s},
                              !.seen = [e \in Emails |-> @[e] + rows[e]]]

\* Plausible bug: one line that does not parse fails the request.
ReadFileRowsStrictly(q, s) ==
    /\ Reading(q, s)
    /\ IF file[s].corrupt THEN Finishes(q, [q EXCEPT !.pc = "refused"])
       ELSE Becomes(q, Took(q, s, file[s].lines))
    /\ UNCHANGED <<page, file, faults, deaths, history>>

\* The lines that parse; a store that is not there has none.
ReadFileRows(q, s) ==
    /\ Reading(q, s)
    /\ Becomes(q, Took(q, s, file[s].lines))
    /\ UNCHANGED <<page, file, faults, deaths, history>>

\* A store that cannot be read has no rows either.
ReadFails(q, s) ==
    /\ Reading(q, s)
    /\ Fault
    /\ Becomes(q, Took(q, s, NoRows))
    /\ UNCHANGED <<page, file, deaths, history>>

\* Plausible bug: every line counts.
CountLines(rows) == MapThenSumSet(LAMBDA e : rows[e], Emails)

\* readRows keeps one row per address.
CountRows(rows) == Cardinality({e \in Emails : rows[e] > 0})

Answered(q, count, duplicate) ==
    [q EXCEPT !.pc = "answered", !.seen = NoRows, !.count = count, !.duplicate = duplicate]

Looked(q) == q.pc = "read" /\ q.pending = {}

AnswerCount(q) ==
    /\ Looked(q)
    /\ q.kind = "GET"
    /\ Finishes(q, Answered(q, CountRows(q.seen), FALSE))
    /\ UNCHANGED <<page, file, faults, deaths, history>>

\* Persisted, it says, whichever store the row is in.
AnswerDuplicate(q) ==
    /\ Looked(q)
    /\ q.kind = "POST"
    /\ q.seen[q.email] > 0
    /\ Finishes(q, Answered(q, CountRows(q.seen), TRUE))
    /\ UNCHANGED <<page, file, faults, deaths, history>>

NewRow(q) ==
    /\ Looked(q)
    /\ q.kind = "POST"
    /\ q.seen[q.email] = 0
    /\ Becomes(q, [q EXCEPT !.pc = "append"])
    /\ UNCHANGED <<page, file, faults, deaths, history>>

OnTheList(e) == \E s \in Stores : file[s].lines[e] > 0
Lapse(es) == lapsed' = {e \in lapsed \cup es : ~OnTheList(e)'}

\* The file after an append: what follows an unfinished line is lost with it.
Appended(f, e) == IF f.torn THEN [f EXCEPT !.torn = FALSE]
                  ELSE [f EXCEPT !.lines[e] = @ + 1]
Append(s, e) ==
    /\ file' = [file EXCEPT ![s] = Appended(@, e)]
    /\ Lapse(IF file[s].torn THEN {e} ELSE {})

Joined(q) == Answered(q, CountRows(q.seen) + 1, FALSE)

AppendRow(q) ==
    /\ q.pc = "append"
    /\ Append("primary", q.email)
    /\ promised' = promised \cup {q.email}
    /\ Finishes(q, Joined(q))
    /\ UNCHANGED <<page, faults, deaths, posted, tears>>

\* The host may be read-only.
AppendFails(q) ==
    /\ q.pc = "append"
    /\ Becomes(q, [q EXCEPT !.pc = "fallback"])
    /\ UNCHANGED <<page, file, faults, deaths, history>>

\* Plausible bug: a row in /tmp counts as persisted.
AppendFallbackAsPersisted(q) ==
    /\ q.pc = "fallback"
    /\ Append("fallback", q.email)
    /\ promised' = promised \cup {q.email}
    /\ Finishes(q, Joined(q))
    /\ UNCHANGED <<page, faults, deaths, posted, tears>>

AppendFallback(q) ==
    /\ q.pc = "fallback"
    /\ Append("fallback", q.email)
    /\ Finishes(q, Joined(q))
    /\ UNCHANGED <<page, faults, deaths, posted, promised, tears>>

\* The signup is recorded nowhere, and answered all the same.
FallbackFails(q) ==
    /\ q.pc = "fallback"
    /\ UNCHANGED file
    /\ Lapse({q.email})
    /\ Finishes(q, Joined(q))
    /\ UNCHANGED <<page, faults, deaths, posted, promised, tears>>

\* What an append leaves that the server dies in, unless nothing: the row, or part of it.
Broken(q) ==
    IF q.pc \notin {"append", "fallback"} THEN {}
    ELSE LET s == IF q.pc = "append" THEN "primary" ELSE "fallback"
         IN  {[file EXCEPT ![s] = Appended(@, q.email)],
              [file EXCEPT ![s].corrupt = TRUE, ![s].torn = TRUE]}

\* The server dies with the requests it had.  Another instance has another /tmp.
ServerDies ==
    /\ deaths < MaxDeaths
    /\ deaths' = deaths + 1
    /\ requests' = {}
    /\ page' = [b \in Browsers |->
            IF \E q \in requests : q.live /\ q.from = b /\ q.kind = "POST"
            THEN Failed(page[b], "POST") ELSE page[b]]
    /\ \E left \in {file} \cup UNION {Broken(q) : q \in requests} :
        /\ \E tmp \in {left["fallback"], Empty} :
            /\ file' = [left EXCEPT !["fallback"] = tmp]
            /\ Lapse({e \in Emails : tmp.lines[e] < left["fallback"].lines[e]})
        /\ tears' = tears + (IF left["primary"].torn /\ ~file["primary"].torn THEN 1 ELSE 0)
    /\ UNCHANGED <<faults, posted, promised>>

----------------------------------------------------------------------------
\* The pages have mounted and show the count of the empty list.
Init ==
    /\ page = [b \in Browsers |-> [Fresh EXCEPT !.count = 0]]
    /\ requests = {}
    /\ file = [s \in Stores |-> Empty]
    /\ faults = 0
    /\ deaths = 0
    /\ posted = {}
    /\ promised = {}
    /\ tears = 0
    /\ lapsed = {}

\* What happens by itself.
Serve(q) ==
    \/ \E s \in Stores : ReadFileRows(q, s)
    \/ AnswerCount(q)
    \/ AnswerDuplicate(q)
    \/ NewRow(q)
    \/ AppendRow(q)
    \/ AppendFails(q)
    \/ AppendFallback(q)
    \/ FallbackFails(q)
    \/ Deliver(q)

Next ==
    \/ \E b \in Browsers, f \in Forms : Submit(b, f)
    \/ \E b \in Browsers : Reload(b)
    \/ \E q \in requests : Serve(q) \/ Lose(q) \/ \E s \in Stores : ReadFails(q, s)
    \/ ServerDies

\* Requests are served, and a visitor who has not joined tries again with a valid address.
Fairness ==
    /\ WF_requests(\E q \in requests : Serve(q))
    /\ \A b \in Browsers : SF_page(\E f \in Typed[b] : Normal[f] # Invalid /\ Submit(b, f))

Spec == Init /\ [][Next]_vars
FairSpec == Spec /\ Fairness

----------------------------------------------------------------------------
(* Properties.                                                             *)

Counts == Nat \cup {Unknown}

\* Every variable has its type.
TypeOK ==
    /\ page \in [Browsers -> [count : Counts, duplicate : BOOLEAN,
                              status : {"idle", "submitting", "done", "error"}]]
    /\ \A q \in requests :
        q \in [kind : {"GET", "POST"}, from : Browsers, live : BOOLEAN, born : 0 .. MaxFaults,
               email : Emails \cup {Invalid}, duplicate : BOOLEAN, pending : SUBSET Stores,
               pc : {"read", "append", "fallback", "answered", "refused"},
               seen : [Emails -> Nat], count : Nat]
    /\ file \in [Stores -> [lines : [Emails -> Nat], corrupt : BOOLEAN, torn : BOOLEAN]]
    /\ faults \in 0 .. MaxFaults
    /\ deaths \in 0 .. MaxDeaths
    /\ posted \subseteq Emails
    /\ promised \subseteq Emails
    /\ tears \in Nat
    /\ lapsed \subseteq Emails

\* "No vanity count", "a repeat email never double-counts": a count on a page never exceeds
\* the number of addresses posted, also when two requests with one address append it twice.
CountIsReal == \A b \in Browsers : page[b].count <= Cardinality(posted)

\* "Whether the write landed in a DURABLE store": an address answered as persisted is in the
\* primary store for good, but for one lost to each line that a dying server left unfinished.
PersistedIsDurable ==
    Cardinality({e \in promised : file["primary"].lines[e] = 0})
        + (IF file["primary"].torn THEN 1 ELSE 0) <= tears

\* "Skip a corrupt line rather than fail": whatever the files went through, a visitor who
\* keeps trying with a valid address is told in the end that it is done, and the address has
\* a row for good in one of the stores, unless a signup of it was recorded nowhere, fell to
\* an unfinished line or was lost with an instance's /tmp.
JoinsInTheEnd ==
    <>[]\A b \in Browsers :
        /\ page[b].status = "done"
        /\ \E f \in Typed[b] :
            /\ Normal[f] # Invalid
            /\ OnTheList(Normal[f]) \/ Normal[f] \in lapsed
=============================================================================
