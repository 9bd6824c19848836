-------------------------- MODULE Dashboard_proofs --------------------------
(***************************************************************************)
(* What the page may load and show, for any wallets and loans, any number  *)
(* of wallet changes, reads and clicks.                                    *)
(*                                                                         *)
(* Two invariants.  SearchInv: only the search of the wallet connected is  *)
(* live.  ReadsInv: no answer under way says armed of a vault that is not  *)
(* on the chain.                                                           *)
(***************************************************************************)
EXTENDS Dashboard, TLAPS

SearchInv ==
    /\ wallet \in Parties
    /\ \A l \in lookups : l.key \in Wallets /\ (l.live => l.key = wallet)
    /\ WalletLoanNeedsWallet

HonestRead(q) == \A view \in q.views : view.armed => Armed(q.owner, q.loan)

ReadsInv ==
    /\ \A q \in reads : HonestRead(q)
    /\ ShownArmedIsArmed

----------------------------------------------------------------------------
(* The search.                                                             *)

\* The steps that change neither wallet nor search nor position.
LEMMA NotSearching ==
    ASSUME Reading \/ Cards \/ Chain \/ SimulateGap \/ BurstPoll
    PROVE  UNCHANGED <<wallet, lookups, position>>
    BY DEF Reading, Cards, Chain, SimulateGap, BurstPoll, Deliver, ReadFails, Poll, Retry,
           Borrow, Repay, OpenArm, CloseArm, Arm, Begin, SignAndSend, JobFails, Land, Drop,
           KeeperFires, pageVars, searchVars

\* What is left live of the searches when another one starts: nothing.
LEMMA OnlyNewest ==
    ASSUME NEW w \in Wallets, SearchInv, Discover(w)
    PROVE  \A l \in lookups' : l.key \in Wallets /\ (l.live => l.key = w)
    <1>1. \A l \in Cancelled : l.key \in Wallets /\ l.live = FALSE
        BY DEF SearchInv, Cancelled
    <1> QED  BY <1>1 DEF Discover

\* A position loaded by hand is never one of the search.
LEMMA ByHandIsNotWallet ==
    ASSUME LoadDemoPosition \/ \E l \in Loans : PasteObligation(l)
    PROVE  position'.via # "wallet"
    <1>1. CASE LoadDemoPosition
        <2>1. position' = [loan |-> DemoLoan, owner |-> DemoOwner, via |-> "demo"]
            BY <1>1 DEF LoadDemoPosition, LoadByHand, LoadPosition
        <2> QED  BY <2>1
    <1>2. ASSUME NEW l \in Loans, PasteObligation(l) PROVE position'.via # "wallet"
        <2>1. position' = [loan |-> l, owner |-> IF wallet # NoWallet THEN wallet ELSE DemoOwner,
                           via |-> "dev"]
            BY <1>2 DEF PasteObligation, LoadByHand, LoadPosition
        <2> QED  BY <2>1
    <1> QED  BY <1>1, <1>2

LEMMA SearchInitially == Init => SearchInv
    BY DEF Init, SearchInv, WalletLoanNeedsWallet, NoPosition, Parties

LEMMA SearchStep ==
    ASSUME SearchInv, [Next]_vars
    PROVE  SearchInv'
    <1> USE DashboardAssumption
    <1>1. ASSUME UNCHANGED <<wallet, lookups, position>> PROVE SearchInv'
        BY <1>1 DEF SearchInv, WalletLoanNeedsWallet
    <1>2. ASSUME NEW w \in Wallets, Connect(w) PROVE SearchInv'
        <2>1. wallet' = w /\ position' = position /\ Discover(w)
            BY <1>2 DEF Connect, pageVars
        <2> QED  BY <2>1, OnlyNewest DEF SearchInv, WalletLoanNeedsWallet, Parties
    <1>3. CASE Disconnect
        <2>1. \A l \in lookups' : l.key \in Wallets /\ l.live = FALSE
            BY <1>3 DEF Disconnect, SearchInv, Cancelled
        <2>2. position'.via # "wallet"
            BY <1>3 DEF Disconnect, LoadPosition, NoPosition
        <2> QED  BY <1>3, <2>1, <2>2 DEF Disconnect, SearchInv, WalletLoanNeedsWallet, Parties
    <1>4. CASE RetryDiscovery
        <2>1. wallet \in Wallets /\ Discover(wallet) /\ UNCHANGED <<wallet, position>>
            BY <1>4 DEF RetryDiscovery, SearchInv, Parties, pageVars
        <2> QED  BY <2>1, OnlyNewest DEF SearchInv, WalletLoanNeedsWallet
    <1>5. ASSUME NEW l \in lookups, Found(l) PROVE SearchInv'
        <2>1. wallet' = wallet /\ wallet # NoWallet /\ lookups' \subseteq lookups
            BY <1>5 DEF Found, SearchInv
        <2> QED  BY <2>1 DEF SearchInv, WalletLoanNeedsWallet
    <1>6. ASSUME NEW l \in lookups, LookupFails(l) \/ LookupIgnored(l) PROVE SearchInv'
        <2>1. UNCHANGED <<wallet, position>> /\ lookups' \subseteq lookups
            BY <1>6 DEF LookupFails, LookupIgnored, pageVars
        <2> QED  BY <2>1 DEF SearchInv, WalletLoanNeedsWallet
    <1>7. CASE LoadDemoPosition \/ \E l \in Loans : PasteObligation(l)
        <2>1. UNCHANGED <<wallet, lookups>>
            BY <1>7 DEF LoadDemoPosition, PasteObligation, LoadByHand, searchVars
        <2>2. position'.via # "wallet"
            BY <1>7, ByHandIsNotWallet
        <2> QED  BY <2>1, <2>2 DEF SearchInv, WalletLoanNeedsWallet
    <1>8. CASE Reading \/ Cards \/ Chain \/ SimulateGap \/ BurstPoll
        BY <1>1, <1>8, NotSearching
    <1>9. CASE UNCHANGED vars
        BY <1>1, <1>9 DEF vars, pageVars, searchVars
    <1> QED  BY <1>2, <1>3, <1>4, <1>5, <1>6, <1>7, <1>8, <1>9 DEF Next, Search, ByHand

LEMMA SearchAlways == Spec => []SearchInv
    BY SearchInitially, SearchStep, PTL DEF Spec

\* No position loaded by the search without a wallet, also when the wallet disconnects
\* during the search (Dashboard.tsx, the cancelled flag of the discovery effect).
THEOREM NoLoanWithoutWallet == Spec => []WalletLoanNeedsWallet
    <1>1. SearchInv => WalletLoanNeedsWallet  BY DEF SearchInv
    <1> QED  BY <1>1, SearchAlways, PTL

\* The search loads a loan of the wallet connected at that moment.
THEOREM SearchFollowsWallet == Spec => DiscoveryFollowsWallet
    <1> DEFINE Follows == (position' # position /\ position'.via = "wallet") =>
                              position'.owner = wallet' /\ OwnerOf[position'.loan] = wallet'
    <1>1. ASSUME SearchInv, [Next]_vars PROVE [Follows]_vars
        <2>1. ASSUME UNCHANGED position PROVE Follows
            BY <2>1
        <2>2. ASSUME NEW l \in lookups, Found(l) PROVE Follows
            <3>1. wallet' = wallet /\ l.key = wallet
                BY <1>1, <2>2 DEF Found, SearchInv
            <3>2. \/ position' = position
                  \/ \E pick \in Picks(l.key) :
                        position' = [loan |-> pick, owner |-> l.key, via |-> "wallet"]
                BY <2>2 DEF Found, LoadPosition
            <3>3. \A pick \in Picks(l.key) : OwnerOf[pick] = l.key
                BY DEF Picks, Borrowed, Owned
            <3> QED  BY <3>1, <3>2, <3>3
        <2>3. CASE Disconnect
            <3>1. position' = position \/ position'.via = "none"
                BY <2>3 DEF Disconnect, LoadPosition, NoPosition
            <3> QED  BY <3>1
        <2>4. CASE LoadDemoPosition \/ \E l \in Loans : PasteObligation(l)
            BY <2>4, ByHandIsNotWallet
        <2>5. CASE Reading \/ Cards \/ Chain \/ SimulateGap \/ BurstPoll
            BY <2>1, <2>5, NotSearching
        <2>6. CASE \/ \E w \in Wallets : Connect(w)
                   \/ RetryDiscovery
                   \/ \E l \in lookups : LookupFails(l) \/ LookupIgnored(l)
            BY <2>1, <2>6 DEF Connect, RetryDiscovery, LookupFails, LookupIgnored, pageVars
        <2> QED  BY <1>1, <2>2, <2>3, <2>4, <2>5, <2>6 DEF Next, Search, ByHand
    <1> QED  BY <1>1, SearchAlways, PTL DEF Spec, DiscoveryFollowsWallet

----------------------------------------------------------------------------
(* What is shown armed.                                                    *)

\* Vaults are never removed.
LEMMA VaultsStay ==
    ASSUME [Next]_vars
    PROVE  vaults \subseteq vaults'
    BY DEF Next, Search, ByHand, Reading, Cards, Chain, Connect, Disconnect, RetryDiscovery,
           Found, LookupFails, LookupIgnored, LoadDemoPosition, PasteObligation, LoadByHand,
           SimulateGap, BurstPoll, Deliver, ReadFails, Poll, Retry, Borrow, Repay, OpenArm,
           CloseArm, Arm, Begin, SignAndSend, JobFails, Land, Drop, KeeperFires, vars, chainVars

\* What the routes answer now is true now.
LEMMA FetchIsHonest ==
    ASSUME NEW p, NEW loud, NEW q \in FetchBoth(p, loud)
    PROVE  HonestRead(q)
    <1>1. ASSUME NEW kind, NEW asked, q = Fetch(kind, p, asked) PROVE HonestRead(q)
        <2>1. /\ q.owner = p.owner
              /\ q.loan = p.loan
              /\ q.views = {View(debt, vaults, kind, p.loan, p.owner)}
            BY <1>1 DEF Fetch
        <2>2. View(debt, vaults, kind, p.loan, p.owner).armed => Armed(p.owner, p.loan)
            BY DEF View, Armed
        <2> QED  BY <2>1, <2>2 DEF HonestRead
    <1>2. q = Fetch("market", p, loud) \/ q = Fetch("protect", p, FALSE)
        BY DEF FetchBoth
    <1> QED  BY <1>1, <1>2

LEMMA HonestStays ==
    ASSUME NEW q, HonestRead(q), vaults \subseteq vaults'
    PROVE  HonestRead(q)'
    BY DEF HonestRead, Armed, HasVault

\* A read that has seen the next state too.
LEMMA SeenIsHonest ==
    ASSUME ReadsInv, Seen, vaults \subseteq vaults'
    PROVE  \A q \in reads' : HonestRead(q)'
    <1>1. ASSUME NEW q \in reads, NEW view, view.armed,
                 view \in q.views \cup {View(debt', vaults', q.kind, q.loan, q.owner)}
          PROVE  HasVault(vaults', q.owner, q.loan)
        <2>1. CASE view \in q.views
            BY <1>1, <2>1 DEF ReadsInv, HonestRead, Armed, HasVault
        <2>2. CASE view = View(debt', vaults', q.kind, q.loan, q.owner)
            BY <1>1, <2>2 DEF View
        <2> QED  BY <1>1, <2>1, <2>2
    <1> QED  BY <1>1 DEF Seen, HonestRead, Armed

LEMMA ReadsInitially == Init => ReadsInv
    BY DEF Init, ReadsInv, ShownArmedIsArmed, NoProtect

\* Whoever asks asks for what is on the chain now.
LEMMA AskIsHonest ==
    ASSUME ReadsInv, vaults \subseteq vaults', NEW p, NEW loud,
           reads' \subseteq reads \cup FetchBoth(p, loud),
           UNCHANGED protect
    PROVE  ReadsInv'
    <1>1. ASSUME NEW q \in reads' PROVE HonestRead(q)'
        <2>1. HonestRead(q)  BY <1>1, FetchIsHonest DEF ReadsInv
        <2> QED  BY <2>1, HonestStays
    <1>2. ShownArmedIsArmed'
        BY DEF ReadsInv, ShownArmedIsArmed, Armed, HasVault
    <1> QED  BY <1>1, <1>2 DEF ReadsInv

LEMMA ReadsStep ==
    ASSUME ReadsInv, [Next]_vars
    PROVE  ReadsInv'
    <1>0. vaults \subseteq vaults'  BY VaultsStay
    <1>1. ASSUME reads' \subseteq reads, UNCHANGED protect PROVE ReadsInv'
        BY <1>0, <1>1, AskIsHonest
    <1>2. CASE Disconnect \/ \E l \in lookups : Found(l)
        <2>1. UNCHANGED protect /\ \E p : reads' \subseteq reads \cup FetchBoth(p, TRUE)
            BY <1>2 DEF Disconnect, Found, LoadPosition, Refresh
        <2> QED  BY <1>0, <2>1, AskIsHonest
    <1>3. CASE ByHand
        <2>1. UNCHANGED protect /\ \E p : reads' \subseteq reads \cup FetchBoth(p, TRUE)
            BY <1>3 DEF ByHand, LoadDemoPosition, PasteObligation, LoadByHand, SimulateGap,
                        BurstPoll, LoadPosition, Refresh
        <2> QED  BY <1>0, <2>1, AskIsHonest
    <1>4. CASE Poll \/ Retry
        <2>1. /\ UNCHANGED protect
              /\ \E p : \E loud : reads' \subseteq reads \cup FetchBoth(p, loud)
            BY <1>4 DEF Poll, Retry, Refresh, pageVars
        <2> QED  BY <1>0, <2>1, AskIsHonest
    <1>5. ASSUME NEW j \in jobs, SignAndSend(j) PROVE ReadsInv'
        <2>1. UNCHANGED protect /\ \E p : reads' \subseteq reads \cup FetchBoth(p, TRUE)
            BY <1>5 DEF SignAndSend, Refresh
        <2> QED  BY <1>0, <2>1, AskIsHonest
    <1>6. ASSUME NEW q \in reads, Deliver(q) PROVE ReadsInv'
        <2>1. PICK view \in q.views :
                \/ protect' = [loan |-> q.loan, owner |-> q.owner, armed |-> view.armed]
                \/ protect' = protect
            BY <1>6 DEF Deliver
        <2>2. ShownArmedIsArmed /\ HonestRead(q)
            BY DEF ReadsInv
        <2>3. ShownArmedIsArmed'
            BY <1>0, <2>1, <2>2 DEF ShownArmedIsArmed, HonestRead, Armed, HasVault
        <2>4. \A r \in reads' : HonestRead(r)'
            BY <1>0, <1>6, HonestStays DEF Deliver, ReadsInv
        <2> QED  BY <2>3, <2>4 DEF ReadsInv
    <1>7. CASE Seen /\ UNCHANGED protect
        <2>1. ShownArmedIsArmed'
            BY <1>0, <1>7 DEF ReadsInv, ShownArmedIsArmed, Armed, HasVault
        <2> QED  BY <1>0, <1>7, <2>1, SeenIsHonest DEF ReadsInv
    <1>8. CASE Chain
        <2>1. UNCHANGED protect /\ (Seen \/ reads' = reads)
            BY <1>8 DEF Chain, Land, Drop, KeeperFires, pageVars
        <2> QED  BY <1>1, <1>7, <2>1
    <1>9. CASE \/ \E w \in Wallets : Connect(w)
               \/ RetryDiscovery
               \/ \E l \in lookups : LookupFails(l) \/ LookupIgnored(l)
               \/ \E q \in reads : ReadFails(q)
               \/ UNCHANGED vars
        BY <1>1, <1>9 DEF Connect, RetryDiscovery, LookupFails, LookupIgnored, ReadFails,
                          pageVars, vars
    <1>10. CASE Cards
        <2>1. CASE \E j \in jobs : SignAndSend(j)
            BY <1>5, <2>1
        <2>2. CASE ~\E j \in jobs : SignAndSend(j)
            BY <1>1, <1>10, <2>2 DEF Cards, Borrow, Repay, OpenArm, CloseArm, Arm, Begin,
                                     JobFails, pageVars
        <2> QED  BY <2>1, <2>2
    <1> QED
        BY <1>2, <1>3, <1>4, <1>6, <1>8, <1>9, <1>10 DEF Next, Search, Reading

\* "Armed" on the page is a vault on the chain, however late and out of order the answers.
THEOREM ArmedIsNeverPremature == Spec => []ShownArmedIsArmed
    <1>1. ReadsInv => ShownArmedIsArmed  BY DEF ReadsInv
    <1> QED  BY <1>1, ReadsInitially, ReadsStep, PTL DEF Spec

----------------------------------------------------------------------------
(* Types.                                                                  *)

Views == [debt : Nat, armed : BOOLEAN]
Jobs == [id : Nat, kind : Kinds, user : Wallets, at : Positions, amount : Nat]
Txs == [id : Nat, kind : Kinds, user : Wallets, loan : Loans, amount : Nat]
Vaults == [user : Wallets, loan : Loans, trigger : Nat]

LEMMA ViewTyped ==
    ASSUME NEW ds \in [Loans -> Nat], NEW vs, NEW kind, NEW loan \in Loans, NEW owner
    PROVE  View(ds, vs, kind, loan, owner) \in Views
    <1>1. PICK b \in BOOLEAN : b <=> (kind = "protect" /\ HasVault(vs, owner, loan))
        OBVIOUS
    <1>2. View(ds, vs, kind, loan, owner) =
            [debt |-> IF kind = "market" THEN ds[loan] ELSE 0, armed |-> b]
        BY <1>1 DEF View
    <1> QED  BY <1>2 DEF Views

\* A read that is asked for is about a loan.
LEMMA FetchTyped ==
    ASSUME TypeOK, NEW p \in Positions, p.loan # NoLoan, NEW kind \in {"market", "protect"},
           NEW loud \in BOOLEAN
    PROVE  Fetch(kind, p, loud) \in Reads
    <1> DEFINE V == Views
               seen == View(debt, vaults, kind, p.loan, p.owner)
    <1>1. p.loan \in Loans /\ p.owner \in Parties /\ debt \in [Loans -> Nat]
        BY DEF Positions, TypeOK
    <1>2. seen \in V
        BY <1>1, ViewTyped
    <1>3. Reads = [kind : {"market", "protect"}, loan : Loans, owner : Parties, loud : BOOLEAN,
                   views : SUBSET V]
        BY DEF Reads, Views
    <1> HIDE DEF V, seen
    <1>4. {seen} \in SUBSET V
        BY <1>2
    <1>5. Fetch(kind, p, loud) = [kind |-> kind, loan |-> p.loan, owner |-> p.owner,
                                  loud |-> loud, views |-> {seen}]
        BY DEF Fetch, seen
    <1> QED  BY <1>1, <1>3, <1>4, <1>5

LEMMA BothTyped ==
    ASSUME TypeOK, NEW p \in Positions, p.loan # NoLoan, NEW loud \in BOOLEAN
    PROVE  \A q \in FetchBoth(p, loud) : q \in Reads
    BY FetchTyped DEF FetchBoth

LEMMA RefreshTyped ==
    ASSUME TypeOK, NEW p \in Positions, Refresh(p)
    PROVE  marketErr' \in BOOLEAN /\ \A q \in reads' : q \in Reads
    BY BothTyped DEF Refresh, TypeOK

LEMMA LoadTyped ==
    ASSUME TypeOK, NEW p \in Positions, LoadPosition(p)
    PROVE  /\ position' \in Positions
           /\ marketErr' \in BOOLEAN /\ \A q \in reads' : q \in Reads
    BY RefreshTyped DEF LoadPosition, TypeOK

\* What the reads under way see of a chain that moves.
LEMMA SeenTyped ==
    ASSUME TypeOK, Seen, debt' \in [Loans -> Nat]
    PROVE  \A q \in reads' : q \in Reads
    <1> DEFINE V == Views
               now(q) == View(debt', vaults', q.kind, q.loan, q.owner)
               more(q) == [kind |-> q.kind, loan |-> q.loan, owner |-> q.owner, loud |-> q.loud,
                           views |-> q.views \cup {now(q)}]
    <1>1. Reads = [kind : {"market", "protect"}, loan : Loans, owner : Parties, loud : BOOLEAN,
                   views : SUBSET V]
        BY DEF Reads, Views
    <1>2. reads' = {more(q) : q \in reads}
        BY DEF Seen
    <1>3. ASSUME NEW q \in reads PROVE more(q) \in Reads
        <2>1. q \in Reads /\ q.loan \in Loans
            BY DEF TypeOK, Reads
        <2>2. now(q) \in V
            BY <2>1, ViewTyped
        <2> HIDE DEF V, now
        <2>3. q.views \cup {now(q)} \in SUBSET V
            BY <1>1, <2>1, <2>2
        <2> QED  BY <1>1, <2>1, <2>3
    <1> HIDE DEF more
    <1> QED  BY <1>2, <1>3

LEMMA NothingLoaded == NoPosition \in Positions
    BY DEF NoPosition, Positions, Parties

LEMMA TypeInitially == Init => TypeOK
    <1> SUFFICES ASSUME Init PROVE TypeOK
        OBVIOUS
    <1>1. /\ market \in [loan : Loans \cup {NoLoan}, debt : Nat]
          /\ protect \in [loan : Loans \cup {NoLoan}, owner : Parties, armed : BOOLEAN]
        BY DEF Init, NoMarket, NoProtect, Parties
    <1>2. /\ lookups = {} /\ reads = {} /\ jobs = {} /\ sent = {} /\ vaults = {}
          /\ wallet = NoWallet /\ position = NoPosition /\ debt = InitialDebt
        BY DEF Init
    <1>3. /\ discovering \in BOOLEAN /\ discoverErr \in BOOLEAN /\ marketErr \in BOOLEAN
          /\ arming \in BOOLEAN /\ gapped \in BOOLEAN
        BY Zenon DEF Init
    <1>4. /\ events \in 0 .. MaxEvents
          /\ clicks \in 0 .. MaxClicks
          /\ moves \in 0 .. MaxMoves
        BY DashboardAssumption DEF Init
    <1>5. /\ wallet \in Parties
          /\ position \in Positions
          /\ debt \in [Loans -> Nat]
          /\ \A q \in reads : q \in Reads
        BY <1>2, NothingLoaded, DashboardAssumption DEF Parties
    <1> QED  BY <1>1, <1>2, <1>3, <1>4, <1>5, Zenon DEF TypeOK

LEMMA CancelledTyped ==
    ASSUME TypeOK
    PROVE  Cancelled \subseteq [key : Wallets, live : BOOLEAN]
    <1>1. ASSUME NEW c \in Cancelled PROVE c \in [key : Wallets, live : BOOLEAN]
        <2>1. PICK l \in lookups : c = [key |-> l.key, live |-> FALSE]
            BY <1>1 DEF Cancelled
        <2>2. l.key \in Wallets
            BY <2>1 DEF TypeOK
        <2> QED  BY <2>1, <2>2
    <1> QED  BY <1>1

LEMMA SearchTyped ==
    ASSUME TypeOK, Search
    PROVE  TypeOK'
    <1>0. ASSUME NEW w \in Wallets, Discover(w)
          PROVE  /\ lookups' \subseteq [key : Wallets, live : BOOLEAN]
                 /\ discovering' \in BOOLEAN /\ discoverErr' \in BOOLEAN
        <2>1. [key |-> w, live |-> TRUE] \in [key : Wallets, live : BOOLEAN]
            OBVIOUS
        <2>2. lookups' \subseteq [key : Wallets, live : BOOLEAN]
            BY <1>0, <2>1, CancelledTyped DEF Discover
        <2>3. discovering' = TRUE /\ discoverErr' = FALSE
            BY <1>0 DEF Discover
        <2> QED  BY <2>2, <2>3, Zenon
    <1>1. ASSUME NEW w \in Wallets, Connect(w) PROVE TypeOK'
        <2>1. events' \in 0 .. MaxEvents /\ wallet' \in Parties
            BY <1>1, DashboardAssumption DEF Connect, TypeOK, Parties
        <2>2. Discover(w) /\ UNCHANGED <<pageVars, reads, gapped, txVars, chainVars, clicks, moves>>
            BY <1>1 DEF Connect
        <2> QED  BY <1>0, <2>1, <2>2 DEF TypeOK, pageVars, txVars, chainVars
    <1>2. CASE Disconnect
        <2>1. events' \in 0 .. MaxEvents /\ wallet' \in Parties
            BY <1>2, DashboardAssumption DEF Disconnect, TypeOK, Parties
        <2>2. /\ lookups' \subseteq [key : Wallets, live : BOOLEAN]
              /\ discovering' \in BOOLEAN /\ discoverErr' \in BOOLEAN
            BY <1>2, CancelledTyped DEF Disconnect, TypeOK
        <2>3. /\ position' \in Positions
              /\ marketErr' \in BOOLEAN /\ \A q \in reads' : q \in Reads
            <3>1. CASE LoadPosition(NoPosition)
                BY <3>1, NothingLoaded, LoadTyped
            <3>2. CASE UNCHANGED <<position, marketErr, reads>>
                BY <3>2 DEF TypeOK
            <3> QED  BY <1>2, <3>1, <3>2 DEF Disconnect
        <2>4. UNCHANGED <<market, protect, gapped, txVars, chainVars, clicks, moves>>
            BY <1>2 DEF Disconnect
        <2> QED  BY <2>1, <2>2, <2>3, <2>4 DEF TypeOK, txVars, chainVars
    <1>3. CASE RetryDiscovery
        <2>1. wallet \in Wallets /\ Discover(wallet)
            BY <1>3 DEF RetryDiscovery, TypeOK, Parties
        <2>2. UNCHANGED <<wallet, pageVars, reads, gapped, txVars, chainVars, bounds>>
            BY <1>3 DEF RetryDiscovery
        <2> QED  BY <1>0, <2>1, <2>2 DEF TypeOK, pageVars, txVars, chainVars, bounds
    <1>4. ASSUME NEW l \in lookups, Found(l) PROVE TypeOK'
        <2>1. /\ lookups' \subseteq [key : Wallets, live : BOOLEAN] /\ l.key \in Wallets
              /\ discovering' \in BOOLEAN
            BY <1>4 DEF Found, TypeOK
        <2>2. /\ position' \in Positions
              /\ marketErr' \in BOOLEAN /\ \A q \in reads' : q \in Reads
            <3>1. ASSUME NEW pick \in Picks(l.key),
                         LoadPosition([loan |-> pick, owner |-> l.key, via |-> "wallet"])
                  PROVE  /\ position' \in Positions
                         /\ marketErr' \in BOOLEAN /\ \A q \in reads' : q \in Reads
                <4>1. pick \in Loans
                    BY DEF Picks, Borrowed, Owned
                <4>2. [loan |-> pick, owner |-> l.key, via |-> "wallet"] \in Positions
                    BY <2>1, <4>1 DEF Positions, Parties
                <4> QED  BY <3>1, <4>2, LoadTyped
            <3>2. CASE UNCHANGED <<position, marketErr, reads>>
                BY <3>2 DEF TypeOK
            <3> QED  BY <1>4, <3>1, <3>2 DEF Found
        <2>3. UNCHANGED <<wallet, market, protect, discoverErr, gapped, txVars, chainVars, bounds>>
            BY <1>4 DEF Found
        <2> QED  BY <2>1, <2>2, <2>3 DEF TypeOK, txVars, chainVars, bounds
    <1>5. ASSUME NEW l \in lookups, LookupFails(l) \/ LookupIgnored(l) PROVE TypeOK'
        <2>1. /\ lookups' \subseteq [key : Wallets, live : BOOLEAN]
              /\ discovering' \in BOOLEAN /\ discoverErr' \in BOOLEAN
            BY <1>5 DEF LookupFails, LookupIgnored, TypeOK
        <2>2. UNCHANGED <<wallet, pageVars, reads, gapped, txVars, chainVars, bounds>>
            BY <1>5 DEF LookupFails, LookupIgnored
        <2> QED  BY <2>1, <2>2 DEF TypeOK, pageVars, txVars, chainVars, bounds
    <1> QED  BY <1>1, <1>2, <1>3, <1>4, <1>5 DEF Search

LEMMA ByHandTyped ==
    ASSUME TypeOK, ByHand
    PROVE  TypeOK'
    <1>1. ASSUME NEW p \in Positions, LoadByHand(p) PROVE TypeOK'
        <2>1. events' \in 0 .. MaxEvents
            BY <1>1, DashboardAssumption DEF LoadByHand, TypeOK
        <2>2. /\ position' \in Positions
              /\ marketErr' \in BOOLEAN /\ \A q \in reads' : q \in Reads
            BY <1>1, LoadTyped DEF LoadByHand
        <2>3. UNCHANGED <<wallet, market, protect, searchVars, gapped, txVars, chainVars, clicks,
                          moves>>
            BY <1>1 DEF LoadByHand
        <2> QED  BY <2>1, <2>2, <2>3 DEF TypeOK, searchVars, txVars, chainVars
    <1>2. CASE LoadDemoPosition
        <2>1. [loan |-> DemoLoan, owner |-> DemoOwner, via |-> "demo"] \in Positions
            BY DashboardAssumption DEF Positions, Parties
        <2> QED  BY <1>1, <1>2, <2>1 DEF LoadDemoPosition
    <1>3. ASSUME NEW l \in Loans, PasteObligation(l) PROVE TypeOK'
        <2>1. [loan |-> l, owner |-> IF wallet # NoWallet THEN wallet ELSE DemoOwner,
               via |-> "dev"] \in Positions
            BY DashboardAssumption DEF Positions, Parties, TypeOK
        <2> QED  BY <1>1, <1>3, <2>1 DEF PasteObligation
    <1>4. position \in Positions
        BY DEF TypeOK
    <1>5. CASE SimulateGap
        <2>1. events' \in 0 .. MaxEvents /\ gapped' \in BOOLEAN
            BY <1>5, DashboardAssumption DEF SimulateGap, TypeOK
        <2>2. marketErr' \in BOOLEAN /\ \A q \in reads' : q \in Reads
            BY <1>4, <1>5, RefreshTyped DEF SimulateGap
        <2>3. UNCHANGED <<wallet, position, market, protect, searchVars, txVars, chainVars, clicks,
                          moves>>
            BY <1>5 DEF SimulateGap
        <2> QED  BY <2>1, <2>2, <2>3 DEF TypeOK, searchVars, txVars, chainVars
    <1>6. CASE BurstPoll
        <2>1. marketErr' \in BOOLEAN /\ \A q \in reads' : q \in Reads
            BY <1>4, <1>6, RefreshTyped DEF BurstPoll
        <2>2. UNCHANGED <<wallet, position, market, protect, searchVars, gapped, txVars, chainVars,
                          bounds>>
            BY <1>6 DEF BurstPoll
        <2> QED  BY <2>1, <2>2 DEF TypeOK, searchVars, txVars, chainVars, bounds
    <1> QED  BY <1>2, <1>3, <1>5, <1>6 DEF ByHand

LEMMA ReadingTyped ==
    ASSUME TypeOK, Reading
    PROVE  TypeOK'
    <1>0. position \in Positions
        BY DEF TypeOK
    <1>1. ASSUME NEW q \in reads, Deliver(q) PROVE TypeOK'
        <2>1. PICK view \in q.views :
                IF q.kind = "market"
                THEN /\ market' = [loan |-> q.loan, debt |-> view.debt]
                     /\ UNCHANGED protect
                ELSE /\ protect' = [loan |-> q.loan, owner |-> q.owner, armed |-> view.armed]
                     /\ UNCHANGED market
            BY <1>1 DEF Deliver
        <2>2. q.loan \in Loans /\ q.owner \in Parties /\ view.debt \in Nat /\ view.armed \in BOOLEAN
            BY DEF TypeOK, Reads
        <2>3. /\ market' \in [loan : Loans \cup {NoLoan}, debt : Nat]
              /\ protect' \in [loan : Loans \cup {NoLoan}, owner : Parties, armed : BOOLEAN]
            <3>1. CASE q.kind = "market"
                BY <2>1, <2>2, <3>1 DEF TypeOK
            <3>2. CASE q.kind # "market"
                BY <2>1, <2>2, <3>2 DEF TypeOK
            <3> QED  BY <3>1, <3>2
        <2>4. /\ \A r \in reads' : r \in Reads
              /\ UNCHANGED <<wallet, position, marketErr, searchVars, gapped, txVars, chainVars,
                             bounds>>
            BY <1>1 DEF Deliver, TypeOK
        <2> QED  BY <2>3, <2>4 DEF TypeOK, searchVars, txVars, chainVars, bounds
    <1>2. ASSUME NEW q \in reads, ReadFails(q) PROVE TypeOK'
        <2>1. q.loud \in BOOLEAN
            BY DEF TypeOK, Reads
        <2>2. marketErr' \in BOOLEAN /\ \A r \in reads' : r \in Reads
            BY <1>2, <2>1 DEF ReadFails, TypeOK
        <2>3. UNCHANGED <<wallet, position, market, protect, searchVars, gapped, txVars, chainVars,
                          bounds>>
            BY <1>2 DEF ReadFails
        <2> QED  BY <2>2, <2>3 DEF TypeOK, searchVars, txVars, chainVars, bounds
    <1>3. CASE Poll
        <2>1. \A q \in reads' : q \in Reads
            BY <1>0, <1>3, BothTyped DEF Poll, TypeOK
        <2>2. UNCHANGED <<wallet, pageVars, searchVars, gapped, txVars, chainVars, bounds>>
            BY <1>3 DEF Poll
        <2> QED  BY <2>1, <2>2 DEF TypeOK, pageVars, searchVars, txVars, chainVars, bounds
    <1>4. CASE Retry
        <2>1. marketErr' \in BOOLEAN /\ \A q \in reads' : q \in Reads
            BY <1>0, <1>4, RefreshTyped DEF Retry
        <2>2. UNCHANGED <<wallet, position, market, protect, searchVars, gapped, txVars, chainVars,
                          bounds>>
            BY <1>4 DEF Retry
        <2> QED  BY <2>1, <2>2 DEF TypeOK, searchVars, txVars, chainVars, bounds
    <1> QED  BY <1>1, <1>2, <1>3, <1>4 DEF Reading

LEMMA CardsTyped ==
    ASSUME TypeOK, Cards
    PROVE  TypeOK'
    <1>1. ASSUME NEW kind \in Kinds, NEW amount \in Nat, Begin(kind, amount) PROVE TypeOK'
        <2> DEFINE job == [id |-> clicks + 1, kind |-> kind, user |-> wallet, at |-> position,
                           amount |-> amount]
        <2>1. clicks' \in 0 .. MaxClicks /\ clicks + 1 \in Nat
            BY <1>1, DashboardAssumption DEF Begin, TypeOK
        <2>2. job \in Jobs
            BY <1>1, <2>1 DEF Begin, TypeOK, Parties, Jobs
        <2>3. /\ jobs' = jobs \cup {job}
              /\ UNCHANGED <<wallet, pageVars, searchVars, reads, gapped, arming, sent, chainVars,
                             events, moves>>
            BY <1>1 DEF Begin
        <2> HIDE DEF job
        <2>4. jobs' \subseteq Jobs
            BY <2>2, <2>3 DEF TypeOK, Jobs
        <2> QED  BY <2>1, <2>3, <2>4 DEF TypeOK, Jobs, pageVars, searchVars, chainVars
    <1>2. ASSUME NEW n \in 1 .. MaxAmount, Borrow(n) \/ Repay(n) PROVE TypeOK'
        BY <1>1, <1>2, DashboardAssumption DEF Borrow, Repay, Kinds
    <1>3. ASSUME NEW t \in Triggers, Arm(t) PROVE TypeOK'
        BY <1>1, <1>3, DashboardAssumption DEF Arm, Kinds
    <1>4. CASE OpenArm \/ CloseArm
        BY <1>4 DEF OpenArm, CloseArm, TypeOK, pageVars, searchVars, chainVars, bounds
    <1>5. ASSUME NEW j \in jobs, SignAndSend(j) PROVE TypeOK'
        <2>1. j \in Jobs
            BY DEF TypeOK, Jobs
        <2>2. TxOf(j) \in Txs
            <3>1. LoanOf[j.user] \in Loans
                BY <2>1, DashboardAssumption DEF Jobs
            <3>2. j.kind = "arm" => j.at.loan \in Loans
                BY <1>5, <2>1 DEF SignAndSend, ValidRequest, Jobs, Positions
            <3>3. j.kind \in {"borrow", "repay", "arm"}
                BY <2>1 DEF Jobs, Kinds
            <3>4. \A loan \in Loans : Tx(j, loan) \in Txs
                BY <2>1 DEF Tx, Jobs, Txs
            <3> QED
                BY <3>1, <3>2, <3>3, <3>4 DEF TxOf, BorrowTx, RepayTx, ArmTx, UserLoan
        <2>3. sent' \subseteq Txs /\ jobs' \subseteq Jobs
            BY <1>5, <2>2 DEF SignAndSend, TypeOK, Txs, Jobs
        <2>4. j.at \in Positions
            BY <2>1 DEF Jobs
        <2>5. marketErr' \in BOOLEAN /\ \A q \in reads' : q \in Reads
            BY <1>5, <2>4, RefreshTyped DEF SignAndSend
        <2>6. arming' \in BOOLEAN
            BY <1>5 DEF SignAndSend, TypeOK
        <2>7. UNCHANGED <<wallet, position, market, protect, searchVars, gapped, chainVars, bounds>>
            BY <1>5 DEF SignAndSend
        <2> QED
            BY <2>3, <2>5, <2>6, <2>7 DEF TypeOK, Txs, Jobs, searchVars, chainVars, bounds
    <1>6. ASSUME NEW j \in jobs, JobFails(j) PROVE TypeOK'
        BY <1>6 DEF JobFails, TypeOK, pageVars, searchVars, chainVars, bounds
    <1> QED  BY <1>2, <1>3, <1>4, <1>5, <1>6 DEF Cards

LEMMA ChainTyped ==
    ASSUME TypeOK, Chain
    PROVE  TypeOK'
    <1>1. ASSUME NEW t \in sent, Land(t) PROVE TypeOK'
        <2>1. t.loan \in Loans /\ t.amount \in Nat /\ t.user \in Wallets
            BY DEF TypeOK
        <2>2. debt' \in [Loans -> Nat] /\ vaults' \subseteq Vaults
            <3>1. CASE debt' = [debt EXCEPT ![t.loan] = @ + t.amount] /\ UNCHANGED vaults
                BY <2>1, <3>1 DEF TypeOK, Vaults
            <3>2. CASE /\ debt' = [debt EXCEPT ![t.loan] = IF t.amount < @ THEN @ - t.amount ELSE 0]
                       /\ UNCHANGED vaults
                <4> DEFINE left == IF t.amount < debt[t.loan] THEN debt[t.loan] - t.amount ELSE 0
                <4>1. left \in Nat
                    BY <2>1 DEF TypeOK
                <4>2. debt' = [debt EXCEPT ![t.loan] = left]
                    BY <3>2
                <4> HIDE DEF left
                <4> QED  BY <2>1, <3>2, <4>1, <4>2 DEF TypeOK, Vaults
            <3>3. CASE /\ vaults' = vaults \cup {[user |-> t.user, loan |-> t.loan,
                                                  trigger |-> t.amount]}
                       /\ UNCHANGED debt
                <4>1. [user |-> t.user, loan |-> t.loan, trigger |-> t.amount] \in Vaults
                    BY <2>1 DEF Vaults
                <4> QED  BY <3>3, <4>1 DEF TypeOK, Vaults
            <3> QED  BY <1>1, <3>1, <3>2, <3>3 DEF Land
        <2>3. \A q \in reads' : q \in Reads
            BY <1>1, <2>2, SeenTyped DEF Land
        <2>4. /\ sent' = sent \ {t}
              /\ UNCHANGED <<wallet, pageVars, searchVars, gapped, arming, jobs, bounds>>
            BY <1>1 DEF Land
        <2> QED  BY <2>2, <2>3, <2>4 DEF TypeOK, Vaults, pageVars, searchVars, bounds
    <1>2. ASSUME NEW t \in sent, Drop(t) PROVE TypeOK'
        BY <1>2 DEF Drop, TypeOK, pageVars, searchVars, chainVars, bounds
    <1>3. ASSUME NEW l \in Loans, KeeperFires(l) PROVE TypeOK'
        <2>1. moves' \in 0 .. MaxMoves
            BY <1>3, DashboardAssumption DEF KeeperFires, TypeOK
        <2>2. PICK amount \in 1 .. debt[l] : debt' = [debt EXCEPT ![l] = @ - amount]
            BY <1>3 DEF KeeperFires
        <2>3. debt' \in [Loans -> Nat]
            <3>1. debt[l] - amount \in Nat
                BY DEF TypeOK
            <3> QED  BY <2>2, <3>1 DEF TypeOK
        <2>4. \A q \in reads' : q \in Reads
            BY <1>3, <2>3, SeenTyped DEF KeeperFires
        <2>5. UNCHANGED <<wallet, pageVars, searchVars, gapped, txVars, vaults, events, clicks>>
            BY <1>3 DEF KeeperFires
        <2> QED  BY <2>1, <2>3, <2>4, <2>5 DEF TypeOK, pageVars, searchVars, txVars
    <1> QED  BY <1>1, <1>2, <1>3 DEF Chain

LEMMA TypeStep ==
    ASSUME TypeOK, [Next]_vars
    PROVE  TypeOK'
    <1>1. CASE UNCHANGED vars
        BY <1>1 DEF vars, pageVars, searchVars, txVars, chainVars, bounds, TypeOK
    <1> QED
        BY <1>1, SearchTyped, ByHandTyped, ReadingTyped, CardsTyped, ChainTyped DEF Next

\* What is asked, signed and sent is always about a loan, and no debt goes below zero.
THEOREM TypeCorrect == Spec => []TypeOK
    BY TypeInitially, TypeStep, PTL DEF Spec
=============================================================================
