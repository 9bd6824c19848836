----------------------------- MODULE Dashboard -----------------------------
(***************************************************************************)
(* The page (app/src/app/(ui)/components/Dashboard.tsx): it follows the    *)
(* wallet, loads a loan, keeps what it shows of it fresh through the API   *)
(* routes, and lets the wallet sign borrows, repays and armings.           *)
(*                                                                         *)
(* A fetch is delivered at any time after it was asked, in any order, with *)
(* any state the chain has had since then: nothing but the search for      *)
(* loans is cancelled when the page moves on.  An event handler and the    *)
(* effects React runs for it are one step.                                 *)
(*                                                                         *)
(* Left out: wording and layout, what only a line of text depends on       *)
(* (loading, protectErr), amounts typed that are not whole dollars, and    *)
(* the keeper strip (KeeperLivenessStrip.tsx), which reads the heartbeat   *)
(* of ProtectStatus.                                                       *)
(***************************************************************************)
EXTENDS Integers, FiniteSets

CONSTANTS
    Wallets,
    NoWallet,           \* no wallet connected; the owner of an ownerless position
    Loans,
    NoLoan,
    OwnerOf,            \* OwnerOf[l]: who holds loan l
    LoanOf,             \* LoanOf[w]: the obligation the SDK's builders act on for w
    Dollar,             \* base units of a dollar; debts are in base units
    Capacity,           \* Capacity[l]: the debt the market allows loan l
    Liquidation,        \* Liquidation[l]: the LTV at which l is liquidated
    DemoLoan,           \* NEXT_PUBLIC_DEMO_OBLIGATION
    DemoOwner,          \* NEXT_PUBLIC_DEMO_OWNER, or NoWallet
    Demo,               \* HOLDLINE_DEMO on the server
    Triggers,           \* trigger LTVs the slider offers
    InitialDebt,
    MaxAmount,          \* bound: the largest amount typed, in dollars
    MaxEvents,          \* bound: wallet changes, positions loaded by hand, gaps
    MaxClicks,          \* bound: transactions begun on the page
    MaxMoves,           \* bound: moves of the chain without the page
    MaxReads            \* bound: reads under way when a timer asks for more

ASSUME DashboardAssumption ==
    /\ NoWallet \notin Wallets
    /\ NoLoan \notin Loans
    /\ OwnerOf \in [Loans -> Wallets]
    /\ LoanOf \in [Wallets -> Loans]
    /\ Dollar \in Nat \ {0}
    /\ Capacity \in [Loans -> Nat]
    /\ Liquidation \in [Loans -> Nat]
    /\ DemoLoan \in Loans
    /\ DemoOwner \in Wallets \cup {NoWallet}
    /\ Demo \in BOOLEAN
    /\ Triggers \subseteq Nat
    /\ InitialDebt \in [Loans -> Nat]
    /\ MaxAmount \in Nat
    /\ MaxEvents \in Nat
    /\ MaxClicks \in Nat
    /\ MaxMoves \in Nat
    /\ MaxReads \in Nat

VARIABLES
    wallet,         \* publicKey
    position,       \* obligation, obligationOwner, loadedVia
    lookups,        \* searches for a wallet's loans; live until the effect is cleaned up
    discovering,
    discoverErr,
    market,         \* the market snapshot shown, or NoMarket
    protect,        \* the protect status shown, or NoProtect
    marketErr,
    reads,          \* fetches under way
    arming,         \* showArm
    gapped,         \* gapNonce > 0: a gap was simulated
    jobs,           \* transactions the page is building or the wallet is signing
    sent,           \* transactions sent that have neither landed nor expired
    debt,           \* debt[l], on chain
    vaults,         \* the vaults on chain
    events, clicks, moves

pageVars == <<position, market, protect, marketErr>>
searchVars == <<lookups, discovering, discoverErr>>
txVars == <<arming, jobs, sent>>
chainVars == <<debt, vaults>>
bounds == <<events, clicks, moves>>
vars == <<wallet, pageVars, searchVars, reads, gapped, txVars, chainVars, bounds>>

NoPosition == [loan |-> NoLoan, owner |-> NoWallet, via |-> "none"]
NoMarket == [loan |-> NoLoan, debt |-> 0]
NoProtect == [loan |-> NoLoan, owner |-> NoWallet, armed |-> FALSE]

----------------------------------------------------------------------------
(* Reads.                                                                  *)

\* The vault of an owner for a loan.
HasVault(vs, w, l) == \E v \in vs : v.user = w /\ v.loan = l
Armed(w, l) == HasVault(vaults, w, l)

\* Plausible bug: a transaction that was only sent counts (commitment "processed").
ViewOfSent(ds, vs, kind, loan, owner) ==
    [debt |-> IF kind = "market" THEN ds[loan] ELSE 0,
     armed |-> /\ kind = "protect"
               /\ \/ HasVault(vs, owner, loan)
                  \/ \E t \in sent : t.kind = "arm" /\ t.user = owner /\ t.loan = loan]

\* What api/kamino/market and api/protect/status answer of these debts and vaults.
View(ds, vs, kind, loan, owner) ==
    [debt |-> IF kind = "market" THEN ds[loan] ELSE 0,
     armed |-> kind = "protect" /\ HasVault(vs, owner, loan)]

Fetch(kind, p, loud) == [kind |-> kind, loan |-> p.loan, owner |-> p.owner, loud |-> loud,
                         views |-> {View(debt, vaults, kind, p.loan, p.owner)}]

\* fetchMarket and fetchProtectStatus of a position; the latter needs an owner.  A loud
\* market read reports its failure.
FetchBoth(p, loud) ==
    {Fetch("market", p, loud)}
    \cup (IF p.owner = NoWallet THEN {} ELSE {Fetch("protect", p, FALSE)})

\* refresh of the position it was made for: it takes the error off the page.
Refresh(p) ==
    IF p.loan = NoLoan THEN UNCHANGED <<marketErr, reads>>
    ELSE /\ reads' = reads \cup FetchBoth(p, TRUE)
         /\ marketErr' = FALSE

\* loadPosition, and the effect that depends on loan and owner.
LoadPosition(p) ==
    /\ position' = p
    /\ IF p.loan = position.loan /\ p.owner = position.owner
       THEN UNCHANGED <<marketErr, reads>>
       ELSE Refresh(p)

Deliver(q) ==
    /\ q \in reads
    /\ reads' = reads \ {q}
    /\ \E view \in q.views :
        IF q.kind = "market"
        THEN /\ market' = [loan |-> q.loan, debt |-> view.debt]
             /\ UNCHANGED protect
        ELSE /\ protect' = [loan |-> q.loan, owner |-> q.owner, armed |-> view.armed]
             /\ UNCHANGED market
    /\ UNCHANGED <<wallet, position, marketErr, searchVars, gapped, txVars, chainVars, bounds>>

\* A read that fails leaves what is shown, with or without a word.
ReadFails(q) ==
    /\ q \in reads
    /\ reads' = reads \ {q}
    /\ marketErr' = (marketErr \/ q.loud)
    /\ UNCHANGED <<wallet, position, market, protect, searchVars, gapped, txVars, chainVars,
                   bounds>>

\* Plausible bug: the timer asks only while nothing is shown.
PollUntilShown ==
    /\ position.loan # NoLoan
    /\ position.owner # NoWallet
    /\ market = NoMarket \/ protect = NoProtect
    /\ Cardinality(reads) < MaxReads
    /\ reads' = reads \cup FetchBoth(position, FALSE)
    /\ UNCHANGED <<wallet, pageVars, searchVars, gapped, txVars, chainVars, bounds>>

\* The 30 s timer of a position with an owner.
Poll ==
    /\ position.loan # NoLoan
    /\ position.owner # NoWallet
    /\ Cardinality(reads) < MaxReads
    /\ reads' = reads \cup FetchBoth(position, FALSE)
    /\ UNCHANGED <<wallet, pageVars, searchVars, gapped, txVars, chainVars, bounds>>

\* The retry button of the market error.
Retry ==
    /\ marketErr
    /\ Refresh(position)
    /\ UNCHANGED <<wallet, position, market, protect, searchVars, gapped, txVars, chainVars,
                   bounds>>

----------------------------------------------------------------------------
(* The wallet and the search for its loans.                                *)

Cancelled == {[key |-> l.key, live |-> FALSE] : l \in lookups}

\* The discovery effect with a wallet: connect, switch, or the retry button.
Discover(w) ==
    /\ lookups' = Cancelled \cup {[key |-> w, live |-> TRUE]}
    /\ discovering' = TRUE
    /\ discoverErr' = FALSE

Connect(w) ==
    /\ w # wallet
    /\ events < MaxEvents
    /\ events' = events + 1
    /\ wallet' = w
    /\ Discover(w)
    /\ UNCHANGED <<pageVars, reads, gapped, txVars, chainVars, clicks, moves>>

\* Plausible bug: the position stays.
DisconnectOnly ==
    /\ wallet # NoWallet
    /\ events < MaxEvents
    /\ events' = events + 1
    /\ wallet' = NoWallet
    /\ lookups' = Cancelled
    /\ discoverErr' = FALSE
    /\ UNCHANGED <<discovering, pageVars, reads, gapped, txVars, chainVars, clicks, moves>>

\* Only a position loaded by the search goes with the wallet; discovering is not reset.
Disconnect ==
    /\ wallet # NoWallet
    /\ events < MaxEvents
    /\ events' = events + 1
    /\ wallet' = NoWallet
    /\ lookups' = Cancelled
    /\ discoverErr' = FALSE
    /\ IF position.via = "wallet" THEN LoadPosition(NoPosition)
       ELSE UNCHANGED <<position, marketErr, reads>>
    /\ UNCHANGED <<discovering, market, protect, gapped, txVars, chainVars,
                   clicks, moves>>

RetryDiscovery ==
    /\ position.loan = NoLoan
    /\ wallet # NoWallet
    /\ discoverErr
    /\ ~discovering
    /\ Discover(wallet)
    /\ UNCHANGED <<wallet, pageVars, reads, gapped, txVars, chainVars, bounds>>

\* listOwnerObligations: every loan of the wallet, and whether it has a borrow.
Owned(w) == {l \in Loans : OwnerOf[l] = w}
Borrowed(w) == {l \in Owned(w) : debt[l] > 0}
Picks(w) == IF Borrowed(w) # {} THEN Borrowed(w) ELSE Owned(w)

\* Plausible bug: the answer is used although the effect was cleaned up.
FoundAnyway(l) ==
    /\ l \in lookups
    /\ lookups' = lookups \ {l}
    /\ discovering' = FALSE
    /\ IF Owned(l.key) = {} THEN UNCHANGED <<position, marketErr, reads>>
       ELSE \E pick \in Picks(l.key) :
                LoadPosition([loan |-> pick, owner |-> l.key, via |-> "wallet"])
    /\ UNCHANGED <<wallet, market, protect, discoverErr, gapped, txVars, chainVars,
                   bounds>>

\* A wallet without a loan leaves the position as it is.
Found(l) ==
    /\ l \in lookups
    /\ l.live
    /\ lookups' = lookups \ {l}
    /\ discovering' = FALSE
    /\ IF Owned(l.key) = {} THEN UNCHANGED <<position, marketErr, reads>>
       ELSE \E pick \in Picks(l.key) :
                LoadPosition([loan |-> pick, owner |-> l.key, via |-> "wallet"])
    /\ UNCHANGED <<wallet, market, protect, discoverErr, gapped, txVars, chainVars,
                   bounds>>

LookupFails(l) ==
    /\ l \in lookups
    /\ l.live
    /\ lookups' = lookups \ {l}
    /\ discovering' = FALSE
    /\ discoverErr' = TRUE
    /\ UNCHANGED <<wallet, pageVars, reads, gapped, txVars, chainVars, bounds>>

\* The answer of a search whose effect was cleaned up.
LookupIgnored(l) ==
    /\ l \in lookups
    /\ ~l.live
    /\ lookups' = lookups \ {l}
    /\ UNCHANGED <<wallet, pageVars, discovering, discoverErr, reads, gapped, txVars,
                   chainVars, bounds>>

----------------------------------------------------------------------------
(* The demo surface.                                                       *)

\* "Load demo position", and the pasted address: the card is there without a position.
LoadByHand(p) ==
    /\ position.loan = NoLoan
    /\ events < MaxEvents
    /\ events' = events + 1
    /\ LoadPosition(p)
    /\ UNCHANGED <<wallet, market, protect, searchVars, gapped, txVars, chainVars, clicks, moves>>

LoadDemoPosition == LoadByHand([loan |-> DemoLoan, owner |-> DemoOwner, via |-> "demo"])

PasteObligation(l) ==
    LoadByHand([loan |-> l, owner |-> IF wallet # NoWallet THEN wallet ELSE DemoOwner,
                via |-> "dev"])

\* DemoControls, there once the page has learned the server's demo mode: whatever
\* simulate-gap answers, the page refreshes and starts to poll in bursts.
SimulateGap ==
    /\ position.loan # NoLoan
    /\ Demo
    /\ ~gapped
    /\ events < MaxEvents
    /\ events' = events + 1
    /\ gapped' = TRUE
    /\ Refresh(position)
    /\ UNCHANGED <<wallet, position, market, protect, searchVars, txVars, chainVars, clicks,
                   moves>>

\* A poll of a burst; that there are 15 of them is left out.
BurstPoll ==
    /\ gapped
    /\ position.loan # NoLoan
    /\ Cardinality(reads) < MaxReads
    /\ Refresh(position)
    /\ UNCHANGED <<wallet, position, market, protect, searchVars, gapped, txVars, chainVars,
                   bounds>>

----------------------------------------------------------------------------
(* The cards and the modal.                                                *)

Working(kind) == \E j \in jobs : j.kind = kind

Begin(kind, amount) ==
    /\ wallet # NoWallet
    /\ ~Working(kind)
    /\ clicks < MaxClicks
    /\ clicks' = clicks + 1
    /\ jobs' = jobs \cup {[id |-> clicks + 1, kind |-> kind, user |-> wallet,
                           at |-> position, amount |-> amount]}
    /\ UNCHANGED <<wallet, pageVars, searchVars, reads, gapped, arming, sent, chainVars,
                   events, moves>>

\* canBorrow and canRepay: n dollars, within what the snapshot shown says.
Shown == market.loan # NoLoan
Borrow(n) == /\ Shown
             /\ n * Dollar <= Capacity[market.loan] - market.debt
             /\ Begin("borrow", n)
Repay(n) == Shown /\ n * Dollar <= market.debt /\ Begin("repay", n)

OpenArm ==
    /\ Shown
    /\ ~protect.armed
    /\ wallet # NoWallet
    /\ ~arming
    /\ arming' = TRUE
    /\ UNCHANGED <<wallet, pageVars, searchVars, reads, gapped, jobs, sent, chainVars,
                   bounds>>

CloseArm ==
    /\ arming
    /\ ~Working("arm")
    /\ arming' = FALSE
    /\ UNCHANGED <<wallet, pageVars, searchVars, reads, gapped, jobs, sent, chainVars,
                   bounds>>

\* Below the liquidation LTV of the loan SHOWN, which need not be the one to be armed.
ValidTrigger(t) ==
    t > 0 /\ (Liquidation[market.loan] = 0 \/ t < Liquidation[market.loan])

Arm(t) ==
    /\ arming
    /\ Shown
    /\ ValidTrigger(t)
    /\ Begin("arm", t)

Tx(j, loan) == [id |-> j.id, kind |-> j.kind, user |-> j.user, loan |-> loan,
                amount |-> j.amount]

\* buildBorrow and buildUserRepay name no obligation: the SDK's is the user's.
UserLoan(user) == LoanOf[user]

\* The borrow and the repay route build for the user's loan, the arm route for the one named.
\* The number typed goes to the SDK's builders as it is, which take base units
\* (scripts/seed-demo.ts multiplies by USDC_FACTOR before it calls the same builder).
BorrowTx(j) == Tx(j, UserLoan(j.user))
RepayTx(j) == Tx(j, UserLoan(j.user))
ArmTx(j) == Tx(j, j.at.loan)

TxOf(j) == CASE j.kind = "borrow" -> BorrowTx(j)
             [] j.kind = "repay" -> RepayTx(j)
             [] j.kind = "arm" -> ArmTx(j)

\* What a route takes: addresses that are addresses; the amounts typed are positive.
ValidRequest(j) == j.kind = "arm" => j.at.loan # NoLoan

\* Built, signed by the wallet it was built for, and sent; nobody waits for it to land.
\* onDone and onArmed refresh the position of the click.
SignAndSend(j) ==
    /\ j \in jobs
    /\ wallet = j.user
    /\ ValidRequest(j)
    /\ jobs' = jobs \ {j}
    /\ sent' = sent \cup {TxOf(j)}
    /\ arming' = (arming /\ j.kind # "arm")
    /\ Refresh(j.at)
    /\ UNCHANGED <<wallet, position, market, protect, searchVars, gapped, chainVars, bounds>>

\* A route refuses or fails, or the wallet does.
JobFails(j) ==
    /\ j \in jobs
    /\ jobs' = jobs \ {j}
    /\ UNCHANGED <<wallet, pageVars, searchVars, reads, gapped, arming, sent, chainVars,
                   bounds>>

----------------------------------------------------------------------------
(* The chain.                                                              *)

\* The reads under way may see the new state too.
Seen ==
    reads' = {[kind |-> q.kind, loan |-> q.loan, owner |-> q.owner, loud |-> q.loud,
               views |-> q.views \cup {View(debt', vaults', q.kind, q.loan, q.owner)}] :
              q \in reads}

\* Plausible bug: what is repaid is what was typed, not what is left.
LandAsTyped(t) ==
    /\ t \in sent
    /\ sent' = sent \ {t}
    /\ debt' = [debt EXCEPT ![t.loan] = IF t.kind = "repay" THEN @ - t.amount ELSE @]
    /\ UNCHANGED <<vaults, wallet, pageVars, searchVars, gapped, arming, jobs, bounds>>
    /\ Seen

Land(t) ==
    /\ t \in sent
    /\ sent' = sent \ {t}
    /\ \/ /\ t.kind = "borrow"
          /\ debt[t.loan] + t.amount <= Capacity[t.loan]
          /\ debt' = [debt EXCEPT ![t.loan] = @ + t.amount]
          /\ UNCHANGED vaults
       \/ /\ t.kind = "repay"
          /\ debt[t.loan] > 0
          /\ debt' = [debt EXCEPT ![t.loan] = IF t.amount < @ THEN @ - t.amount ELSE 0]
          /\ UNCHANGED vaults
       \/ /\ t.kind = "arm"
          /\ ~Armed(t.user, t.loan)
          /\ vaults' = vaults \cup {[user |-> t.user, loan |-> t.loan, trigger |-> t.amount]}
          /\ UNCHANGED debt
    /\ UNCHANGED <<wallet, pageVars, searchVars, gapped, arming, jobs, bounds>>
    /\ Seen

\* It expires, or is refused by the chain.
Drop(t) ==
    /\ t \in sent
    /\ sent' = sent \ {t}
    /\ UNCHANGED <<wallet, pageVars, searchVars, reads, gapped, arming, jobs, chainVars,
                   bounds>>

\* The keeper repays.
KeeperFires(l) ==
    /\ moves < MaxMoves
    /\ moves' = moves + 1
    /\ \E amount \in 1 .. debt[l] : debt' = [debt EXCEPT ![l] = @ - amount]
    /\ UNCHANGED <<wallet, pageVars, searchVars, gapped, txVars, vaults, events, clicks>>
    /\ Seen

----------------------------------------------------------------------------
Init ==
    /\ wallet = NoWallet
    /\ position = NoPosition
    /\ lookups = {}
    /\ discovering = FALSE
    /\ discoverErr = FALSE
    /\ market = NoMarket
    /\ protect = NoProtect
    /\ marketErr = FALSE
    /\ reads = {}
    /\ arming = FALSE
    /\ gapped = FALSE
    /\ jobs = {}
    /\ sent = {}
    /\ debt = InitialDebt
    /\ vaults = {}
    /\ events = 0
    /\ clicks = 0
    /\ moves = 0

Search ==
    \/ \E w \in Wallets : Connect(w)
    \/ Disconnect
    \/ RetryDiscovery
    \/ \E l \in lookups : Found(l) \/ LookupFails(l) \/ LookupIgnored(l)

ByHand ==
    \/ LoadDemoPosition
    \/ \E l \in Loans : PasteObligation(l)
    \/ SimulateGap
    \/ BurstPoll

Reading ==
    \/ \E q \in reads : Deliver(q) \/ ReadFails(q)
    \/ Poll
    \/ Retry

Cards ==
    \/ \E n \in 1 .. MaxAmount : Borrow(n) \/ Repay(n)
    \/ OpenArm
    \/ CloseArm
    \/ \E t \in Triggers : Arm(t)
    \/ \E j \in jobs : SignAndSend(j) \/ JobFails(j)

Chain ==
    \/ \E t \in sent : Land(t) \/ Drop(t)
    \/ \E l \in Loans : KeeperFires(l)

Next == Search \/ ByHand \/ Reading \/ Cards \/ Chain

Spec == Init /\ [][Next]_vars

Receive(kind) ==
    \E q \in reads : /\ q.kind = kind
                     /\ q.loan = position.loan
                     /\ q.owner = position.owner
                     /\ Deliver(q)

\* The timer goes on, every read ends, and one that is tried again and again succeeds.
Fairness ==
    /\ WF_reads(Poll)
    /\ WF_reads(\E q \in reads : Deliver(q) \/ ReadFails(q))
    /\ SF_reads(Receive("market"))
    /\ SF_reads(Receive("protect"))

FairSpec == Spec /\ Fairness

----------------------------------------------------------------------------
(* Properties.                                                             *)

Parties == Wallets \cup {NoWallet}
Positions == [loan : Loans \cup {NoLoan}, owner : Parties, via : {"none", "wallet", "demo", "dev"}]
Reads == [kind : {"market", "protect"}, loan : Loans, owner : Parties, loud : BOOLEAN,
          views : SUBSET [debt : Nat, armed : BOOLEAN]]
Kinds == {"borrow", "repay", "arm"}

\* Every variable has its type; what is asked, signed and sent is always about a loan.
TypeOK ==
    /\ wallet \in Parties
    /\ position \in Positions
    /\ lookups \subseteq [key : Wallets, live : BOOLEAN]
    /\ discovering \in BOOLEAN
    /\ discoverErr \in BOOLEAN
    /\ market \in [loan : Loans \cup {NoLoan}, debt : Nat]
    /\ protect \in [loan : Loans \cup {NoLoan}, owner : Parties, armed : BOOLEAN]
    /\ marketErr \in BOOLEAN
    /\ \A q \in reads : q \in Reads
    /\ arming \in BOOLEAN
    /\ gapped \in BOOLEAN
    /\ jobs \subseteq [id : Nat, kind : Kinds, user : Wallets, at : Positions, amount : Nat]
    /\ sent \subseteq [id : Nat, kind : Kinds, user : Wallets, loan : Loans, amount : Nat]
    /\ debt \in [Loans -> Nat]
    /\ vaults \subseteq [user : Wallets, loan : Loans, trigger : Nat]
    /\ events \in 0 .. MaxEvents
    /\ clicks \in 0 .. MaxClicks
    /\ moves \in 0 .. MaxMoves

\* Dashboard.tsx, "set by wallet discovery (owner = connected wallet)": a position that the
\* search loads is a loan of the wallet connected at that moment, however slow the search
\* and whatever wallets came and went since it was asked.
DiscoveryFollowsWallet ==
    [][(position' # position /\ position'.via = "wallet") =>
        position'.owner = wallet' /\ OwnerOf[position'.loan] = wallet']_vars

\* "On disconnect, clear any wallet-loaded position": none is loaded without a wallet, also
\* when the search was under way at the disconnect.
WalletLoanNeedsWallet == position.via = "wallet" => wallet # NoWallet

\* The routes "never fake success": armed is shown only of a vault that is on the chain;
\* an arming that was signed but never landed does not count.
ShownArmedIsArmed == protect.armed => Armed(protect.owner, protect.loan)

\* E-6, "keep the liveness line + loan health fresh": a position with an owner that stays
\* loaded is in the end the one shown, as it is on the chain; no late answer of an earlier
\* position or an earlier state stays.
UpToDate ==
    /\ market = [loan |-> position.loan, debt |-> debt[position.loan]]
    /\ protect = [loan |-> position.loan, owner |-> position.owner,
                  armed |-> Armed(position.owner, position.loan)]
PageCatchesUp ==
    \A l \in Loans :
        <>[](position.loan = l /\ position.owner # NoWallet) => <>[](position.loan = l /\ UpToDate)
=============================================================================
