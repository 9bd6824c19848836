--------------------------- MODULE MCVaultProgram ---------------------------
(***************************************************************************)
(* Two owners whose vaults are bound to the same Kamino obligation, and a  *)
(* Save vault of alice's, all armed with the same keeper: every            *)
(* transaction of up to three releases and repay bundles, in any order and *)
(* of any amounts, is submitted against them, with the releases at the top *)
(* level or the last of them called by another program, beside armings     *)
(* (two of them with a market id that is not the loan's), top-ups,         *)
(* reclaims, borrows and interest.                                         *)
(***************************************************************************)
EXTENDS VaultProgram, FiniteSets

MCOwners == {"alice", "bob"}
MCParties == MCOwners \cup {"keeper"}
MCAccounts == {"aliceUsdc", "bobUsdc", "keeperUsdc"}
MCHolderOf == [a \in MCAccounts |-> CASE a = "aliceUsdc" -> "alice"
                                      [] a = "bobUsdc" -> "bob"
                                      [] a = "keeperUsdc" -> "keeper"]
\* "ob" is a Kamino loan, "saveOb" a Save loan of alice's with two borrows.
MCMarketOf == [o \in {"ob", "saveOb"} |-> IF o = "ob" THEN 0 ELSE 1]
MCInitialWallet == [a \in MCAccounts |-> CASE a = "aliceUsdc" -> 3
                                           [] a = "bobUsdc" -> 2
                                           [] a = "keeperUsdc" -> 1]
MCInitialDebt == [o \in {"ob", "saveOb"} |->
                    [r \in {"usdc", "sol"} |-> IF o = "saveOb" THEN 1
                                       ELSE IF r = "usdc" THEN 2 ELSE 0]]

V(o) == [owner |-> o, obligation |-> "ob"]
SaveVault == [owner |-> "alice", obligation |-> "saveOb"]

\* app/src/lib/server/vault.ts buildArmIxs: init and fund in one transaction.
ArmIn(v, market, cap, amount) ==
    [ixs |-> << [op |-> "init_vault", vault |-> v, keeper |-> "keeper",
                 cap |-> cap, market |-> market],
                [op |-> "fund_reserve", vault |-> v, from |-> v.owner \o "Usdc",
                 amount |-> amount] >>,
     signers |-> {v.owner}, calls |-> {}]
Arm(o, cap, amount) == ArmIn(V(o), 0, cap, amount)

Release(o, amount) == << [op |-> "release_to_keeper", vault |-> V(o), to |-> "keeperUsdc",
                          amount |-> amount] >>

\* Every repay brings its own refresh.
RepayBundle(from, amount) ==
    << [op |-> "refresh", obligation |-> "ob"],
       [op |-> "repay", market |-> 0, obligation |-> "ob", reserve |-> "usdc",
        from |-> from, amount |-> amount] >>

Pieces == {Release(o, amount) : o \in MCOwners, amount \in {1, 2}}
          \cup {RepayBundle("keeperUsdc", amount) : amount \in {1, 2}}
          \cup {RepayBundle("bobUsdc", 1)}
RepayAll == RepayBundle("keeperUsdc", MaxU64)

\* Bodies of several pieces have a release and a repay among them; a repay of all there is
\* comes alone or beside one more piece.
Bodies == Pieces \cup {RepayAll}
          \cup {b \in {p \o q : p, q \in Pieces \cup {RepayAll}}
                      \cup {p \o q \o r : p, q, r \in Pieces} :
                \E i, j \in DOMAIN b : IsSelfRelease(b[i]) /\ b[j].op = "repay"}

SignersOf(ixs) ==
    {"keeper"} \cup (IF \E i \in DOMAIN ixs : ixs[i].op = "repay" /\ ixs[i].from = "bobUsdc"
                     THEN {"bob"} ELSE {})

\* The keeper submits b, with all of it at the top level, or with its last release called by
\* another program, if it has several or is the release of a body of one bundle.
Submissions(b) ==
    LET releases == {k \in DOMAIN b : IsSelfRelease(b[k])}
        called == IF Cardinality(releases) > 1 \/ Len(b) <= 3
                  THEN {k \in releases : \A j \in releases : j <= k}
                  ELSE {}
    IN  {[ixs |-> b, signers |-> SignersOf(b), calls |-> c] : c \in {{}, called}}

\* scripts/save-seed-fork.ts, scripts/reclaim-fork.ts: a fire of the Save vault at either
\* reserve, the owner taking the reserve back, and borrowing more.
SaveFire(r) ==
    << [op |-> "release_to_keeper", vault |-> SaveVault, to |-> "keeperUsdc", amount |-> 1],
       [op |-> "refresh", obligation |-> "saveOb"],
       [op |-> "repay", market |-> 1, obligation |-> "saveOb", reserve |-> r,
        from |-> "keeperUsdc", amount |-> 1] >>
ReclaimOf(v) == << [op |-> "reclaim", vault |-> v, to |-> "aliceUsdc", amount |-> 1] >>
BorrowMore == << [op |-> "refresh", obligation |-> "ob"],
                 [op |-> "borrow", obligation |-> "ob", reserve |-> "usdc",
                  to |-> "aliceUsdc", amount |-> 1] >>
ReleaseRepay == << [op |-> "release_repay", vault |-> V("alice"), amount |-> 1] >>

MCTransactions ==
    {Arm("alice", cap, 3) : cap \in {1, 2}} \cup {Arm("bob", 2, 1)}
    \cup {ArmIn(SaveVault, market, 1, 1) : market \in {0, 1, 2}}
    \cup UNION {Submissions(b) : b \in Bodies \cup {SaveFire("usdc"), SaveFire("sol"),
                                                  ReleaseRepay}}
    \cup {[ixs |-> b, signers |-> {"alice"}, calls |-> {}] :
            b \in {BorrowMore, ReclaimOf(V("alice")), ReclaimOf(SaveVault)}}
============================================================================
