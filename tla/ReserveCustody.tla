--------------------------- MODULE ReserveCustody ---------------------------
(***************************************************************************)
(* What the vault program promises its users, without transactions,        *)
(* instructions or keepers: every vault holds some USDC of its owner, and  *)
(* without the owner's consent it gives up something only while the debt   *)
(* of the obligation it is bound to is paid down: by as much if nobody     *)
(* stands between the program and the one who settles.                     *)
(***************************************************************************)
EXTENDS Integers

CONSTANTS Owners, Obligations

VARIABLES
    held,       \* held[v]: what vault v holds
    repaid,     \* repaid[o]: what has ever been paid off the debt of obligation o
    consent,    \* the owners who have agreed to the next settlement
    direct      \* whether the next settlement is made without other programs

Vaults == [owner : Owners, obligation : Obligations]

Init ==
    /\ held = [v \in Vaults |-> 0]
    /\ repaid = [o \in Obligations |-> 0]
    /\ consent = {}
    /\ direct = TRUE

\* Owners give their consent, or it lapses with nothing settled.
Agree ==
    /\ consent' \in SUBSET Owners
    /\ direct' \in BOOLEAN
    /\ UNCHANGED <<held, repaid>>

Taken(v) == v.owner \notin consent /\ held'[v] < held[v]

\* What a vault gives up without its owner's consent never leaves its obligation's debt
\* alone.  In a direct settlement all of it is paid off that debt, and at most one vault
\* gives up anything: two vaults on one obligation can never claim the same repayment.
\* Consent is for one settlement.
Settle ==
    /\ held' \in [Vaults -> Nat]
    /\ repaid' \in [Obligations -> Nat]
    /\ \A o \in Obligations : repaid[o] <= repaid'[o]
    /\ \A v \in Vaults : Taken(v) => repaid[v.obligation] < repaid'[v.obligation]
    /\ direct = TRUE =>
        /\ \A v \in Vaults : Taken(v) =>
            held[v] - held'[v] <= repaid'[v.obligation] - repaid[v.obligation]
        /\ \A v, w \in Vaults : Taken(v) /\ Taken(w) => v = w
    /\ consent' = {}
    /\ direct' = TRUE

Next == Agree \/ Settle

Spec == Init /\ [][Next]_<<held, repaid, consent, direct>>
============================================================================
