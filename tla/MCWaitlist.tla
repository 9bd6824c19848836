----------------------------- MODULE MCWaitlist -----------------------------
(***************************************************************************)
(* One address with two spellings, another one, and a form that is not an  *)
(* address.                                                                *)
(***************************************************************************)
EXTENDS Waitlist

MCTyped == [b \in Browsers |-> IF b = "b1" THEN {"ann", "Ann", "bad"} ELSE {"bob"}]
MCNormal == [f \in Forms |-> IF f = "Ann" THEN "ann" ELSE IF f = "bad" THEN Invalid ELSE f]
=============================================================================
