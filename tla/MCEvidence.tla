----------------------------- MODULE MCEvidence -----------------------------
(***************************************************************************)
(* The program as it is, and one that lets the repay-all sentinel through  *)
(* and refuses the honest double repay.                                    *)
(***************************************************************************)
EXTENDS Evidence

MCBuilds == {{}, {"C1", "DH-6b"}}
=============================================================================
