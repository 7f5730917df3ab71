----------------------------- MODULE MCPurchase -----------------------------
(***************************************************************************)
(* A small instance of Purchase for TLC.                                   *)
(***************************************************************************)
EXTENDS Purchase, TLC

CONSTANTS r1, r2, r3, a1, a2

\* Two requests of one user, one of another.
TwoUsers == (r1 :> a1) @@ (r2 :> a1) @@ (r3 :> a2)

=============================================================================
