----------------------------- MODULE MCPurchases -----------------------------
(* Purchases on a small instance, for TLC.                                  *)
EXTENDS Purchases, TLC

\* Requests differ in nothing but their identity.
Symmetry == Permutations(Requests)
=============================================================================
