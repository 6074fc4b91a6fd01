--------------------------- MODULE MCInvoiceNumbers ---------------------------
(* InvoiceNumbers on a small instance, for TLC.                             *)
EXTENDS InvoiceNumbers, TLC

\* Requests differ in nothing but their identity.
Symmetry == Permutations(Requests)
=============================================================================
