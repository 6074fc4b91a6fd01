---------------------------- MODULE MCReaderAccess ----------------------------
(***************************************************************************)
(* An instance of ReaderAccess for TLC.  Stories, pages and publications   *)
(* are only told apart.                                                    *)
(***************************************************************************)
EXTENDS ReaderAccess, TLC

Symmetry == Permutations(Stories) \cup Permutations(Pages)
=============================================================================
