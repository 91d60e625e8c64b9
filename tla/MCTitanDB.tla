----------------------------- MODULE MCTitanDB -----------------------------
(***************************************************************************)
(* TitanDB for TLC.                                                        *)
(***************************************************************************)
EXTENDS TitanDB, TLC

Symmetry == Permutations(Key) \cup Permutations(GCJob)
=============================================================================
