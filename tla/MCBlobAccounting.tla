-------------------------- MODULE MCBlobAccounting --------------------------
(***************************************************************************)
(* BlobAccounting for TLC.                                                 *)
(***************************************************************************)
EXTENDS BlobAccounting, TLC

Symmetry == Permutations(Sst)
=============================================================================
