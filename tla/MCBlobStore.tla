---------------------------- MODULE MCBlobStore ----------------------------
(***************************************************************************)
(* BlobStore for TLC: two processes that share a directory, two ids with   *)
(* two representations each, every failure at any moment.                  *)
(***************************************************************************)
EXTENDS BlobStore, TLC

Symmetry == Permutations(Procs) \cup Permutations(Ids) \cup Permutations(Reps)
=============================================================================
