---------------------------- MODULE MCBucketTree ----------------------------
(***************************************************************************)
(* BucketTree for TLC: callers and memories are interchangeable.           *)
(***************************************************************************)
EXTENDS BucketTree, TLC

Symmetry == Permutations(Procs) \cup Permutations(Memories)
=============================================================================
