------------------------------- MODULE MC_WAL -------------------------------
(* Instances of WALEngine for TLC; the bounds are in the .cfg files. *)
EXTENDS WALEngine, TLC

Symmetry == Permutations(Key) \cup Permutations(Value)
=============================================================================
