------------------------------- MODULE MC_LSM -------------------------------
(***************************************************************************)
(* LSMEngine for TLC: the values and the keys are interchangeable.         *)
(***************************************************************************)
EXTENDS LSMEngine, TLC

Symmetry == Permutations(Key) \cup Permutations(Value) \cup Permutations(Client)
=============================================================================
