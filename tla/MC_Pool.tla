------------------------------ MODULE MC_Pool ------------------------------
(***************************************************************************)
(* LRUKPool, with BufferPool inside it, for TLC.                           *)
(***************************************************************************)
EXTENDS LRUKPool, TLC

Symmetry == Permutations(Thread) \cup Permutations(Frame) \cup Permutations(Data)
=============================================================================
