------------------------------- MODULE MCLog --------------------------------
(* Log with model values for threads, blocks and contents. *)
EXTENDS Log, TLC

CONSTANTS t1, t2, t3, b1, b2, b3, v1, v2

Symmetry == Permutations(Threads) \cup Permutations(Blocks) \cup Permutations(Contents)
=============================================================================
