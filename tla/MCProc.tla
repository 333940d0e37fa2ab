------------------------------- MODULE MCProc -------------------------------
EXTENDS Proc, TLC
CONSTANTS c1, c2
Symmetry == Permutations(CPUs)
=============================================================================
