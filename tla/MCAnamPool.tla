----------------------------- MODULE MCAnamPool -----------------------------
EXTENDS AnamPool, TLC
Symmetry == Permutations(Thread)
=============================================================================
