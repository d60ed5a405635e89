-------------------------- MODULE MCRandomContract --------------------------
EXTENDS RandomContract, TLC

Symmetry == Permutations(Providers) \cup Permutations(Values)
=============================================================================
