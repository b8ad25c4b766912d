------------------------------ MODULE MCRelayer ------------------------------
EXTENDS Relayer, TLC

Symmetry == Permutations(Files) \cup Permutations(Ticks)
=============================================================================
