--------------------------- MODULE MCVerdictPath ---------------------------
EXTENDS RiskView, TLC

Symmetry == Permutations(Runs) \cup Permutations(Bonds)
=============================================================================
