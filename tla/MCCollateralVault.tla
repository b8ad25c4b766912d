-------------------------- MODULE MCCollateralVault --------------------------
EXTENDS CollateralView, TLC

CONSTANTS h1, h2

TwoAndOne == (h1 :> 2) @@ (h2 :> 1)
Symmetry == Permutations(Bonds)
=============================================================================
