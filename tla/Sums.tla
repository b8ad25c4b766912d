--------------------------------- MODULE Sums ---------------------------------
(***************************************************************************)
(* Sums over finite sets: of balances, pools, shares.  What is summed is a *)
(* function and no operator, so that theorems about sums (SumTheorems) can *)
(* be cited for any of them.                                               *)
(***************************************************************************)
EXTENDS Integers, FiniteSets, FiniteSetsExt

SumOver(f, S) == MapThenSumSet(LAMBDA x : f[x], S)
===============================================================================
