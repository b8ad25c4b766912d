-------------------------- MODULE MCBondLifecycle --------------------------
EXTENDS CouponView, TLC

CONSTANTS b1, b2

Symmetry == Permutations(Holders)
OneEach == [h \in Holders |-> 1]

\* b1 can pay both its coupons, or one and the principal; b2 only some principal.
RichAndPoor == (b1 :> 6) @@ (b2 :> 1)

\* b1's token is paused for a while, its holders without KYC.
Open == [paused |-> FALSE, kyc |-> Holders]
Closed == [paused |-> TRUE, kyc |-> {}]
Unruly == [b \in Bonds |-> IF b = b1 THEN {Open, Closed} ELSE {Open}]
Calm == [b \in Bonds |-> {Open}]
Plenty == [b \in Bonds |-> 5]
=============================================================================
