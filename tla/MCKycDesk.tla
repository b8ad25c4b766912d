------------------------------ MODULE MCKycDesk ------------------------------
EXTENDS KycDesk, TLC

CONSTANTS w1, w2, i1

\* w2 issued both bonds, w1 is anybody.
IssuerOf == [b \in Bonds |-> w2]
=============================================================================
