----------------------------- MODULE MCBookRead -----------------------------
EXTENDS BookRead

CONSTANTS a1

CashEach == [a \in Accounts |-> 6]
BondsEach == [a \in Accounts |-> 3]
AllEligible == {Accounts}
=============================================================================
