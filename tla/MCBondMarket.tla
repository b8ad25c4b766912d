---------------------------- MODULE MCBondMarket ----------------------------
EXTENDS BookView, TLC

CONSTANTS a1, a2

CashEach == [a \in Accounts |-> 3]
BondsEach == [a \in Accounts |-> 2]
AllEligible == {Accounts}
OneOrAll == {Accounts, {a1}}
=============================================================================
