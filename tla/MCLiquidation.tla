--------------------------- MODULE MCLiquidation ---------------------------
EXTENDS Liquidation, TLC

\* Collateral at a price of 100 against debts from safe to hopeless, reserves of
\* vUSD and vETH from nothing to plenty.
MCLoans == [collateral : {4}, debt : {2, 3, 7}, vusd : {0, 1, 4}, veth : {0, 1, 8}]
=============================================================================
