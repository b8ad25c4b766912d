------------------------------ MODULE MCTxDesk ------------------------------
EXTENDS TxDesk, TLC
=============================================================================
