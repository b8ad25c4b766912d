----------------------------- MODULE MCReadApi -----------------------------
EXTENDS ReadApi, TLC

CONSTANTS c1, c2
=============================================================================
