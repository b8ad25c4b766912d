------------------------------ MODULE MCATSBond ------------------------------
EXTENDS ComplianceView, TLC

Symmetry == Permutations(Holders)

\* A bound: the API's answers read neither a balance nor a snapshot, so the desk is
\* asked about a token nobody holds yet, and the token moves while nobody asks.
AskedFirst ==
  \/ status = "Active" /\ steady = Ttl /\ entry = None /\ question = None
  \/ supply = 0 /\ currentSnapshotId = 0 /\ ~mature
=============================================================================
