------------------------- MODULE MCRetrainingDeployment -------------------------
\* RetrainingDeployment for TLC: neither runs nor threads differ.
EXTENDS RetrainingDeployment, TLC

Symmetry == Permutations(Runs) \cup Permutations(Requests)
================================================================================
