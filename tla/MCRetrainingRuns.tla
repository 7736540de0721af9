----------------------------- MODULE MCRetrainingRuns -----------------------------
\* RetrainingRuns for TLC: two runs, two workers.
EXTENDS RetrainingRuns, TLC

MCSymmetry == Permutations(Workers)
================================================================================
