---------------------------- MODULE MCLoginThrottle ----------------------------
\* LoginThrottle for TLC.
EXTENDS LoginThrottle, TLC

MCSymmetry == Permutations(Attempts)
================================================================================
