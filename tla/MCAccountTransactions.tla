------------------------- MODULE MCAccountTransactions -------------------------
\* AccountTransactions for TLC.
EXTENDS AccountTransactions, TLC

MCSymmetry == Permutations(Accounts) \cup Permutations(Sessions) \cup Permutations(Tokens)
================================================================================
