----------------------------- MODULE MCTriageIngest -----------------------------
\* TriageIngest for TLC: two lines of one transaction, or of two.
EXTENDS TriageIngest, TLC

CONSTANTS e1, e2, t1, t2

MCTransactionOf == (e1 :> t1) @@ (e2 :> t1)
MCTwoTransactions == (e1 :> t1) @@ (e2 :> t2)
MCSymmetry == Permutations(Servers)
================================================================================
