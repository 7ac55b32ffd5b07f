---------------------------- MODULE MCReviewMirror ----------------------------
EXTENDS ReviewMirror, TLC

CONSTANTS g1, a1, t1, t2, t3

MCTransactions == {t1, t2, t3}
Symmetric == Permutations(MCTransactions)
=============================================================================
