----------------------------- MODULE MCExtraction -----------------------------
EXTENDS Extraction, TLC

CONSTANTS r1, r2, r3, p1, p2, g1, a1

MCCandidates == [p \in Papers |-> 2]
Symmetric == Permutations(Runs)
===============================================================================
