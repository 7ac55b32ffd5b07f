------------------------- MODULE MCAssessmentThreads -------------------------
EXTENDS AssessmentThreads, TLC

CONSTANTS r1, r2, e1, e2, a1, a2

\* No definition tells two requests, or two pieces of evidence, apart.
Symmetric == Permutations(Requests) \cup Permutations(Evidence)
=============================================================================
