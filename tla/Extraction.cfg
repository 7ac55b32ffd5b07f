\* Two runs over a paper with two candidates, and an assessment: what a gap
\* cites is the case that claims all it has read and is never deleted.
\* Runs end and assessments are built once, so the system may stop.
SPECIFICATION Spec
CONSTANTS
    r1 = r1
    r2 = r2
    r3 = r3
    p1 = p1
    p2 = p2
    g1 = g1
    a1 = a1
    Runs = {r1, r2}
    Papers = {p1}
    Candidates <- MCCandidates
    Gaps = {}
    Assessments = {a1}
    MaxReviews = 1
    MaxRevoked = 1
    None = None
CHECK_DEADLOCK FALSE
SYMMETRY Symmetric
INVARIANTS
    PapersAreWhole
    DuplicatesNeedOverlap
    CitationsComeTogether
