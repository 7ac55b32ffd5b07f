\* One paper, reviewed evidence, and a forced run.
SPECIFICATION Spec
CONSTANTS
    r1 = r1
    r2 = r2
    r3 = r3
    p1 = p1
    p2 = p2
    g1 = g1
    a1 = a1
    Runs = {r1, r2}
    Papers = {p1}
    Candidates <- MCCandidates
    Gaps = {}
    Assessments = {}
    MaxReviews = 1
    MaxRevoked = 0
    None = None
CHECK_DEADLOCK FALSE
SYMMETRY Symmetric
INVARIANTS
    ResetClearsTheWay
