\* One gap and one assessment, three reviews at a time.
SPECIFICATION Spec
CONSTANTS
    Gaps = {g1}
    Assessments = {a1}
    g1 = g1
    a1 = a1
    t1 = t1
    t2 = t2
    t3 = t3
    Transactions = {t1, t2, t3}
    None = None
SYMMETRY Symmetric
INVARIANTS
    MirrorAgrees
