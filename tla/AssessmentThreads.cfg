\* Two requests at a time on a thread of up to two reports.  A system whose
\* thread and project are deleted may stop.
SPECIFICATION Spec
CONSTANTS
    r1 = r1
    r2 = r2
    e1 = e1
    e2 = e2
    a1 = a1
    a2 = a2
    Requests = {r1, r2}
    Reports = {a1, a2}
    Evidence = {e1, e2}
    None = None
SYMMETRY Symmetric
INVARIANTS
    LinksFollowOpportunities
PROPERTY
    KeepsItsPromise
CHECK_DEADLOCK FALSE
