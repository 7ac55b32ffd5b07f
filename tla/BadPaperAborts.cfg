\* A forced extraction deletes the evidence between detection and save.
SPECIFICATION Spec
CONSTANTS
    r1 = r1
    r2 = r2
    p1 = p1
    p2 = p2
    Runs = {r1}
    Papers = {p1, p2}
    Cites <- MCCites
    MaxDrafts = 1
    MaxResets = 1
    None = None
INVARIANT NoPaperAborts
CHECK_DEADLOCK FALSE
