\* Two runs of any kind, on two papers that cite each other.
SPECIFICATION Spec
CONSTANTS
    r1 = r1
    r2 = r2
    p1 = p1
    p2 = p2
    Runs = {r1, r2}
    Papers = {p1, p2}
    Cites <- MCCites
    MaxDrafts = 2
    MaxResets = 1
    None = None
CONSTRAINT OneKind
SYMMETRY Symmetric
INVARIANTS
    RowsTellWhatIsStored
    RepeatsHaveAReason
    CoveredMeansFetched
    
CHECK_DEADLOCK FALSE
