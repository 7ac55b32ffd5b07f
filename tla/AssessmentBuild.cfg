\* Two papers with eight claims between them, at distances on both sides of
\* every threshold, and one change of the corpus while the report is built.
SPECIFICATION Spec
CONSTANTS
    p1 = p1
    p2 = p2
    gap1 = gap1
    method1 = method1
    use1 = use1
    gap2 = gap2
    limit1 = limit1
    use2 = use2
    limit2 = limit2
    method2 = method2
    Papers = {p1, p2}
    Claims <- MCClaims
    PaperOf <- MCPaperOf
    TypeOf <- MCTypeOf
    Strong = {gap1}
    Broken = {limit2}
    Distances = {25, 38, 66}
    Dimensions = {d1, d2}
    d1 = d1
    d2 = d2
    TopN = 1
    MinCluster = 2
    MaxChanges = 1
    None = None
INVARIANTS
    OutOfCorpusIsSilent
    HighPriorityIsTheException
CHECK_DEADLOCK FALSE
