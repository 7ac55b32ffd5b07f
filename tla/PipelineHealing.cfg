SPECIFICATION FairSpec
CONSTANTS
    extraction = extraction
    retrieval_eval = retrieval_eval
    p1 = p1  p2 = p2  p3 = p3
    i1 = i1  i2 = i2
    h1 = h1  h2 = h2
    Keys = {extraction}
    RunKeys = {extraction}
    Procs = {p1, p2}
    ShellProcs = {}
    KeyOf <- MCKeyOf
    Pids = {i1, i2}
    Handlers = {h1, h2}
    Triggerers = {h1, h2}
    Stoppers = {h2}
    Pollers = {h2}
    MaxRestarts = 0
    None = None
INVARIANT OneChildPerKey
PROPERTIES StaleRowsHeal RegisteredChildrenAreReaped
CHECK_DEADLOCK FALSE
