\* Three runs of any kind; runs end, so the system may stop.
SPECIFICATION Spec
CONSTANTS
    r1 = r1
    r2 = r2
    r3 = r3
    None = None
    arxiv = arxiv
    core = core
    bare = bare
    long = long
    blank = blank
    Runs = {r1, r2, r3}
    Papers = {arxiv, core, bare}
    Early = {arxiv, bare}
    OpenAccess = {core}
    Core = {core}
    Linked = {arxiv}
    HasCoreKey = TRUE
    Untitled = {bare}
    Texts = {long, blank}
    Batches <- MCBatches
    BatchSize = 2
    Limits = {3}
CHECK_DEADLOCK FALSE
SYMMETRY Symmetric
INVARIANTS
    CountsAddUp
    ChunksAreWhole
    StaleNeedsRefetch
PROPERTIES
    RebuildIsExact
    CompletionMeansCovered
