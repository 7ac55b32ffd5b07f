\* The parts that meet only in the database, one at work in each behavior:
\* three requests on two annotation files, two on two collections, texts of
\* at most six lines, two processes on a source of four papers, two operators
\* with four scripts, four gap claims of three papers, one paper of four
\* sentences, sentences with at most four marks, and answers of at most four
\* lines about ideas of at most six tokens or two applications.
INIT Init
NEXT Next
CONSTANTS
    r1 = r1  r2 = r2  r3 = r3  f1 = f1  f2 = f2  a1 = a1
    a2 = a2  q0 = q0  q1 = q1  m1 = m1  m2 = m2
    k1 = k1  k2 = k2  s1 = s1  s2 = s2  s3 = s3  x1 = x1
    x2 = x2  x3 = x3  x4 = x4  o1 = o1  o2 = o2  g1 = g1
    g2 = g2  g3 = g3  g4 = g4  p1 = p1  p2 = p2  p3 = p3  w1 = w1  w2 = w2
    Areas = {"files", "questions", "markdown", "requests", "repairs", "gaps", "selection", "gates", "model"}
    Requests = {r1, r2, r3}
    Listing <- Listing1
    Named = {f1}
    Fields = {"x", "y"}
    Texts = {"t"}
    Blank = Blank
    MaxStops = 1
    Askers = {a1, a2}
    Collections = {"c1", "c2"}
    Titles = {"t1"}
    Questions = {q0, q1}
    OldQuestion = q0
    Claims = {m1, m2}
    Passages = {k1, k2}
    Repeats <- Repeats1
    TopK = 2
    Summaries = {s1, s2, s3}
    Cited <- Cited1
    MaxResets = 1
    Absent = Absent
    Deleted = Deleted
    MaxLines = 6
    PseudocodeSpans = 2
    Papers = {x1, x2, x3, x4}
    Shape <- Shape1
    OldPapers <- OldPapers1
    FullPage = 2
    MaxDelay = 1
    MaxChanges = 1
    MaxStarts = 2
    Operators = {o1, o2}
    MaxEscapes = 2
    MaxScripts = 4
    MaxRows = 4
    MaxReviews = 1
    GapClaims = {g1, g2, g3, g4}
    PaperOf <- PaperOf1
    OtherPapers = {"p4"}
    Kinds <- Kinds1
    MinClusterSize = 3
    CueFields <- CueFields1
    AbstractText <- AbstractText1
    SectionTexts <- SectionTexts1
    QuoteShapes = {"sentence", "cut"}
    Vocabulary <- Vocabulary1
    MaxMarks = 4
    ContentWords = {w1, w2}
    MaxIdea = 6
    MaxPhraseWords = 2
    MaxDimensions = 2
    MaxFound = 2
    MaxAnswer = 4
INVARIANTS
    LostEditsNeedOverlap
    CitationsFitTheSummary
    TextIsRenderable
    RequestsKeepTheirDistance
    CompletedMeansDelivered
    QuotesMatchTheirPaper
    RecoveredOnce
    BackfillMirrorsTheReview
    EveryPairIsSimilar
    SavedGapsAreOpen
    SharedSentencesAreExcused
    EveryClauseGetsItsChance
    ModelIsHeldToTheText
CHECK_DEADLOCK FALSE
