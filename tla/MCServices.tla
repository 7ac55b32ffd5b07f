------------------------------ MODULE MCServices ------------------------------
(***************************************************************************)
(* The parts of the system that share no state with one another while they *)
(* work: what they meet in, the rows of papers and claims, other modules   *)
(* model.  Each behavior is one of them at work, with the others idle.     *)
(***************************************************************************)
EXTENDS AnnotationFiles, SavedQuestions, NougatRepair, SourceRequests,
        CorpusRepairs, GapDetection, ClaimSelection, ClaimGates, LocalModel, TLC

CONSTANTS
    Areas,                       \* the parts that are looked at
    r1, r2, r3, f1, f2,          \* requests and files of annotations
    a1, a2, q0, q1, m1, m2, k1, k2, s1, s2, s3,
    x1, x2, x3, x4,              \* papers of a source
    o1, o2,                      \* operators
    g1, g2, g3, g4, p1, p2, p3,  \* gap claims, and papers of a neighborhood
    w1, w2                       \* words of an idea

VARIABLE area

Listing1 == <<f1, f2>>
Repeats1 == (k1 :> {m1} @@ k2 :> {m1, m2})
Cited1 == (s1 :> {1} @@ s2 :> {1} @@ s3 :> {2})
OldPapers1 == <<x1, x2, x3>>
Shape1 == (x1 :> "good" @@ x2 :> "good" @@ x3 :> "untitled" @@ x4 :> "null")
PaperOf1 == (g1 :> p1 @@ g2 :> p2 @@ g3 :> p3 @@ g4 :> p1)
Kinds1 == {[strong |-> TRUE, field |-> TRUE, resolved |-> FALSE],
           [strong |-> TRUE, field |-> FALSE, resolved |-> TRUE]}
CueFields1 == <<"method", "dataset">>
AbstractText1 == <<"s1", "s2">>
SectionTexts1 == [methods |-> <<"s3", "s1">>]
Vocabulary1 == {"remains open", "future work", "metric", "applied", "useful", "actor", "context",
                "sector", "break", "e.g.", "problem"}


-----------------------------------------------------------------------------

\* One way the parts with several can begin, for the behaviors they are idle in.
NoQuestion ==
    LET c == CHOOSE c \in Collections : TRUE
    IN  /\ titles = [d \in Collections |-> IF d = c THEN CHOOSE t \in Titles : TRUE ELSE Absent]
        /\ saved = [q \in Questions |-> IF q = OldQuestion THEN QuestionRow(c, {}) ELSE Absent]
        /\ foundClaims = {}

NoText == original = <<>>

NoRequest == asked = "arxiv"

NoRepair == abstract = 0 /\ section = 0 /\ rejected = {} /\ gapStatus = "pending"

\* The gap differs only where the abstract needs no repair.
OneRepair ==
    \/ abstract = 0 /\ section \in {0, 1}
    \/ abstract \in Forms /\ section = 1 /\ gapStatus = "pending"

NoIdea == found = 0 /\ idea = <<>> /\ isOn = FALSE

\* What the stages of the model do to the text and to applications is apart.
OneStage == found = 0 \/ idea = <<>>

NoSelection == present = {} /\ shape = [s \in AllSentences |-> "sentence"]

Init ==
    /\ area \in Areas
    /\ IF area = "questions" THEN TRUE ELSE NoQuestion
    /\ IF area = "markdown" THEN TRUE ELSE NoText
    /\ IF area = "requests" THEN TRUE ELSE NoRequest
    /\ IF area = "repairs" THEN OneRepair ELSE NoRepair
    /\ IF area = "selection" THEN TRUE ELSE NoSelection
    /\ IF area = "model" THEN OneStage ELSE NoIdea
    /\ FilesInit
    /\ QaInit
    /\ RepairInit
    /\ RequestsInit
    /\ RepairsInit
    /\ GapsInit
    /\ SelectionInit
    /\ GatesInit
    /\ ModelInit

Next ==
    /\ UNCHANGED area
    /\ \/ /\ area = "files"
          /\ FilesNext
          /\ UNCHANGED <<qaVars, repairVars, requestVars, repairVariables, gapVars, selectionVars, gateVars, modelVars>>
       \/ /\ area = "questions"
          /\ QaNext
          /\ UNCHANGED <<filesVars, repairVars, requestVars, repairVariables, gapVars, selectionVars, gateVars, modelVars>>
       \/ /\ area = "markdown"
          /\ RepairNext
          /\ UNCHANGED <<filesVars, qaVars, requestVars, repairVariables, gapVars, selectionVars, gateVars, modelVars>>
       \/ /\ area = "requests"
          /\ RequestsNext
          /\ UNCHANGED <<filesVars, qaVars, repairVars, repairVariables, gapVars, selectionVars, gateVars, modelVars>>
       \/ /\ area = "repairs"
          /\ RepairsNext
          /\ UNCHANGED <<filesVars, qaVars, repairVars, requestVars, gapVars, selectionVars, gateVars, modelVars>>
       \/ /\ area = "gaps"
          /\ GapsNext
          /\ UNCHANGED <<filesVars, qaVars, repairVars, requestVars, repairVariables, selectionVars, gateVars, modelVars>>
       \/ /\ area = "selection"
          /\ SelectionNext
          /\ UNCHANGED <<filesVars, qaVars, repairVars, requestVars, repairVariables, gapVars, gateVars, modelVars>>
       \/ /\ area = "gates"
          /\ GatesNext
          /\ UNCHANGED <<filesVars, qaVars, repairVars, requestVars, repairVariables, gapVars, selectionVars, modelVars>>
       \/ /\ area = "model"
          /\ ModelNext
          /\ UNCHANGED <<filesVars, qaVars, repairVars, requestVars, repairVariables, gapVars, selectionVars, gateVars>>

=============================================================================
