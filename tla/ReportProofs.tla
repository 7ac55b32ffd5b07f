------------------------------ MODULE ReportProofs ------------------------------
(***************************************************************************)
(* Proofs about the report of an assessment: its build, for any corpus,    *)
(* distances and changes of the corpus.                                    *)
(***************************************************************************)
EXTENDS AssessmentBuild, FiniteSetTheorems, WellFoundedInduction, TLAPS

-----------------------------------------------------------------------------
(* Natural numbers *)

\* A set of natural numbers that is not empty has a least element.
LEMMA LeastNatural ==
    ASSUME NEW T \in SUBSET Nat, T # {}
    PROVE  \E x \in T : \A y \in T : x <= y
<1> DEFINE less == {ss \in Nat \X Nat : ss[1] < ss[2]}
<1>1. IsWellFoundedOn(less, Nat)
    BY NatLessThanWellFounded DEF OpToRel
<1>2. PICK x \in T : \A y \in T : ~(<<y, x>> \in less)
    BY <1>1, WFMin
<1>3. ASSUME NEW y \in T
      PROVE  x <= y
    <2>1. <<y, x>> \in Nat \X Nat /\ <<y, x>> \notin less
        BY <1>2
    <2>2. ~(y < x)
        BY <2>1
    <2> QED
        BY <2>2
<1> QED
    BY <1>3

-----------------------------------------------------------------------------
(* Novelty *)

\* Some paper is nearest.
LEMMA NearestExists ==
    ASSUME TypeOK, NEW ps \in SUBSET DOMAIN dist, ps # {}
    PROVE  /\ Nearest(ps) # {}
           /\ \A p \in Nearest(ps) : p \in ps /\ dist[p] \in Nat
                                     /\ \A q \in ps : dist[p] <= dist[q]
<1>1. \A p \in DOMAIN dist : dist[p] \in Nat
    BY DistancesAreNatural DEF TypeOK
<1> DEFINE far == {dist[p] : p \in ps}
<1>2. far \in SUBSET Nat /\ far # {}
    BY <1>1
<1>3. PICK d \in far : \A e \in far : d <= e
    BY <1>2, LeastNatural
<1> QED
    BY <1>1, <1>3 DEF Nearest

\* A near paper with a claim makes the level low, whatever is covered.
LEMMA NearPaperCapsNovelty ==
    ASSUME TypeOK, NEW S \in SUBSET Claims, NEW cov, PapersOf(S) \subseteq DOMAIN dist,
           NoveltyLevel(S, cov) \in {"medium", "high"}
    PROVE  PapersOf(S) \cap Within(Near) = {}
<1>1. S # {}
    BY DEF NoveltyLevel
<1>2. PapersOf(S) # {}
    BY <1>1 DEF PapersOf
<1> DEFINE n == CHOOSE p \in Nearest(PapersOf(S)) : TRUE
<1>3. n \in Nearest(PapersOf(S))
    BY <1>2, NearestExists
<1>4. dist[n] \in Nat /\ \A q \in PapersOf(S) : dist[n] <= dist[q]
    BY <1>2, <1>3, NearestExists
<1>5. ~(dist[n] <= Near)
    BY <1>1 DEF NoveltyLevel, FromNearestDistance
<1>6. \A q \in PapersOf(S) : dist[q] \in Nat
    BY DistancesAreNatural DEF TypeOK
<1> QED
    BY <1>4, <1>5, <1>6 DEF Within, Near

\* Novelty is one of the levels.
LEMMA NoveltyLevelType ==
    ASSUME NEW S, NEW cov
    PROVE  NoveltyLevel(S, cov) \in Levels
BY DEF NoveltyLevel, FromNearestDistance, AggregateFromCoverage, Levels

-----------------------------------------------------------------------------
(* The corpus changes under the build *)

\* Who works on the corpus leaves what the build has read and written.
LEMMA ChangeKeepsTheReport ==
    ASSUME IInv, Change, claims' \subseteq Claims,
           row' \in [Claims -> {"new", "here", "gone"}],
           gap' \in [seed : Papers \cup {None}, cites : SUBSET Claims]
    PROVE  IInv'
<1>1. TypeOK'
    BY DEF IInv, TypeOK, Change
<1>2. NothingConcludedYet' /\ NearMeansLow'
    BY DEF IInv, Change, NothingConcludedYet, NearMeansLow, PapersOf, Within
<1>3. SeenIsTheCorpus'
    BY DEF IInv, Change, SeenIsTheCorpus, PapersOf, TypeOK
<1>4. GapsAreSeen'
    BY DEF IInv, Change, GapsAreSeen, PapersOf, Within, TypeOK
<1>5. ~ Saved'
    BY DEF Change, Saved
<1> QED
    BY <1>1, <1>2, <1>3, <1>4, <1>5 DEF IInv, OutOfCorpusIsSilent, HighPriorityIsTheException

\* A forced extraction may take claims away at any time.
LEMMA ResetInvariant ==
    ASSUME IInv, Reset
    PROVE  IInv'
<1>1. /\ claims' \subseteq Claims
      /\ row' \in [Claims -> {"new", "here", "gone"}]
      /\ gap' \in [seed : Papers \cup {None}, cites : SUBSET Claims]
    BY DEF IInv, TypeOK, Reset
<1> QED
    BY <1>1, ChangeKeepsTheReport DEF Reset

\* An extraction adds claims.
LEMMA ExtractInvariant ==
    ASSUME IInv, NEW p \in Papers, Extract(p)
    PROVE  IInv'
<1>1. /\ claims' \subseteq Claims
      /\ row' \in [Claims -> {"new", "here", "gone"}]
      /\ gap' \in [seed : Papers \cup {None}, cites : SUBSET Claims]
    BY DEF IInv, TypeOK, Extract
<1> QED
    BY <1>1, ChangeKeepsTheReport DEF Extract

\* A script takes single claims away.
LEMMA RevalidateInvariant ==
    ASSUME IInv, NEW c \in Claims, Revalidate(c)
    PROVE  IInv'
<1>1. /\ claims' \subseteq Claims
      /\ row' \in [Claims -> {"new", "here", "gone"}]
      /\ gap' \in [seed : Papers \cup {None}, cites : SUBSET Claims]
    BY DEF IInv, TypeOK, Revalidate
<1> QED
    BY <1>1, ChangeKeepsTheReport DEF Revalidate

-----------------------------------------------------------------------------
(* The stages of the build *)

\* A stage that only adds a section concludes nothing, and keeps what it
\* leaves alone.
LEMMA SectionInvariant ==
    ASSUME IInv, NEW from, NEW to, Stage(from, to),
           from \in {"gap", "ground", "applications", "feasibility", "synthesis", "risks"},
           to \in {"ground", "applications", "feasibility", "synthesis", "risks", "finish"},
           UNCHANGED <<dist, seen, moved>>, report' \in Reports,
           report'.novelty = report.novelty, report'.verdict = report.verdict,
           report'.confidence = report.confidence, report'.claimed = report.claimed,
           GapsAreSeen'
    PROVE  IInv'
<1>1. TypeOK'
    BY DEF IInv, TypeOK, Stage, corpus, Stages
<1>2. NothingConcludedYet' /\ NearMeansLow'
    BY DEF IInv, Stage, NothingConcludedYet, NearMeansLow, PapersOf, Within
<1>3. SeenIsTheCorpus'
    BY DEF IInv, Stage, corpus, SeenIsTheCorpus, Rows, PapersOf
<1>4. ~ Saved'
    BY DEF Stage, Saved
<1> QED
    BY <1>1, <1>2, <1>3, <1>4 DEF IInv, OutOfCorpusIsSilent, HighPriorityIsTheException

LEMMA RetrieveInvariant ==
    ASSUME IInv, Retrieve
    PROVE  IInv'
<1>1. TypeOK'
    BY DEF IInv, TypeOK, Retrieve, Stage, corpus, Stages
<1>2. pc = "start" /\ pc' = "read" /\ seen' = seen /\ seen = {} /\ report' = report
    BY DEF IInv, SeenIsTheCorpus, Retrieve, Stage
<1>3. PapersOf(seen)' = {}
    BY <1>2 DEF PapersOf
<1>4. NothingConcludedYet' /\ NearMeansLow' /\ SeenIsTheCorpus'
    BY <1>2, <1>3 DEF IInv, NothingConcludedYet, NearMeansLow, SeenIsTheCorpus
<1>5. GapsAreSeen'
    BY <1>2 DEF IInv, GapsAreSeen, Retrieve
<1>6. ~ Saved'
    BY <1>2 DEF Saved
<1> QED
    BY <1>1, <1>4, <1>5, <1>6 DEF IInv, OutOfCorpusIsSilent, HighPriorityIsTheException

LEMMA ReadClaimsInvariant ==
    ASSUME IInv, ReadClaims
    PROVE  IInv'
<1> DEFINE S == Rows(claims, DOMAIN dist, {TypeOf[c] : c \in Claims})
<1>1. /\ pc = "read" /\ pc' = "gap" /\ seen' = S
      /\ UNCHANGED <<corpus, llm, dist, moved>> /\ report \in Reports
    BY DEF IInv, TypeOK, ReadClaims, Stage
<1>2. S \subseteq Claims /\ PapersOf(S) \subseteq DOMAIN dist
    BY DEF IInv, TypeOK, Rows, PapersOf
<1>3. PICK cov, top : report' = AssessedFrom(S, cov, top)
    <2>1. \E cov, top : report' = AssessedFrom(seen', cov, top)
        BY DEF ReadClaims
    <2> HIDE DEF S
    <2> QED
        BY <1>1, <2>1
<1>4. NoveltyLevel(S, cov) \in Levels /\ ExistingSolutions(S) \subseteq Claims
    BY <1>2, NoveltyLevelType DEF ExistingSolutions, Rows
<1>5. report' \in Reports
    <2>1. {c \in S : PaperOf[c] \in top} \in SUBSET Claims
        BY <1>2
    <2> HIDE DEF S
    <2> QED
        BY <1>1, <1>3, <1>4, <2>1 DEF Reports, AssessedFrom
<1>6. /\ report'.novelty = NoveltyLevel(S, cov) /\ report'.verdict = report.verdict
      /\ report'.confidence = report.confidence /\ report'.claimed = report.claimed
      /\ report'.gapSource = report.gapSource /\ report'.gapCites = report.gapCites
      /\ report'.close = report.close
    BY <1>1, <1>3 DEF Reports, AssessedFrom
<1>7. TypeOK'
    BY <1>1, <1>2, <1>5 DEF IInv, TypeOK, corpus, Stages
<1>8. NearMeansLow'
    <2>1. report'.novelty \in {"medium", "high"} => PapersOf(S) \cap Within(Near) = {}
        BY <1>2, <1>6, NearPaperCapsNovelty DEF IInv
    <2>2. Within(Near)' = Within(Near) /\ PapersOf(seen)' = PapersOf(S)
        BY <1>1 DEF Within, PapersOf
    <2> QED
        BY <2>1, <2>2 DEF NearMeansLow
<1>9. SeenIsTheCorpus'
    BY <1>1, <1>2 DEF SeenIsTheCorpus, corpus, Rows, PapersOf
<1>10. NothingConcludedYet' /\ GapsAreSeen'
    BY <1>1, <1>6 DEF IInv, NothingConcludedYet, GapsAreSeen
<1>11. ~ Saved'
    BY <1>1 DEF Saved
<1> QED
    BY <1>7, <1>8, <1>9, <1>10, <1>11
       DEF IInv, OutOfCorpusIsSilent, HighPriorityIsTheException

\* Whatever the types a section wants, its rows are among those read of all
\* that was retrieved.
LEMMA FarRowsAreRead ==
    ASSUME TypeOK, NEW types
    PROVE  Rows(claims, Within(Far), types)
             \subseteq Rows(claims, DOMAIN dist, {TypeOf[c] : c \in Claims})
BY DEF TypeOK, Rows, Within

LEMMA ExplicitGapsAreRows ==
    ExplicitGaps \subseteq Rows(claims, Within(Far), {"research_gap"})
<1> DEFINE usable == Rows(claims, Within(Far), {"research_gap"}) \ Broken
           picks == {S \in SUBSET usable : \A p \in PapersOf(usable) :
                       Cardinality({c \in S : PaperOf[c] = p}) = 1}
           first(S) == {c \in S : PaperOf[c] \in Nearest(PapersOf(S))}
<1>1. \A S \in picks : first(S) \subseteq usable /\ first(S \cap Strong) \subseteq usable
    OBVIOUS
<1>2. ExplicitGaps =
        UNION {IF S \cap Strong # {} THEN first(S \cap Strong) ELSE first(S) : S \in picks}
    BY DEF ExplicitGaps
<1> HIDE DEF picks, first
<1> QED
    BY <1>1, <1>2

LEMMA FindGapInvariant ==
    ASSUME IInv, FindGap
    PROVE  IInv'
<1> DEFINE all == Rows(claims, DOMAIN dist, {TypeOf[c] : c \in Claims})
<1>1. /\ pc = "gap" /\ pc' = "ground" /\ UNCHANGED <<dist, seen, moved>>
      /\ report \in Reports /\ gap.cites \subseteq Claims /\ all \subseteq Claims
      /\ ~ report.close /\ report.gapSource = "none" /\ report.gapCites = {}
      /\ ~ moved => seen = all
    BY DEF IInv, TypeOK, FindGap, Stage, GapsAreSeen, SeenIsTheCorpus, Rows
<1> DEFINE Kept == /\ report' \in Reports
                   /\ report'.novelty = report.novelty /\ report'.verdict = report.verdict
                   /\ report'.confidence = report.confidence
                   /\ report'.claimed = report.claimed /\ report'.close = report.close
           Sourced == \/ report'.gapSource = "reused_candidate_gap"
                      \/ report'.gapSource = "input_specific" /\ report'.gapCites \subseteq all
                      \/ report'.gapSource = "none" /\ report'.gapCites = {}
<1>2. Kept /\ Sourced
    <2>1. CASE report' = ReuseGap
        BY <1>1, <2>1 DEF ReuseGap, Reports
    <2>2. ASSUME NEW cites \in SUBSET all, NEW s \in BOOLEAN,
                 report' = InputSpecific(cites, s)
          PROVE  Kept /\ Sourced
        BY <1>1, <2>2 DEF InputSpecific, Reports
    <2>3. CASE \E c \in ExplicitGaps : report' = InputSpecific({c}, c \in Strong)
        <3>1. PICK c \in ExplicitGaps : report' = InputSpecific({c}, c \in Strong)
            BY <2>3
        <3>2. {c} \in SUBSET all /\ (c \in Strong) \in BOOLEAN
            BY ExplicitGapsAreRows, FarRowsAreRead DEF IInv
        <3> DEFINE s == c \in Strong
        <3>3. report' = InputSpecific({c}, s) /\ s \in BOOLEAN
            BY <3>1
        <3> HIDE DEF s
        <3> QED
            BY <2>2, <3>2, <3>3
    <2>4. CASE \E S \in Patterns, tight \in BOOLEAN : report' = InputSpecific(S, tight)
        <3>1. PICK S \in Patterns, tight \in BOOLEAN : report' = InputSpecific(S, tight)
            BY <2>4
        <3>2. S \in SUBSET all
            BY FarRowsAreRead DEF IInv, Patterns
        <3> QED
            BY <2>2, <3>1, <3>2
    <2>5. CASE report' = [report EXCEPT !.gapStatus =
                            IF Within(Far) = {} THEN "not_assessed" ELSE "not_found"]
        BY <1>1, <2>5 DEF Reports
    <2> QED
        BY <2>1, <2>3, <2>4, <2>5 DEF FindGap
<1>3. GapsAreSeen'
    BY <1>1, <1>2 DEF GapsAreSeen
<1> QED
    BY <1>2, <1>3, SectionInvariant DEF FindGap

LEMMA GroundGapInvariant ==
    ASSUME IInv, GroundGap
    PROVE  IInv'
<1>1. report' = [report EXCEPT !.close =
                    PapersOf(report.gapCites \cap Evidence) \cap Within(Near) # {}]
      /\ report \in Reports /\ UNCHANGED <<dist, seen, moved>> /\ pc = "ground"
      /\ pc' = "applications"
    BY DEF IInv, TypeOK, GroundGap, Stage
<1>2. report' \in Reports
    BY <1>1 DEF Reports
<1>3. /\ report'.novelty = report.novelty /\ report'.verdict = report.verdict
      /\ report'.confidence = report.confidence /\ report'.claimed = report.claimed
      /\ report'.gapSource = report.gapSource /\ report'.gapCites = report.gapCites
      /\ report'.close => PapersOf(report.gapCites \cap Evidence) \cap Within(Near) # {}
    BY <1>1 DEF Reports
<1>4. PapersOf(report.gapCites \cap Evidence) \subseteq PapersOf(report.gapCites)
    BY DEF PapersOf
<1>5. GapsAreSeen'
    BY <1>1, <1>3, <1>4 DEF IInv, GapsAreSeen, PapersOf, Within
<1> QED
    BY <1>2, <1>3, <1>5, SectionInvariant DEF GroundGap

LEMMA RisksInvariant ==
    ASSUME IInv, Risks
    PROVE  IInv'
<1> DEFINE risks == Rows(claims, Within(Far), {"limitations"}) \ Broken
<1>1. /\ report' = [report EXCEPT !.risks = risks]
      /\ report \in Reports /\ risks \subseteq Claims
      /\ UNCHANGED <<dist, seen, moved>> /\ pc = "risks" /\ pc' = "finish"
    BY DEF IInv, TypeOK, Risks, Stage, Rows
<1>2. report' \in Reports
    BY <1>1 DEF Reports
<1>3. /\ report'.novelty = report.novelty /\ report'.verdict = report.verdict
      /\ report'.confidence = report.confidence /\ report'.claimed = report.claimed
      /\ report'.gapSource = report.gapSource /\ report'.gapCites = report.gapCites
      /\ report'.close = report.close
    BY <1>1 DEF Reports
<1>5. GapsAreSeen'
    BY <1>1, <1>3 DEF IInv, GapsAreSeen, PapersOf, Within
<1> QED
    BY <1>2, <1>3, <1>5, SectionInvariant DEF Risks

LEMMA ApplicationsInvariant ==
    ASSUME IInv, Applications
    PROVE  IInv'
<1>1. /\ report \in Reports /\ UNCHANGED <<dist, seen, moved>>
      /\ pc = "applications" /\ pc' = "feasibility" /\ seen \subseteq Claims
    BY DEF IInv, TypeOK, Applications, Stage
<1>2. PICK kept \in SUBSET seen,
           status \in {"not_assessed", "no_evidence", "found"} :
        report' = [report EXCEPT !.appStatus = status, !.apps = kept]
    <2> DEFINE candidates == Rows(seen, Within(Far), {"applications"})
               keep(kept, status) ==
                   report' = [report EXCEPT !.appStatus = status, !.apps = kept]
    <2>1. PICK similarity \in [candidates -> {50, 80, 95}] :
            LET S == {c \in candidates : ~RestatesOwnTask(c, similarity[c])}
            IN \/ keep(S, IF Within(Far) = {} THEN "not_assessed"
                          ELSE IF S = {} THEN "no_evidence" ELSE "found")
               \/ /\ llm /\ S # {}
                  /\ \E kept \in Judgments(S) : keep(kept, FilteredStatus(kept))
        BY DEF Applications
    <2> DEFINE S == {c \in candidates : ~RestatesOwnTask(c, similarity[c])}
    <2>2. S \in SUBSET seen
        BY DEF Rows
    <2>3. CASE keep(S, IF Within(Far) = {} THEN "not_assessed"
                       ELSE IF S = {} THEN "no_evidence" ELSE "found")
        <3> HIDE DEF S
        <3> QED
            BY <2>2, <2>3
    <2>4. CASE \E kept \in Judgments(S) : keep(kept, FilteredStatus(kept))
        <3> HIDE DEF S
        <3> QED
            BY <2>2, <2>4 DEF Judgments, FilteredStatus
    <2> QED
        BY <2>1, <2>3, <2>4
<1>3. report' \in Reports
    BY <1>1, <1>2 DEF Reports
<1>4. /\ report'.novelty = report.novelty /\ report'.verdict = report.verdict
      /\ report'.confidence = report.confidence /\ report'.claimed = report.claimed
      /\ report'.gapSource = report.gapSource /\ report'.gapCites = report.gapCites
      /\ report'.close = report.close
    BY <1>1, <1>2 DEF Reports
<1>5. GapsAreSeen'
    BY <1>1, <1>4 DEF IInv, GapsAreSeen, PapersOf, Within
<1> QED
    BY <1>3, <1>4, <1>5, SectionInvariant DEF Applications

LEMMA FeasibilityInvariant ==
    ASSUME IInv, Feasibility
    PROVE  IInv'
<1>1. /\ report \in Reports /\ UNCHANGED <<dist, seen, moved>>
      /\ pc = "feasibility" /\ pc' = "synthesis"
    BY DEF IInv, TypeOK, Feasibility, Stage
<1>2. PICK cites \in SUBSET Claims, level \in {"not_assessed", "medium", "high"} :
        report' = [report EXCEPT !.feasibility = level, !.feasCites = cites]
    <2> DEFINE types == {"method", "dataset"}
               closeRows == Rows(claims, Within(Near), types)
    <2>1. PICK shared \in SUBSET Rows(claims, Within(Widened) \ Within(Near), types) :
            LET n == Cardinality(PapersOf(closeRows \cup shared))
            IN report' = [report EXCEPT
                            !.feasibility = IF n = 0 THEN "not_assessed"
                                            ELSE IF n = 1 THEN "medium" ELSE "high",
                            !.feasCites = closeRows \cup shared]
        BY DEF Feasibility
    <2> DEFINE cites == closeRows \cup shared
    <2>2. cites \in SUBSET Claims
        BY DEF IInv, TypeOK, Rows
    <2> DEFINE n == Cardinality(PapersOf(cites))
               level == IF n = 0 THEN "not_assessed" ELSE IF n = 1 THEN "medium" ELSE "high"
    <2>3. report' = [report EXCEPT !.feasibility = level, !.feasCites = cites]
        BY <2>1
    <2>4. level \in {"not_assessed", "medium", "high"}
        OBVIOUS
    <2> HIDE DEF level, cites
    <2> QED
        BY <2>2, <2>3, <2>4
<1>3. report' \in Reports
    BY <1>1, <1>2 DEF Reports
<1>4. /\ report'.novelty = report.novelty /\ report'.verdict = report.verdict
      /\ report'.confidence = report.confidence /\ report'.claimed = report.claimed
      /\ report'.gapSource = report.gapSource /\ report'.gapCites = report.gapCites
      /\ report'.close = report.close
    BY <1>1, <1>2 DEF Reports
<1>5. GapsAreSeen'
    BY <1>1, <1>4 DEF IInv, GapsAreSeen, PapersOf, Within
<1> QED
    BY <1>3, <1>4, <1>5, SectionInvariant DEF Feasibility

LEMMA SynthesizeInvariant ==
    ASSUME IInv, Synthesize
    PROVE  IInv'
<1>1. /\ report \in Reports /\ UNCHANGED <<dist, seen, moved>>
      /\ pc = "synthesis" /\ pc' = "risks"
    BY DEF IInv, TypeOK, Synthesize, Stage
<1> DEFINE Kept == /\ report' \in Reports
                   /\ report'.novelty = report.novelty /\ report'.verdict = report.verdict
                   /\ report'.confidence = report.confidence
                   /\ report'.claimed = report.claimed
                   /\ report'.gapSource = report.gapSource
                   /\ report'.gapCites = report.gapCites /\ report'.close = report.close
<1>2. Kept
    <2>1. CASE UNCHANGED report
        BY <1>1, <2>1
    <2>2. CASE report' = [report EXCEPT !.oppStatus = "unavailable"]
        BY <1>1, <2>2 DEF Reports
    <2>3. CASE \E answer \in Answers(Offered) :
                  report' = [report EXCEPT !.oppStatus = "found", !.opps = TRUE,
                               !.modest = answer["direct"] \cup answer["adjacent"],
                               !.speculative = answer["speculative"]]
        <3>1. PICK answer \in Answers(Offered) :
                  report' = [report EXCEPT !.oppStatus = "found", !.opps = TRUE,
                               !.modest = answer["direct"] \cup answer["adjacent"],
                               !.speculative = answer["speculative"]]
            BY <2>3
        <3> DEFINE modest == answer["direct"] \cup answer["adjacent"]
                   bold == answer["speculative"]
        <3>2. modest \in SUBSET Claims /\ bold \in SUBSET Claims
            BY <1>1 DEF Answers, Offered, Tiers, Reports
        <3>3. report' = [report EXCEPT !.oppStatus = "found", !.opps = TRUE,
                                       !.modest = modest, !.speculative = bold]
            BY <3>1
        <3> HIDE DEF modest, bold
        <3> QED
            BY <1>1, <3>2, <3>3 DEF Reports
    <2> QED
        BY <2>1, <2>2, <2>3 DEF Synthesize
<1>3. GapsAreSeen'
    BY <1>1, <1>2 DEF IInv, GapsAreSeen, PapersOf, Within
<1> QED
    BY <1>2, <1>3, SectionInvariant DEF Synthesize

-----------------------------------------------------------------------------
(* The verdict and the save *)

Verdicts == {"INSUFFICIENT EVIDENCE", "HIGH PRIORITY", "LOW PRIORITY",
             "REQUIRES HUMAN REVIEW", "MEDIUM PRIORITY"}

\* Of three signals none of which is given, none counts.
LEMMA NothingCounted ==
    Count(<<FALSE, FALSE, FALSE>>) = 0
<1> DEFINE three == <<FALSE, FALSE, FALSE>>
<1>1. {x \in DOMAIN three : three[x]} = {}
    <2>1. DOMAIN three = 1 .. 3 /\ three[1] = FALSE /\ three[2] = FALSE /\ three[3] = FALSE
        OBVIOUS
    <2> HIDE DEF three
    <2>2. \A x \in 1 .. 3 : x = 1 \/ x = 2 \/ x = 3
        OBVIOUS
    <2> QED
        BY <2>1, <2>2
<1> HIDE DEF three
<1>2. Count(three) = 0
    BY <1>1, FS_EmptySet DEF Count
<1> QED
    BY <1>2 DEF three

LEMMA WithVerdict ==
    ASSUME NEW r \in Reports, NEW v \in Verdicts
    PROVE  [r EXCEPT !.verdict = v] \in Reports
BY ZenonT(60) DEF Reports, Verdicts

LEMMA WithConfidence ==
    ASSUME NEW r \in Reports, NEW c \in {"low", "medium", "high"}
    PROVE  [r EXCEPT !.confidence = c] \in Reports
BY ZenonT(60) DEF Reports

LEMMA ConcludedIsAReport ==
    ASSUME NEW r \in Reports, NEW v \in Verdicts, NEW c \in {"low", "medium", "high"}
    PROVE  [r EXCEPT !.verdict = v, !.confidence = c] \in Reports
<1> DEFINE s == [r EXCEPT !.verdict = v]
<1>1. s \in Reports
    BY WithVerdict
<1>2. [r EXCEPT !.verdict = v, !.confidence = c] = [s EXCEPT !.confidence = c]
    OBVIOUS
<1> HIDE DEF s
<1>3. [s EXCEPT !.confidence = c] \in Reports
    BY <1>1, WithConfidence
<1> QED
    BY <1>2, <1>3

\* The finished report differs from the one before in what is concluded, and
\* HIGH PRIORITY takes novelty, a close gap and a feasible method.
LEMMA RecommendedConcludes ==
    ASSUME NEW r \in Reports
    PROVE  \E v \in Verdicts, c \in {"low", "medium", "high"} :
             /\ Recommended(r) = [r EXCEPT !.verdict = v, !.confidence = c]
             /\ Recommended(r) \in Reports
             /\ v = "HIGH PRIORITY" =>
                  /\ r.novelty \in {"medium", "high"} /\ r.close
                  /\ r.feasibility # "not_assessed"
<1> DEFINE novel == r.novelty \notin {"not_assessed", "insufficient_evidence"}
           found == r.gapStatus = "found" /\ r.close
           strong == r.close /\ r.strong
           feasible == r.feasibility # "not_assessed"
           assessed == Count(<<novel, found, feasible>>)
           strengths == Count(<<novel, found /\ strong, r.feasibility = "high">>)
           v == IF assessed = 0 THEN "INSUFFICIENT EVIDENCE"
                ELSE IF r.novelty \in {"medium", "high"} /\ strong /\ feasible
                     THEN "HIGH PRIORITY"
                ELSE IF r.novelty = "low" THEN "LOW PRIORITY"
                ELSE IF assessed = 1 THEN "REQUIRES HUMAN REVIEW"
                ELSE "MEDIUM PRIORITY"
           c == IF strengths = 3 THEN "high" ELSE IF strengths = 2 THEN "medium" ELSE "low"
<1>1. Recommended(r) = [r EXCEPT !.verdict = v, !.confidence = c]
    BY DEF Recommended
<1> HIDE DEF assessed, strengths
<1>2. v \in Verdicts /\ c \in {"low", "medium", "high"}
    BY DEF Verdicts
<1>3. v = "HIGH PRIORITY" => r.novelty \in {"medium", "high"} /\ r.close
                              /\ r.feasibility # "not_assessed"
    OBVIOUS
<1> HIDE DEF v, c
<1>4. [r EXCEPT !.verdict = v, !.confidence = c] \in Reports
    BY <1>2, ConcludedIsAReport
<1> QED
    BY <1>1, <1>2, <1>3, <1>4

\* A report with nothing assessed concludes that.
LEMMA NothingAssessed ==
    ASSUME NEW r \in Reports, r.gapStatus # "found", r.feasibility = "not_assessed",
           r.novelty \in {"not_assessed", "insufficient_evidence"}
    PROVE  /\ Recommended(r).verdict = "INSUFFICIENT EVIDENCE"
           /\ Recommended(r).confidence = "low"
<1> DEFINE novel == r.novelty \notin {"not_assessed", "insufficient_evidence"}
           found == r.gapStatus = "found" /\ r.close
           strong == r.close /\ r.strong
           feasible == r.feasibility # "not_assessed"
           sure == r.feasibility = "high"
<1>1. novel = FALSE /\ found = FALSE /\ feasible = FALSE /\ sure = FALSE
      /\ (found /\ strong) = FALSE
    OBVIOUS
<1> DEFINE assessed == Count(<<novel, found, feasible>>)
           strengths == Count(<<novel, found /\ strong, sure>>)
           v == IF assessed = 0 THEN "INSUFFICIENT EVIDENCE"
                ELSE IF r.novelty \in {"medium", "high"} /\ strong /\ feasible
                     THEN "HIGH PRIORITY"
                ELSE IF r.novelty = "low" THEN "LOW PRIORITY"
                ELSE IF assessed = 1 THEN "REQUIRES HUMAN REVIEW"
                ELSE "MEDIUM PRIORITY"
           c == IF strengths = 3 THEN "high" ELSE IF strengths = 2 THEN "medium" ELSE "low"
<1>2. assessed = 0 /\ strengths = 0
    BY <1>1, NothingCounted, Zenon
<1>3. Recommended(r) = [r EXCEPT !.verdict = v, !.confidence = c]
    BY DEF Recommended
<1> HIDE DEF assessed, strengths
<1>4. v = "INSUFFICIENT EVIDENCE" /\ c = "low"
    BY <1>2
<1> HIDE DEF v, c
<1> QED
    BY <1>3, <1>4 DEF Reports

\* The report that the guard for other corpora leaves.
LEMMA SilencedReport ==
    ASSUME NEW r \in Reports
    PROVE  LET final == Recommended(Silenced(r))
           IN /\ final \in Reports
              /\ final.verdict = "INSUFFICIENT EVIDENCE" /\ final.confidence = "low"
              /\ final.gapCites = {} /\ final.apps = {} /\ final.feasCites = {}
              /\ final.modest = {} /\ final.speculative = {} /\ final.risks = {}
              /\ ~ final.opps
              /\ final.novelty \in {"not_assessed", "insufficient_evidence"}
              /\ final.gapSource = r.gapSource
<1> DEFINE s == Silenced(r)
           n == IF r.novelty = "not_assessed" THEN r.novelty ELSE "insufficient_evidence"
<1>0. /\ n \in {"not_assessed", "insufficient_evidence"}
      /\ s = [r EXCEPT !.novelty = n,
                !.gapStatus = "not_assessed", !.gapCites = {}, !.risks = {},
                !.feasibility = "not_assessed", !.feasCites = {},
                !.appStatus = "not_assessed", !.apps = {}, !.coverage = "out_of_corpus",
                !.oppStatus = "not_assessed", !.opps = FALSE,
                !.modest = {}, !.speculative = {}]
    BY DEF Silenced
<1> HIDE DEF n, s
<1>1. s \in Reports
    <2> DEFINE s1 == [r EXCEPT !.novelty = n, !.gapStatus = "not_assessed"]
               s2 == [s1 EXCEPT !.gapCites = {}, !.risks = {}]
               s3 == [s2 EXCEPT !.feasibility = "not_assessed", !.feasCites = {}]
               s4 == [s3 EXCEPT !.appStatus = "not_assessed", !.apps = {}]
               s5 == [s4 EXCEPT !.coverage = "out_of_corpus", !.oppStatus = "not_assessed"]
               s6 == [s5 EXCEPT !.opps = FALSE]
               s7 == [s6 EXCEPT !.modest = {}, !.speculative = {}]
    <2>1. s1 \in Reports
        BY <1>0, ZenonT(60) DEF Reports, Levels
    <2>2. s2 \in Reports
        <3> HIDE DEF s1
        <3> QED
            BY <2>1, ZenonT(60) DEF Reports
    <2>3. s3 \in Reports
        <3> HIDE DEF s2
        <3> QED
            BY <2>2, ZenonT(60) DEF Reports
    <2>4. s4 \in Reports
        <3> HIDE DEF s3
        <3> QED
            BY <2>3, ZenonT(60) DEF Reports
    <2>5. s5 \in Reports
        <3> HIDE DEF s4
        <3> QED
            BY <2>4, ZenonT(60) DEF Reports
    <2>6. s6 \in Reports
        <3> HIDE DEF s5
        <3> QED
            BY <2>5, ZenonT(60) DEF Reports
    <2>7. s7 \in Reports
        <3> HIDE DEF s6
        <3> QED
            BY <2>6, ZenonT(60) DEF Reports
    <2>8. s = s7
        BY <1>0
    <2> QED
        BY <2>7, <2>8
<1>5. /\ s.gapCites = {} /\ s.apps = {} /\ s.feasCites = {}
      /\ s.modest = {} /\ s.speculative = {} /\ s.risks = {}
      /\ ~ s.opps /\ s.gapStatus # "found" /\ s.feasibility = "not_assessed"
      /\ s.novelty \in {"not_assessed", "insufficient_evidence"}
      /\ s.gapSource = r.gapSource
    <2>1. s.gapCites = {} /\ s.apps = {} /\ s.feasCites = {}
        BY <1>0 DEF Reports
    <2>2. s.modest = {} /\ s.speculative = {} /\ s.risks = {}
        BY <1>0 DEF Reports
    <2>3. s.opps = FALSE /\ s.gapStatus = "not_assessed" /\ s.feasibility = "not_assessed"
        BY <1>0 DEF Reports
    <2>4. s.novelty = n /\ s.gapSource = r.gapSource
        BY <1>0 DEF Reports
    <2> QED
        BY <1>0, <2>1, <2>2, <2>3, <2>4
<1>2. PICK v \in Verdicts, c \in {"low", "medium", "high"} :
        /\ Recommended(s) = [s EXCEPT !.verdict = v, !.confidence = c]
        /\ Recommended(s) \in Reports
    BY <1>1, RecommendedConcludes, ZenonT(60)
<1>3. /\ Recommended(s).verdict = "INSUFFICIENT EVIDENCE"
      /\ Recommended(s).confidence = "low"
    BY <1>1, <1>5, NothingAssessed
<1>6. Recommended(s) = [s EXCEPT !.verdict = v, !.confidence = c]
    BY <1>2
<1>4. /\ Recommended(s).gapCites = {} /\ Recommended(s).apps = {}
      /\ Recommended(s).feasCites = {} /\ Recommended(s).modest = {}
      /\ Recommended(s).speculative = {} /\ Recommended(s).risks = {}
      /\ ~ Recommended(s).opps
      /\ Recommended(s).novelty \in {"not_assessed", "insufficient_evidence"}
      /\ Recommended(s).gapSource = r.gapSource
    BY <1>1, <1>5, <1>6, ZenonT(60) DEF Reports
<1> QED
    BY <1>2, <1>3, <1>4 DEF s

LEMMA OutOfCorpusKept ==
    ASSUME UNCHANGED dist
    PROVE  IsOutOfCorpus' <=> IsOutOfCorpus
BY DEF IsOutOfCorpus

LEMMA ClaimedIsRoles ==
    ASSUME NEW r
    PROVE  Claimed(r) \in SUBSET {"comparison", "novelty", "research_gap", "application",
                                  "opportunity", "speculation", "feasibility", "risk"}
BY DEF Claimed

\* A silenced report files claims about what was compared, and about novelty.
LEMMA SilencedClaims ==
    ASSUME NEW r \in Reports, r.gapCites = {}, r.apps = {}, r.feasCites = {},
           r.modest = {}, r.speculative = {}, r.risks = {}
    PROVE  /\ Claimed(r) \subseteq {"comparison", "novelty"}
           /\ Links(r) \subseteq r.noveltyCites \cup r.comparison
<1>1. Claimed(r) \subseteq {"comparison", "novelty"}
    BY DEF Claimed
<1>2. Links(r) \subseteq r.noveltyCites \cup r.comparison
    BY DEF Links
<1> QED
    BY <1>1, <1>2

\* Filing the claims is the last thing done to the report.
LEMMA FiledIsAReport ==
    ASSUME NEW r \in Reports
    PROVE  LET filed == [r EXCEPT !.claimed = Claimed(r)]
           IN /\ filed \in Reports
              /\ filed.claimed = Claimed(r) /\ Links(filed) = Links(r)
              /\ filed.novelty = r.novelty /\ filed.noveltyCites = r.noveltyCites
              /\ filed.comparison = r.comparison /\ filed.close = r.close
              /\ filed.gapSource = r.gapSource /\ filed.gapCites = r.gapCites
              /\ filed.opps = r.opps /\ filed.feasibility = r.feasibility
              /\ filed.verdict = r.verdict /\ filed.confidence = r.confidence
<1> DEFINE roles == Claimed(r)
           filed == [r EXCEPT !.claimed = roles]
<1>1. roles \in SUBSET {"comparison", "novelty", "research_gap", "application",
                        "opportunity", "speculation", "feasibility", "risk"}
    BY ClaimedIsRoles
<1> HIDE DEF roles
<1>2. filed \in Reports
    BY <1>1 DEF Reports
<1>3. /\ filed.claimed = roles
      /\ filed.novelty = r.novelty /\ filed.noveltyCites = r.noveltyCites
      /\ filed.comparison = r.comparison /\ filed.close = r.close
      /\ filed.gapSource = r.gapSource /\ filed.gapCites = r.gapCites
      /\ filed.opps = r.opps /\ filed.feasibility = r.feasibility
      /\ filed.verdict = r.verdict /\ filed.confidence = r.confidence
      /\ filed.apps = r.apps /\ filed.feasCites = r.feasCites /\ filed.modest = r.modest
      /\ filed.speculative = r.speculative /\ filed.risks = r.risks
    BY DEF Reports
<1> HIDE DEF filed
<1>4. Links(filed) = Links(r)
    BY <1>3 DEF Links
<1> QED
    BY <1>2, <1>3, <1>4 DEF filed, roles

\* The last stages: risks, guard, verdict, confidence, claims.
LEMMA FinishInvariant ==
    ASSUME IInv, Finish
    PROVE  IInv'
<1> DEFINE final == Recommended(IF IsOutOfCorpus THEN Silenced(report) ELSE report)
<1>1. /\ pc = "finish" /\ report \in Reports
      /\ report' = [final EXCEPT !.claimed = Claimed(final)]
      /\ pc' \in {"incomplete", "saved", "failed"}
      /\ UNCHANGED <<corpus, llm, dist, seen, moved>>
    BY DEF IInv, TypeOK, Finish
<1>2. CASE IsOutOfCorpus
    <2>1. final = Recommended(Silenced(report))
        BY <1>2
    <2> HIDE DEF final
    <2>2. /\ final \in Reports
          /\ final.verdict = "INSUFFICIENT EVIDENCE" /\ final.confidence = "low"
          /\ final.gapCites = {} /\ final.apps = {} /\ final.feasCites = {}
          /\ final.modest = {} /\ final.speculative = {} /\ final.risks = {}
          /\ ~ final.opps
          /\ final.novelty \in {"not_assessed", "insufficient_evidence"}
          /\ final.gapSource = report.gapSource
        BY <1>1, <2>1, SilencedReport
    <2>3. /\ Claimed(final) \subseteq {"comparison", "novelty"}
          /\ Links(final) \subseteq final.noveltyCites \cup final.comparison
        BY <2>2, SilencedClaims
    <2>4. /\ report' \in Reports /\ report'.claimed = Claimed(final)
          /\ Links(report') = Links(final)
          /\ report'.novelty = final.novelty /\ report'.noveltyCites = final.noveltyCites
          /\ report'.comparison = final.comparison
          /\ report'.gapSource = final.gapSource /\ report'.gapCites = {}
          /\ report'.verdict = "INSUFFICIENT EVIDENCE" /\ report'.confidence = "low"
          /\ ~ report'.opps
        BY <1>1, <2>2, FiledIsAReport
    <2>5. TypeOK'
        BY <1>1, <2>4 DEF IInv, TypeOK, corpus, Stages
    <2>6. NothingConcludedYet' /\ NearMeansLow'
        BY <1>1, <2>2, <2>4 DEF NothingConcludedYet, NearMeansLow
    <2>7. SeenIsTheCorpus'
        BY <1>1 DEF IInv, SeenIsTheCorpus, corpus, Rows, PapersOf
    <2>8. GapsAreSeen'
        BY <1>1, <2>2, <2>4 DEF GapsAreSeen
    <2>9. OutOfCorpusIsSilent'
        BY <2>3, <2>4 DEF OutOfCorpusIsSilent, Links
    <2>10. HighPriorityIsTheException'
        BY <2>4 DEF HighPriorityIsTheException
    <2> QED
        BY <2>5, <2>6, <2>7, <2>8, <2>9, <2>10 DEF IInv
<1>3. CASE ~ IsOutOfCorpus
    <2>1. final = Recommended(report)
        BY <1>3
    <2> HIDE DEF final
    <2>2. PICK v \in Verdicts, c \in {"low", "medium", "high"} :
            /\ final = [report EXCEPT !.verdict = v, !.confidence = c]
            /\ final \in Reports
            /\ v = "HIGH PRIORITY" =>
                 /\ report.novelty \in {"medium", "high"} /\ report.close
                 /\ report.feasibility # "not_assessed"
        BY <1>1, <2>1, RecommendedConcludes
    <2>3. /\ final.novelty = report.novelty /\ final.close = report.close
          /\ final.gapSource = report.gapSource /\ final.gapCites = report.gapCites
          /\ final.verdict = v
        <3>1. final = [report EXCEPT !.verdict = v, !.confidence = c] /\ report \in Reports
            BY <1>1, <2>2
        <3> QED
            BY <3>1 DEF Reports
    <2>4. /\ report' \in Reports /\ report'.novelty = report.novelty
          /\ report'.close = report.close /\ report'.gapSource = report.gapSource
          /\ report'.gapCites = report.gapCites /\ report'.verdict = v
        BY <1>1, <2>2, <2>3, FiledIsAReport
    <2>5. TypeOK'
        BY <1>1, <2>4 DEF IInv, TypeOK, corpus, Stages
    <2>6. NothingConcludedYet' /\ NearMeansLow'
        BY <1>1, <2>4 DEF IInv, NothingConcludedYet, NearMeansLow, PapersOf, Within
    <2>7. SeenIsTheCorpus'
        BY <1>1 DEF IInv, SeenIsTheCorpus, corpus, Rows, PapersOf
    <2>8. GapsAreSeen'
        BY <1>1, <2>4 DEF IInv, GapsAreSeen, PapersOf, Within
    <2>9. OutOfCorpusIsSilent'
        BY <1>1, <1>3, OutOfCorpusKept DEF OutOfCorpusIsSilent
    <2>10. HighPriorityIsTheException'
        <3>1. SUFFICES ASSUME v = "HIGH PRIORITY", ~ moved
                       PROVE  /\ report.gapSource = "reused_candidate_gap"
                              /\ Within(Near) \cap PapersOf(seen) = {}
            BY <1>1, <2>4 DEF HighPriorityIsTheException, Within, PapersOf
        <3>2. Within(Near) \cap PapersOf(seen) = {}
            BY <2>2, <3>1 DEF IInv, NearMeansLow
        <3>3. PapersOf(report.gapCites) \cap Within(Near) # {}
            BY <1>1, <2>2, <3>1 DEF IInv, GapsAreSeen
        <3>4. report.gapSource # "input_specific"
            BY <3>1, <3>2, <3>3 DEF IInv, GapsAreSeen, PapersOf
        <3>5. report.gapSource # "none"
            BY <3>3 DEF IInv, GapsAreSeen, PapersOf
        <3> QED
            BY <1>1, <3>2, <3>4, <3>5 DEF Reports
    <2> QED
        BY <2>5, <2>6, <2>7, <2>8, <2>9, <2>10 DEF IInv
<1> QED
    BY <1>2, <1>3

-----------------------------------------------------------------------------

\* It holds before the build begins.
LEMMA BuildInit ==
    ASSUME Init
    PROVE  IInv
<1>1. TypeOK
    <2>1. report \in Reports
        BY DEF Init, Blank, Reports, Levels
    <2>2. dist \in [{} -> Distances]
        BY DEF Init
    <2>3. gap \in [seed : Papers \cup {None}, cites : SUBSET Claims]
        BY DEF Init, Rows
    <2> QED
        BY <2>1, <2>2, <2>3 DEF Init, TypeOK, Stages
<1>2. NothingConcludedYet /\ NearMeansLow /\ SeenIsTheCorpus /\ GapsAreSeen /\ ~ Saved
    BY DEF Init, Blank, NothingConcludedYet, NearMeansLow, SeenIsTheCorpus, GapsAreSeen, Saved,
           PapersOf
<1> QED
    BY <1>1, <1>2 DEF IInv, OutOfCorpusIsSilent, HighPriorityIsTheException

\* Every stage and every change of the corpus keeps it.
LEMMA BuildNext ==
    ASSUME IInv, [Next]_vars
    PROVE  IInv'
<1>1. CASE UNCHANGED vars
    <2>1. UNCHANGED <<claims, row, gap, changes, pc, llm, dist, seen, report, moved>>
        BY <1>1 DEF vars, corpus
    <2>2. IsOutOfCorpus' <=> IsOutOfCorpus
        BY <2>1, OutOfCorpusKept
    <2>3. TypeOK' /\ NothingConcludedYet' /\ NearMeansLow' /\ SeenIsTheCorpus' /\ GapsAreSeen'
        BY <2>1 DEF IInv, TypeOK, NothingConcludedYet, NearMeansLow, SeenIsTheCorpus, GapsAreSeen,
                    PapersOf, Within, Rows
    <2>4. OutOfCorpusIsSilent' /\ HighPriorityIsTheException'
        BY <2>1, <2>2 DEF IInv, OutOfCorpusIsSilent, HighPriorityIsTheException, Saved, Links,
                          PapersOf, Within
    <2> QED
        BY <2>3, <2>4 DEF IInv
<1> QED
    BY <1>1, ResetInvariant, ExtractInvariant, RevalidateInvariant, RetrieveInvariant,
       ReadClaimsInvariant, FindGapInvariant, GroundGapInvariant, ApplicationsInvariant,
       FeasibilityInvariant, SynthesizeInvariant, RisksInvariant, FinishInvariant DEF Next

\* Every state of a build satisfies the invariant.
THEOREM BuildInvariant == Spec => []IInv
<1> QED
    BY BuildInit, BuildNext, PTL DEF Spec

\* A report on an input outside the corpus claims nothing, whatever the stages
\* before the guard found: out_of_corpus.py together with _assert_evidence_linked
\* and the save leave no section behind, for any corpus and any distances.
THEOREM OutOfCorpusReportsAreSilent == Spec => []OutOfCorpusIsSilent
<1>1. IInv => OutOfCorpusIsSilent
    BY DEF IInv
<1> QED
    BY <1>1, BuildInvariant, PTL

\* The verdict HIGH PRIORITY of assess_recommendation needs a corpus that changed
\* between the reads of one build, or an approved gap that is reused although its
\* near paper has lost its claims.
THEOREM HighPriorityNeedsAnException == Spec => []HighPriorityIsTheException
<1>1. IInv => HighPriorityIsTheException
    BY DEF IInv
<1> QED
    BY <1>1, BuildInvariant, PTL
=============================================================================
