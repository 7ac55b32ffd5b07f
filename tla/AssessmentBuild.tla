---------------------------- MODULE AssessmentBuild ----------------------------
(***************************************************************************)
(* build_assessment: from a research input to a saved report.              *)
(*                                                                         *)
(* One request retrieves the papers near the input, reads their claims,    *)
(* and fills the sections of a report one after the other; most sections   *)
(* read the database again.  The whole build is one transaction, but at    *)
(* READ COMMITTED each statement sees what others have committed by then:  *)
(* a forced extraction deletes every claim with its evidence, a later pass *)
(* writes new ones, a revalidation deletes claims and leaves the evidence. *)
(* Two stages ask a local language model and must survive its silence.     *)
(*                                                                         *)
(* A claim and its evidence row carry one name.  Distances are hundredths. *)
(* What embeddings compare (a claim with a dimension, an application with  *)
(* its paper's own task, limitations with each other) may come out either  *)
(* way; what follows from the outcome is the code's.  Sections are the     *)
(* evidence they quote: a section without text quotes nothing.             *)
(***************************************************************************)
EXTENDS Integers, FiniteSets

CONSTANTS
    Papers,      \* the corpus; of its papers some have an embedding
    Claims,      \* the claims that extraction may ever find
    PaperOf,     \* their paper,
    TypeOf,      \* their type,
    Strong,      \* those whose wording is specific: validation_tier "strong",
    Broken,      \* and those that are a heading or a truncated sentence
    Distances,   \* what a paper's distance from the input may be
    Dimensions,  \* the technical dimensions an input may have
    TopN,        \* TOP_N_FOR_EVIDENCE, 3
    MinCluster,  \* DEFAULT_MIN_CLUSTER_SIZE, 3
    MaxChanges,  \* bound on what others commit to the corpus meanwhile
    None

Near == 35          \* NEAR_DISTANCE
Widened == 40       \* WIDENED_DISTANCE
OutOfCorpusMean == 48
Far == 65           \* FAR_DISTANCE, the RELEVANCE_DISTANCE of the sections

Affirmative == {"method", "dataset", "main_contribution", "results", "applications"}
TaskTypes == {"problem", "method", "main_contribution", "results"}
Tiers == {"direct", "adjacent", "speculative"}

VARIABLES
    claims,    \* extracted_claims
    row,       \* of each claim's evidence: "new", "here" or "gone"
    gap,       \* an approved candidate gap: its seed paper and its evidence
    changes,   \* how often others have changed the corpus, up to MaxChanges
    pc,        \* the stage the build is at
    llm,       \* enable_llm_stages
    dist,      \* the retrieved papers with their distances
    seen,      \* their claims, as read once for the pure stages
    report,    \* the sections built so far
    moved      \* history: others changed the corpus since the claims were read

corpus == <<claims, row, gap, changes>>
vars == <<corpus, pc, llm, dist, seen, report, moved>>

Blank ==
    [novelty |-> "not_assessed", noveltyCites |-> {}, comparison |-> {},
     gapSource |-> "none", gapStatus |-> "not_assessed", gapCites |-> {},
     close |-> FALSE, strong |-> FALSE,
     appStatus |-> "not_assessed", apps |-> {},
     feasibility |-> "not_assessed", feasCites |-> {},
     oppStatus |-> "not_assessed", opps |-> FALSE, modest |-> {}, speculative |-> {},
     risks |-> {}, coverage |-> "in_corpus",
     verdict |-> "none", confidence |-> "none", claimed |-> {}]

-----------------------------------------------------------------------------
(* Papers and claims *)

Within(d) == {p \in DOMAIN dist : dist[p] <= d}

\* The rows a section reads of some papers.
Rows(S, ps, types) == {c \in S : PaperOf[c] \in ps /\ TypeOf[c] \in types}

PapersOf(S) == {PaperOf[c] : c \in S}

Nearest(ps) == {p \in ps : \A q \in ps : dist[p] <= dist[q]}

SumDist(f) == LET sum[S \in SUBSET DOMAIN f] ==
                    IF S = {} THEN 0
                    ELSE LET p == CHOOSE x \in S : TRUE IN f[p] + sum[S \ {p}]
              IN sum[DOMAIN f]

\* The mean over all that was retrieved, claims or not.
IsOutOfCorpus ==
    \/ DOMAIN dist = {}
    \/ SumDist(dist) >= OutOfCorpusMean * Cardinality(DOMAIN dist)

-----------------------------------------------------------------------------
(* Dimension coverage and novelty *)

\* The status of a dimension that the claims in m match.
StatusFor(m) ==
    CASE m = {} -> "not_found"
      [] m # {} /\ (Cardinality(PapersOf(m)) = 1 \/ PapersOf(m) \cap Within(Near) = {})
            -> "weak_evidence"
      [] OTHER -> IF \E c \in m : TypeOf[c] \in Affirmative
                  THEN "established" ELSE "partially_addressed"

\* extract_dimensions_with_fallback: what the model lists, up to a maximum,
\* or what the text itself yields when it is silent or lists nothing usable.
DimensionSets == SUBSET Dimensions

\* Without a relevant claim no dimension is assessed: nothing is scored.
Coverages(S, dims) ==
    LET relevant == {c \in S : PaperOf[c] \in Within(Far)}
    IN IF relevant = {} THEN {<<>>}
       ELSE [dims -> {StatusFor(m) : m \in SUBSET relevant}]

FromNearestDistance(d) ==
    IF d <= Near THEN "low" ELSE IF d >= Far THEN "insufficient_evidence" ELSE "medium"

AggregateFromCoverage(cov) ==
    LET n == Cardinality(DOMAIN cov)
        established == Cardinality({x \in DOMAIN cov : cov[x] = "established"})
        covered == established
                   + Cardinality({x \in DOMAIN cov : cov[x] = "partially_addressed"})
    IN IF 10 * covered >= 7 * n /\ 2 * established >= n THEN "low"
       ELSE IF 10 * covered <= 3 * n THEN "high"
       ELSE "medium"

\* Mutant: dimension coverage outvotes a near duplicate.
NoveltyLevel_CoverageFirst(S, cov) ==
    LET d == dist[CHOOSE p \in Nearest(PapersOf(S)) : TRUE]
    IN IF S = {} THEN "not_assessed"
       ELSE IF DOMAIN cov # {} THEN AggregateFromCoverage(cov)
       ELSE FromNearestDistance(d)

NoveltyLevel(S, cov) ==
    LET d == dist[CHOOSE p \in Nearest(PapersOf(S)) : TRUE]
    IN IF S = {} THEN "not_assessed"
       ELSE IF d <= Near \/ DOMAIN cov = {} THEN FromNearestDistance(d)
       ELSE AggregateFromCoverage(cov)

\* The papers whose claims novelty cites: the nearest, up to TopN.
TopPapers(S) ==
    {T \in SUBSET PapersOf(S) :
        /\ Cardinality(T) = IF Cardinality(PapersOf(S)) < TopN
                            THEN Cardinality(PapersOf(S)) ELSE TopN
        /\ \A p \in T, q \in PapersOf(S) \ T : dist[p] <= dist[q]}

\* What is printed under the headings of existing solutions.
ExistingSolutions(S) ==
    Rows(S, Within(Far), {"problem", "method", "dataset", "limitations"}) \ Broken

-----------------------------------------------------------------------------
(* The corpus changes under the build *)

Evidence == {c \in Claims : row[c] = "here"}

Change ==
    /\ changes < MaxChanges
    /\ changes' = changes + 1
    /\ moved' = (moved \/ pc \notin {"start", "read"})
    /\ pc \notin {"saved", "failed", "incomplete"}
    /\ UNCHANGED <<pc, llm, dist, seen, report>>

\* reset_extraction_data: the citations of the evidence go with it.
Reset ==
    /\ Change
    /\ claims' = {}
    /\ row' = [c \in Claims |-> IF row[c] = "here" THEN "gone" ELSE row[c]]
    /\ gap' = [gap EXCEPT !.cites = {}]

\* A later pass finds claims in a paper that has none.
Extract(p) ==
    /\ Change
    /\ p \notin PapersOf(claims)
    /\ \E new \in (SUBSET {c \in Claims : PaperOf[c] = p /\ row[c] = "new"}) \ {{}} :
         /\ claims' = claims \cup new
         /\ row' = [c \in Claims |-> IF c \in new THEN "here" ELSE row[c]]
    /\ UNCHANGED gap

\* backfill_claim_revalidation: the claim goes, its evidence stays.
Revalidate(c) ==
    /\ Change
    /\ c \in claims
    /\ TypeOf[c] \in {"research_gap", "applications"}
    /\ claims' = claims \ {c}
    /\ UNCHANGED <<row, gap>>

-----------------------------------------------------------------------------
(* The stages of the build *)

Stage(from, to) ==
    /\ pc = from
    /\ pc' = to
    /\ UNCHANGED <<corpus, llm>>

\* search_by_text: the nearest papers, as many as have an embedding.
Retrieve ==
    /\ Stage("start", "read")
    /\ \E found \in SUBSET Papers : dist' \in [found -> Distances]
    /\ UNCHANGED <<seen, report, moved>>

\* The sections that need the claims S alone.
AssessedFrom(S, cov, top) ==
    [report EXCEPT !.novelty = NoveltyLevel(S, cov),
                   !.noveltyCites = {c \in S : PaperOf[c] \in top},
                   !.comparison = ExistingSolutions(S)]

\* _claims_for_papers, and the sections that need no other read.
ReadClaims ==
    /\ Stage("read", "gap")
    /\ seen' = Rows(claims, DOMAIN dist, {TypeOf[c] : c \in Claims})
    /\ \E dims \in DimensionSets : \E cov \in Coverages(seen', dims) :
       \E top \in TopPapers(seen') : report' = AssessedFrom(seen', cov, top)
    /\ UNCHANGED <<dist, moved>>

\* One research_gap row stands for each paper: the last the query returns.
ExplicitGaps ==
    LET usable == Rows(claims, Within(Far), {"research_gap"}) \ Broken
        picks == {S \in SUBSET usable : \A p \in PapersOf(usable) :
                    Cardinality({c \in S : PaperOf[c] = p}) = 1}
        first(S) == {c \in S : PaperOf[c] \in Nearest(PapersOf(S))}
    IN UNION {IF S \cap Strong # {} THEN first(S \cap Strong) ELSE first(S) : S \in picks}

\* What find_recurring_patterns may return first.
Patterns ==
    {S \in SUBSET Rows(claims, Within(Far), {"limitations", "research_gap"}) :
        Cardinality(PapersOf(S)) >= MinCluster}

ReuseGap ==
    [report EXCEPT !.gapStatus = "found", !.gapSource = "reused_candidate_gap",
                   !.gapCites = gap.cites, !.strong = TRUE]

InputSpecific(cites, isStrong) ==
    [report EXCEPT !.gapStatus = "found", !.gapSource = "input_specific",
                   !.gapCites = cites, !.strong = isStrong]

\* assess_research_gap, up to the text it reports.
FindGap ==
    /\ Stage("gap", "ground")
    /\ \/ /\ gap.seed \in Within(Far)
          /\ report' = ReuseGap
       \/ /\ gap.seed \notin Within(Far)
          /\ \E c \in ExplicitGaps : report' = InputSpecific({c}, c \in Strong)
       \/ /\ gap.seed \notin Within(Far)
          /\ ExplicitGaps = {}
          /\ \/ \E S \in Patterns, tight \in BOOLEAN : report' = InputSpecific(S, tight)
             \/ report' = [report EXCEPT !.gapStatus =
                             IF Within(Far) = {} THEN "not_assessed" ELSE "not_found"]
    /\ UNCHANGED <<dist, seen, moved>>

\* is_closely_grounded: evidence that is still there, of a near paper.
GroundGap ==
    /\ Stage("ground", "applications")
    /\ report' = [report EXCEPT !.close =
                    PapersOf(report.gapCites \cap Evidence) \cap Within(Near) # {}]
    /\ UNCHANGED <<dist, seen, moved>>

\* An application that restates its paper's own task is dropped; generic
\* wording is suspected sooner (0.65) than specific wording (0.92).
RestatesOwnTask(c, similarity) ==
    /\ Rows(seen, {PaperOf[c]}, TaskTypes) # {}
    /\ similarity >= IF c \in Strong THEN 92 ELSE 65

FilteredStatus(kept) == IF kept = {} THEN "no_evidence" ELSE "found"

\* The answers parse_response accepts judge every application exactly once:
\* what is left of them is the set they call relevant.
Judgments(S) == SUBSET S

\* assess_applications, then filter_relevant_applications: without an
\* accepted answer in two attempts the list stays as it is.
Applications ==
    LET candidates == Rows(seen, Within(Far), {"applications"})
    IN /\ Stage("applications", "feasibility")
       /\ \E similarity \in [candidates -> {50, 80, 95}] :
            LET S == {c \in candidates : ~RestatesOwnTask(c, similarity[c])}
                keep(kept, status) ==
                    report' = [report EXCEPT !.appStatus = status, !.apps = kept]
            IN \/ keep(S, IF Within(Far) = {} THEN "not_assessed"
                          ELSE IF S = {} THEN "no_evidence" ELSE "found")
               \/ /\ llm /\ S # {}
                  /\ \E kept \in Judgments(S) : keep(kept, FilteredStatus(kept))
       /\ UNCHANGED <<dist, seen, moved>>

\* assess_technical_feasibility: between Near and Widened a claim counts if
\* it shares enough of the input's vocabulary.
Feasibility ==
    LET types == {"method", "dataset"}
        closeRows == Rows(claims, Within(Near), types)
    IN /\ Stage("feasibility", "synthesis")
       /\ \E shared \in SUBSET Rows(claims, Within(Widened) \ Within(Near), types) :
            LET cites == closeRows \cup shared
                n == Cardinality(PapersOf(cites))
            IN report' = [report EXCEPT
                            !.feasibility = IF n = 0 THEN "not_assessed"
                                            ELSE IF n = 1 THEN "medium" ELSE "high",
                            !.feasCites = cites]
       /\ UNCHANGED <<dist, seen, moved>>

\* The answers parse_response accepts: every tier once, each citing some of
\* the applications and nothing else.
Answers(S) == [Tiers -> (SUBSET S) \ {{}}]

Offered == report.apps

\* synthesize_opportunities: without an accepted answer in two attempts
\* there are no opportunities.
Synthesize ==
    /\ Stage("synthesis", "risks")
    /\ \/ /\ ~(llm /\ report.appStatus = "found")
          /\ UNCHANGED report
       \/ /\ llm /\ report.appStatus = "found"
          /\ \/ report' = [report EXCEPT !.oppStatus = "unavailable"]
             \/ \E answer \in Answers(Offered) :
                  report' = [report EXCEPT !.oppStatus = "found", !.opps = TRUE,
                               !.modest = answer["direct"] \cup answer["adjacent"],
                               !.speculative = answer["speculative"]]
    /\ UNCHANGED <<dist, seen, moved>>

Risks ==
    /\ Stage("risks", "finish")
    /\ report' = [report EXCEPT !.risks = Rows(claims, Within(Far), {"limitations"}) \ Broken]
    /\ UNCHANGED <<dist, seen, moved>>

-----------------------------------------------------------------------------
(* The verdict and the save *)

\* Mutant: the opportunities, synthesized earlier, survive the guard.
Silenced_KeepsOpportunities(r) ==
    [r EXCEPT !.novelty = IF @ = "not_assessed" THEN @ ELSE "insufficient_evidence",
              !.gapStatus = "not_assessed", !.gapCites = {}, !.risks = {},
              !.feasibility = "not_assessed", !.feasCites = {},
              !.appStatus = "not_assessed", !.apps = {}, !.coverage = "out_of_corpus"]

\* What is left of a report the corpus has nothing to say about.
Silenced(r) ==
    [r EXCEPT !.novelty = IF @ = "not_assessed" THEN @ ELSE "insufficient_evidence",
              !.gapStatus = "not_assessed", !.gapCites = {}, !.risks = {},
              !.feasibility = "not_assessed", !.feasCites = {},
              !.appStatus = "not_assessed", !.apps = {}, !.coverage = "out_of_corpus",
              !.oppStatus = "not_assessed", !.opps = FALSE,
              !.modest = {}, !.speculative = {}]

Count(S) == Cardinality({x \in DOMAIN S : S[x]})

\* assess_recommendation of a finished report.
Recommended(r) ==
    LET novel == r.novelty \notin {"not_assessed", "insufficient_evidence"}
        found == r.gapStatus = "found" /\ r.close
        strong == r.close /\ r.strong
        feasible == r.feasibility # "not_assessed"
        assessed == Count(<<novel, found, feasible>>)
        strengths == Count(<<novel, found /\ strong, r.feasibility = "high">>)
    IN [r EXCEPT
          !.verdict =
              IF assessed = 0 THEN "INSUFFICIENT EVIDENCE"
              ELSE IF r.novelty \in {"medium", "high"} /\ strong /\ feasible
                   THEN "HIGH PRIORITY"
              ELSE IF r.novelty = "low" THEN "LOW PRIORITY"
              ELSE IF assessed = 1 THEN "REQUIRES HUMAN REVIEW"
              ELSE "MEDIUM PRIORITY",
          !.confidence = IF strengths = 3 THEN "high"
                         ELSE IF strengths = 2 THEN "medium" ELSE "low"]

\* The checks of _assert_evidence_linked; a reused gap is exempt.
Incomplete(r) ==
    \/ r.gapStatus = "found" /\ r.gapSource = "input_specific" /\ r.gapCites = {}
    \/ r.appStatus = "found" /\ r.apps = {}
    \/ r.feasibility # "not_assessed" /\ r.feasCites = {}

Links(r) ==
    UNION {r.comparison, r.noveltyCites, r.gapCites, r.apps, r.feasCites,
           r.modest, r.speculative, r.risks}

\* save_claims_for_assessment: a claim for each section that has evidence,
\* except that a reused gap has its own claim already.
Claimed(r) ==
    LET roles == [comparison |-> r.comparison, novelty |-> r.noveltyCites,
                  research_gap |-> IF r.gapSource = "input_specific" THEN r.gapCites ELSE {},
                  application |-> r.apps, opportunity |-> r.modest,
                  speculation |-> r.speculative, feasibility |-> r.feasCites,
                  risk |-> r.risks]
    IN {role \in DOMAIN roles : roles[role] # {}}

\* The save fails whole when a foreign key finds evidence gone.
Finish ==
    LET final == Recommended(IF IsOutOfCorpus THEN Silenced(report) ELSE report)
    IN /\ pc = "finish"
       /\ report' = [final EXCEPT !.claimed = Claimed(final)]
       /\ pc' = IF Incomplete(final) THEN "incomplete"
                ELSE IF Links(final) \subseteq Evidence THEN "saved" ELSE "failed"
       /\ UNCHANGED <<corpus, llm, dist, seen, moved>>

-----------------------------------------------------------------------------

\* A gap was saved from the claims of several papers, and approved.
Init ==
    /\ claims \in SUBSET Claims
    /\ row = [c \in Claims |-> IF c \in claims THEN "here" ELSE "new"]
    /\ \E seed \in Papers \cup {None} :
       \E cites \in SUBSET Rows(claims, Papers, {"limitations", "research_gap"}) :
         /\ seed = None <=> Cardinality(PapersOf(cites)) < MinCluster
         /\ seed = None => cites = {}
         /\ gap = [seed |-> seed, cites |-> cites]
    /\ changes = 0
    /\ pc = "start"
    /\ llm \in BOOLEAN
    /\ dist = <<>>
    /\ seen = {}
    /\ report = Blank
    /\ moved = FALSE

Next ==
    \/ Reset
    \/ \E p \in Papers : Extract(p)
    \/ \E c \in Claims : Revalidate(c)
    \/ Retrieve
    \/ ReadClaims
    \/ FindGap
    \/ GroundGap
    \/ Applications
    \/ Feasibility
    \/ Synthesize
    \/ Risks
    \/ Finish

Spec == Init /\ [][Next]_vars

-----------------------------------------------------------------------------
(* Properties *)

Saved == pc = "saved"

\* A report on an input outside the corpus claims nothing: whatever the
\* stages found before the guard ran, no gap, application, opportunity, risk
\* or feasibility is left in it or in its claims, and its verdict says so.
OutOfCorpusIsSilent ==
    (Saved /\ IsOutOfCorpus) =>
        /\ report.verdict = "INSUFFICIENT EVIDENCE" /\ report.confidence = "low"
        /\ report.claimed \subseteq {"comparison", "novelty"}
        /\ Links(report) \subseteq report.noveltyCites \cup report.comparison
        /\ ~report.opps

\* HIGH PRIORITY wants a strong gap from a near paper, and novelty that is not
\* low; but a near paper with a claim makes novelty low.  So the verdict is
\* given only when the corpus changed between the reads of one build, or for
\* an approved gap whose near evidence has lost all its paper's claims.
HighPriorityIsTheException ==
    (Saved /\ report.verdict = "HIGH PRIORITY") =>
        \/ moved
        \/ /\ report.gapSource = "reused_candidate_gap"
           /\ Within(Near) \cap PapersOf(seen) = {}
-----------------------------------------------------------------------------
(* The invariant behind them *)

\* Distances are hundredths of a cosine distance, rounded.
ASSUME DistancesAreNatural == Distances \subseteq Nat

Levels == {"not_assessed", "insufficient_evidence", "low", "medium", "high"}

Reports ==
    [novelty : Levels, noveltyCites : SUBSET Claims, comparison : SUBSET Claims,
     gapSource : {"none", "reused_candidate_gap", "input_specific"},
     gapStatus : {"not_assessed", "not_found", "found"}, gapCites : SUBSET Claims,
     close : BOOLEAN, strong : BOOLEAN,
     appStatus : {"not_assessed", "no_evidence", "found"}, apps : SUBSET Claims,
     feasibility : {"not_assessed", "medium", "high"}, feasCites : SUBSET Claims,
     oppStatus : {"not_assessed", "unavailable", "found"}, opps : BOOLEAN,
     modest : SUBSET Claims, speculative : SUBSET Claims,
     risks : SUBSET Claims, coverage : {"in_corpus", "out_of_corpus"},
     verdict : {"none", "INSUFFICIENT EVIDENCE", "HIGH PRIORITY", "LOW PRIORITY",
                "REQUIRES HUMAN REVIEW", "MEDIUM PRIORITY"},
     confidence : {"none", "low", "medium", "high"},
     claimed : SUBSET {"comparison", "novelty", "research_gap", "application",
                       "opportunity", "speculation", "feasibility", "risk"}]

Stages == {"start", "read", "gap", "ground", "applications", "feasibility", "synthesis",
           "risks", "finish", "saved", "failed", "incomplete"}

TypeOK ==
    /\ claims \subseteq Claims
    /\ row \in [Claims -> {"new", "here", "gone"}]
    /\ gap \in [seed : Papers \cup {None}, cites : SUBSET Claims]
    /\ changes \in Nat
    /\ pc \in Stages
    /\ llm \in BOOLEAN /\ moved \in BOOLEAN
    /\ \E found \in SUBSET Papers : dist \in [found -> Distances]
    /\ seen \subseteq Claims
    /\ report \in Reports

\* While the sections are built nothing has been concluded.
NothingConcludedYet ==
    pc \notin {"saved", "failed", "incomplete"} =>
        report.verdict = "none" /\ report.confidence = "none" /\ report.claimed = {}

\* The claims read are the corpus' claims of what was retrieved, until others
\* change it.
SeenIsTheCorpus ==
    /\ PapersOf(seen) \subseteq DOMAIN dist
    /\ pc \in {"start", "read"} => seen = {}
    /\ pc \notin {"start", "read"} /\ ~moved =>
           seen = Rows(claims, DOMAIN dist, {TypeOf[c] : c \in Claims})

\* A claim of a near paper caps novelty.
NearMeansLow ==
    report.novelty \in {"medium", "high"} => PapersOf(seen) \cap Within(Near) = {}

\* A gap of the input's own cites claims the build has seen, and a gap is
\* close on account of a near paper it cites.
GapsAreSeen ==
    /\ pc \in {"start", "read", "gap", "ground"} => ~report.close
    /\ report.gapSource = "none" => report.gapCites = {}
    /\ report.gapSource = "input_specific" /\ ~moved => report.gapCites \subseteq seen
    /\ pc \notin {"saved", "failed", "incomplete"} /\ report.close =>
           PapersOf(report.gapCites) \cap Within(Near) # {}
    /\ pc \in {"start", "read", "gap"} => report.gapSource = "none"

IInv ==
    /\ TypeOK /\ NothingConcludedYet /\ SeenIsTheCorpus /\ NearMeansLow /\ GapsAreSeen
    /\ OutOfCorpusIsSilent /\ HighPriorityIsTheException
=============================================================================
