----------------------------- MODULE GapDetection -----------------------------
(***************************************************************************)
(* What the detection of gaps finds at one seed: the limitations and gaps  *)
(* that the papers around it state are grouped, each group is judged by    *)
(* the kind of its claims, and what other papers contribute can only       *)
(* lower the judgement.  Beside it a forced extraction may delete what it  *)
(* reads, between its two reads or before it saves.                        *)
(*                                                                         *)
(* How similar two claims are is one of three grades, the lowest of which  *)
(* is too little to group them.  What is said in a claim, and whether its  *)
(* paper's own contribution covers it, is chosen when it is looked at.     *)
(***************************************************************************)
EXTENDS Naturals, FiniteSets

CONSTANTS
    GapClaims,       \* limitations and research gaps stated in the neighborhood
    PaperOf,         \* the paper of each
    OtherPapers,     \* papers of the neighborhood that state none
    Kinds,           \* what a claim can be: strong, field, resolved
    MinClusterSize

ASSUME GapAssumption ==
    /\ IsFiniteSet(GapClaims)
    /\ Kinds \subseteq [strong : BOOLEAN, field : BOOLEAN, resolved : BOOLEAN]
    /\ MinClusterSize \in Nat \ {0, 1}

Grades == 0..2
Pairs(set) == {pair \in SUBSET set : Cardinality(pair) = 2}
PapersOf(set) == {PaperOf[c] : c \in set}
GapPapers == PapersOf(GapClaims)

VARIABLES
    step,           \* where the detection is
    pool,           \* the gap claims it has read
    grade,          \* the similarity of each pair of them
    contributing,   \* papers whose contributions it has read
    clusters,       \* a partition of the claims
    surviving,      \* clusters that clear the bar, with status and medoid
    facts,          \* what the claims of those clusters are, and truly covered
    drafts,         \* what would be saved: members, status, papers addressing it
    savedGaps,      \* what was saved
    reset           \* whether the evidence it has read has been deleted

gapVars == <<step, pool, grade, contributing, clusters, surviving, facts, drafts, savedGaps, reset>>

GapsInit ==
    /\ step = "seed"
    /\ pool = {} /\ grade = <<>> /\ contributing = {} /\ clusters = {}
    /\ surviving = {} /\ facts = <<>> /\ drafts = {} /\ savedGaps = {}
    /\ reset = FALSE

-----------------------------------------------------------------------------
(* detect_candidate_gaps: what is read *)

\* find_similar_to_paper: a seed alone has nothing to be compared with.
NoNeighborhood ==
    /\ step = "seed"
    /\ step' = "no_relevant_papers"
    /\ UNCHANGED <<pool, grade, contributing, clusters, surviving, facts, drafts, savedGaps, reset>>

LoadGapClaims ==
    /\ step = "seed"
    /\ pool' \in SUBSET GapClaims
    /\ grade' \in [Pairs(pool') -> Grades]
    /\ step' = "claims"
    /\ UNCHANGED <<contributing, clusters, surviving, facts, drafts, savedGaps, reset>>

\* A statement of its own: after a forced extraction it finds what there is by
\* then.  Every claim is a cluster at first, if they are enough.
LoadContributions ==
    /\ step = "claims"
    /\ contributing' \in IF reset THEN SUBSET (GapPapers \cup OtherPapers) ELSE {GapPapers \cup OtherPapers}
    /\ clusters' = IF Cardinality(pool) < MinClusterSize THEN {} ELSE {{c} : c \in pool}
    /\ step' = "clustering"
    /\ UNCHANGED <<pool, grade, surviving, facts, drafts, savedGaps, reset>>

-----------------------------------------------------------------------------
(* find_recurring_patterns *)

\* How similar the members of the one are to those of the other.
Across(a, b) == {grade[pair] : pair \in {p \in Pairs(a \cup b) : p \cap a # {} /\ p \cap b # {}}}

\* Mutant: two clusters are as close as their closest members.
Linkage_Closest(a, b) == CHOOSE g \in Across(a, b) : \A h \in Across(a, b) : h <= g

\* Complete linkage: two clusters are as close as their least similar members.
Linkage(a, b) == CHOOSE g \in Across(a, b) : \A h \in Across(a, b) : g <= h

Mergeable == {ab \in SUBSET clusters : Cardinality(ab) = 2 /\ \A a, b \in ab : a # b => Linkage(a, b) > 0}

\* The closest two are merged, while two are similar enough.
Merge ==
    /\ step = "clustering"
    /\ \E ab \in Mergeable :
         /\ \A cd \in Mergeable :
              \A a, b \in ab, c, d \in cd : a # b /\ c # d => Linkage(c, d) <= Linkage(a, b)
         /\ clusters' = (clusters \ ab) \cup {UNION ab}
    /\ UNCHANGED <<step, pool, grade, contributing, surviving, facts, drafts, savedGaps, reset>>

\* The member that is most similar to the others; the first of several.
Closeness(c, set) ==
    Cardinality({d \in set \ {c} : grade[{c, d}] >= 1}) + Cardinality({d \in set \ {c} : grade[{c, d}] = 2})

Medoids(set) == {c \in set : \A d \in set : Closeness(d, set) <= Closeness(c, set)}

\* Only patterns that several papers state are kept, each under one of its claims.
Patterns ==
    /\ step = "clustering" /\ Mergeable = {}
    /\ LET kept == {set \in clusters : Cardinality(PapersOf(set)) >= MinClusterSize}
       IN \E medoid \in [kept -> UNION kept] :
            /\ \A set \in kept : medoid[set] \in Medoids(set)
            /\ surviving' = {[members |-> set, medoid |-> medoid[set]] : set \in kept}
            /\ facts' \in [UNION kept -> [kind : Kinds, covered : BOOLEAN]]
    /\ step' = "judging"
    /\ grade' = <<>>
    /\ clusters' = {}
    /\ UNCHANGED <<pool, contributing, drafts, savedGaps, reset>>

-----------------------------------------------------------------------------
(* Judging *)

\* own_contribution_overlap: a paper without contributions covers nothing.
Overlaps(c) == facts[c].covered /\ PaperOf[c] \in contributing

Points(b) == IF b THEN 1 ELSE 0

\* classify_claim, given whether the claim is read as covered.
Role(c, covered) ==
    LET kind == facts[c].kind
        start == IF kind.strong THEN 2 ELSE 1
        less == Points(kind.resolved) + Points(covered)
    IN IF start >= 2 + less /\ kind.field THEN "anchor"
       ELSE IF start >= 1 + less THEN "supporting"
       ELSE "motivation"

\* Mutant: the papers behind one anchor need not be independent.
ClassifyCluster_AnchorSuffices(set) ==
    LET anchors == PapersOf({c \in set : Role(c, Overlaps(c)) = "anchor"})
        supporting == {c \in set : Role(c, Overlaps(c)) # "motivation"}
    IN IF Cardinality(anchors) >= 2 THEN "strong_gap"
       ELSE IF Cardinality(anchors) = 1 /\ Cardinality(PapersOf(supporting)) >= MinClusterSize THEN "potential_gap"
       ELSE IF Cardinality(PapersOf({c \in supporting : ~ Overlaps(c)})) >= MinClusterSize THEN "known_limitation"
       ELSE "none"

\* classify_cluster: several anchors; one, with support that is independent of the
\* papers' own contributions; or nothing but such support.
ClassifyCluster(set) ==
    LET anchors == PapersOf({c \in set : Role(c, Overlaps(c)) = "anchor"})
        supporting == {c \in set : Role(c, Overlaps(c)) # "motivation"}
        independent == PapersOf({c \in supporting : ~ Overlaps(c)})
    IN IF Cardinality(anchors) >= 2 THEN "strong_gap"
       ELSE IF /\ Cardinality(anchors) = 1
               /\ Cardinality(PapersOf(supporting)) >= MinClusterSize
               /\ Cardinality(independent) >= 2 THEN "potential_gap"
       ELSE IF Cardinality(independent) >= MinClusterSize THEN "known_limitation"
       ELSE "none"

Lower(status) == IF status = "strong_gap" THEN "potential_gap" ELSE "known_limitation"

\* find_addressing_papers and apply_addressing_downgrade: contributions of papers
\* that are not in the cluster, when they resemble its medoid.
Draft(pattern, resembling) ==
    LET others == resembling \cap (contributing \ PapersOf(pattern.members))
        status == ClassifyCluster(pattern.members)
    IN [members |-> pattern.members, medoid |-> pattern.medoid, addressing |-> others,
        status |-> IF others = {} THEN status ELSE Lower(status)]

Conclude ==
    /\ step = "judging"
    /\ \E resembling \in SUBSET (GapPapers \cup OtherPapers) :
         drafts' = {Draft(p, resembling) : p \in {q \in surviving : ClassifyCluster(q.members) # "none"}}
    /\ step' = IF drafts' = {} THEN "insufficient_evidence" ELSE "gaps_found"
    /\ surviving' = {}
    /\ UNCHANGED <<pool, grade, contributing, clusters, facts, savedGaps, reset>>

\* save_candidate_gaps links every member's evidence: if that is gone, it fails.
Save ==
    /\ step = "gaps_found"
    /\ step' = IF reset THEN "failed" ELSE "saved"
    /\ savedGaps' = IF reset THEN {} ELSE drafts
    /\ UNCHANGED <<pool, grade, contributing, clusters, surviving, facts, drafts, reset>>

\* A forced extraction deletes all evidence and starts to find it again.
ForcedExtraction ==
    /\ step \in {"claims", "clustering", "judging", "gaps_found"} /\ ~ reset
    /\ reset' = TRUE
    /\ UNCHANGED <<step, pool, grade, contributing, clusters, surviving, facts, drafts, savedGaps>>

GapsNext ==
    \/ NoNeighborhood \/ LoadGapClaims \/ LoadContributions
    \/ Merge \/ Patterns \/ Conclude \/ Save
    \/ ForcedExtraction

GapsSpec == GapsInit /\ [][GapsNext]_gapVars

-----------------------------------------------------------------------------
(* Properties *)

\* No claim is drawn into a group by a third one: any two claims of a group are
\* similar enough on their own, whatever was merged before.
EveryPairIsSimilar ==
    step = "clustering" => \A set \in clusters : \A pair \in Pairs(set) : grade[pair] > 0

\* A gap that is saved is open as far as its papers tell: at least two of them
\* state it in a claim that their own contribution does not truly cover, and for
\* a strong one these claims are strong, speak of the field and announce no
\* solution, and no other paper addresses it.  A detection whose second read was
\* emptied by a forced extraction would see nothing covered, but cannot be saved.
IsOpen(gap) ==
    LET open == {c \in gap.members : ~ facts[c].covered /\ Role(c, FALSE) # "motivation"}
        anchors == {c \in open : Role(c, FALSE) = "anchor"}
    IN /\ Cardinality(PapersOf(open)) >= 2
       /\ gap.status = "strong_gap" => Cardinality(PapersOf(anchors)) >= 2 /\ gap.addressing = {}

SavedGapsAreOpen == \A gap \in savedGaps : IsOpen(gap)

-----------------------------------------------------------------------------
(* The invariant behind them *)

Clustering ==
    step \in {"claims", "clustering"} =>
        /\ pool \subseteq GapClaims
        /\ grade \in [Pairs(pool) -> Grades]

\* The clusters share no claim.
ClustersAreApart ==
    step = "clustering" =>
        /\ \A a \in clusters : a \subseteq pool
        /\ \A a, b \in clusters : a # b => a \cap b = {}

\* What is judged is known, and all contributions are, unless the evidence has
\* been deleted.
Judging ==
    /\ facts \in [DOMAIN facts -> [kind : Kinds, covered : BOOLEAN]]
    /\ DOMAIN facts \subseteq GapClaims
    /\ \A p \in surviving : p.members \subseteq DOMAIN facts
    /\ step \in {"clustering", "judging"} /\ ~ reset => contributing = GapPapers \cup OtherPapers

DraftsAreOpen ==
    step = "gaps_found" /\ ~ reset => \A gap \in drafts : IsOpen(gap)

GapsInv ==
    /\ Clustering /\ ClustersAreApart /\ EveryPairIsSimilar
    /\ Judging /\ DraftsAreOpen /\ SavedGapsAreOpen
    /\ savedGaps # {} => step = "saved"
=============================================================================
