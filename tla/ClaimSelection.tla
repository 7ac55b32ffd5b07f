---------------------------- MODULE ClaimSelection ----------------------------
(***************************************************************************)
(* How HybridExtractor chooses the sentences of one paper that become      *)
(* claims.                                                                 *)
(*                                                                         *)
(* The heuristic extractor goes through the fields and takes the first     *)
(* sentence with a cue phrase, in the field's section of the full text or  *)
(* else in the abstract; the first sentence of the abstract becomes the    *)
(* problem.  The semantic extractor groups the fields by the text they     *)
(* draw from and lets each sentence propose itself to the field it is      *)
(* closest to.  The hybrid takes one candidate a field.                    *)
(*                                                                         *)
(* Which sentence has a cue phrase, what it is closest to and how close is *)
(* nondeterministic; only the shape of a sentence is kept.                 *)
(***************************************************************************)
EXTENDS Naturals, Sequences, FiniteSets

CONSTANTS
    CueFields,   \* the fields with cue phrases, in the order they are tried
    AbstractText, \* the sentences of the abstract, in order
    SectionTexts,  \* the sentences of the full text, by section
    QuoteShapes  \* the shapes the sentences may have

\* The priority of sections for each field (FIELD_SECTIONS).
FieldSections ==
    [research_question |-> <<"introduction">>,
     method            |-> <<"methods", "experiments">>,
     dataset           |-> <<"methods", "experiments">>,
     main_contribution |-> <<"introduction", "conclusion">>,
     results           |-> <<"results">>,
     limitations       |-> <<"discussion", "limitations", "conclusion">>,
     research_gap      |-> <<"conclusion", "discussion", "limitations">>,
     applications      |-> <<"discussion", "conclusion", "introduction">>,
     problem           |-> <<>>]

\* The similarities that matter: below MIN_SIMILARITY, below
\* MEDIUM_CONFIDENCE_SIMILARITY, and above.
Similarities == 0 .. 2

Distinct(list) == \A i, j \in DOMAIN list : list[i] = list[j] => i = j

ASSUME CueFieldsAssumption == CueFields \in Seq(DOMAIN FieldSections \ {"problem"})
ASSUME TextsAssumption ==
    Distinct(AbstractText) /\ \A s \in DOMAIN SectionTexts : Distinct(SectionTexts[s])
ASSUME SentencesInOrder ==
    \A text \in {AbstractText} \cup {SectionTexts[s] : s \in DOMAIN SectionTexts} :
        text \in Seq({text[i] : i \in DOMAIN text})
ASSUME ShapesAssumption ==
    QuoteShapes \subseteq {"sentence", "short", "cut", "endless", "boilerplate", "heading"}

VARIABLES
    present,    \* the texts the paper has: "abstract" and sections
    shape,      \* of each sentence
    tried,      \* how many fields the heuristic extractor has been through
    claimed,    \* the sentences of the abstract a cue phrase has claimed
    heuristic,  \* its candidates, by field
    semantic,   \* those of the semantic extractor
    matched,    \* the fields it has matched
    chosen,     \* the candidates of the hybrid
    extractor   \* at work: "heuristic", "semantic"; or "done"

selectionVars == <<present, shape, tried, claimed, heuristic, semantic, matched, chosen, extractor>>

AllFields == {"problem"} \cup {CueFields[i] : i \in DOMAIN CueFields}

TextOf(origin) == IF origin = "abstract" THEN AbstractText ELSE SectionTexts[origin]

SentencesOf(origin) == {TextOf(origin)[i] : i \in DOMAIN TextOf(origin)}

AllSentences == UNION {SentencesOf(origin) : origin \in {"abstract"} \cup DOMAIN SectionTexts}

-----------------------------------------------------------------------------
(* quote_quality.py, sections.py                                           *)

\* Cut inside a word, a bracket, an abbreviation or an enumeration.
LooksTruncated(s) == shape[s] = "cut"

LooksLikeHeading(s) == shape[s] = "heading"

IsAcceptableQuote(s) ==
    /\ shape[s] \notin {"short", "endless", "boilerplate"}
    /\ ~LooksTruncated(s)
    /\ ~LooksLikeHeading(s)

\* The section a field draws from: the first of its sections the paper has;
\* else the abstract.
PlaceOf(f) ==
    LET order == FieldSections[f]
        there == {i \in DOMAIN order : order[i] \in present}
    IN  IF there = {} THEN "abstract"
        ELSE order[CHOOSE i \in there : \A j \in there : i <= j]

-----------------------------------------------------------------------------

SelectionInit ==
    /\ present \in SUBSET ({"abstract"} \cup DOMAIN SectionTexts)
    /\ shape \in [AllSentences -> QuoteShapes]
    /\ tried = 0 /\ claimed = {} /\ matched = {}
    /\ heuristic = <<>> /\ semantic = <<>> /\ chosen = <<>>
    /\ extractor = "heuristic"

Candidate(s, confidence, section) == [quote |-> s, confidence |-> confidence, section |-> section]

With(found, f, c) == [g \in DOMAIN found \cup {f} |-> IF g = f THEN c ELSE found[g]]

\* One field of the heuristic extractor: a hit in its section wins, and leaves
\* the abstract unread.
CueMatch ==
    /\ extractor = "heuristic"
    /\ tried < Len(CueFields)
    /\ LET f == CueFields[tried + 1]
       IN  \/ /\ PlaceOf(f) # "abstract"
              /\ \E s \in SentencesOf(PlaceOf(f)) :
                     /\ IsAcceptableQuote(s)
                     /\ heuristic' = With(heuristic, f, Candidate(s, "high", PlaceOf(f)))
              /\ UNCHANGED claimed
           \/ /\ "abstract" \in present
              /\ \E s \in SentencesOf("abstract") :
                     /\ IsAcceptableQuote(s)
                     /\ heuristic' = With(heuristic, f, Candidate(s, "medium", "abstract"))
                     /\ claimed' = claimed \cup {s}
           \/ UNCHANGED <<heuristic, claimed>>
    /\ tried' = tried + 1
    /\ UNCHANGED <<present, shape, semantic, matched, chosen, extractor>>

\* Mutant: the fallback does not look at what cue phrases have claimed.
Unclaimed_Any == {i \in DOMAIN AbstractText : IsAcceptableQuote(AbstractText[i])}

\* The sentences of the abstract that may become the problem.
Unclaimed ==
    {i \in DOMAIN AbstractText :
        AbstractText[i] \notin claimed /\ IsAcceptableQuote(AbstractText[i])}

\* The problem: unless a cue phrase has claimed the opening sentence, the first
\* sentence that is well formed and unclaimed.
ProblemFallback ==
    /\ extractor = "heuristic"
    /\ tried = Len(CueFields)
    /\ heuristic' =
          IF "abstract" \in present /\ AbstractText[1] \notin claimed /\ Unclaimed # {}
          THEN LET first == CHOOSE i \in Unclaimed : \A j \in Unclaimed : i <= j
               IN  With(heuristic, "problem", Candidate(AbstractText[first], "low", "abstract"))
          ELSE heuristic
    /\ extractor' = "semantic"
    /\ UNCHANGED <<present, shape, tried, claimed, semantic, matched, chosen>>

\* Mutant: every field takes the closest sentence, whoever else takes it.
Suitors_Any(f, origin, favourite) ==
    {i \in DOMAIN TextOf(origin) : IsAcceptableQuote(TextOf(origin)[i])}

\* The sentences that prefer this field and may be quoted.
Suitors(f, origin, favourite) ==
    {i \in DOMAIN TextOf(origin) :
        favourite[i] = f /\ IsAcceptableQuote(TextOf(origin)[i])}

\* The first of the closest suitors.
Closest(suitors, score) ==
    CHOOSE i \in suitors :
        \A j \in suitors : score[i] > score[j] \/ (score[i] = score[j] /\ i <= j)

\* One pool: the fields that draw from the same text, each sentence of which
\* proposes itself to one of them.
MatchPool ==
    /\ extractor = "semantic"
    /\ \E f \in AllFields \ matched :
           LET origin == PlaceOf(f)
               fields == {g \in AllFields : PlaceOf(g) = origin}
           IN  /\ matched' = matched \cup fields
               /\ IF origin \in present
                  THEN \E favourite \in [DOMAIN TextOf(origin) -> fields],
                          score \in [DOMAIN TextOf(origin) -> Similarities] :
                          LET suitors(g) == Suitors(g, origin, favourite)
                              best(g) == Closest(suitors(g), score)
                              served == {g \in fields : suitors(g) # {} /\ score[best(g)] > 0}
                          IN  semantic' =
                                [g \in DOMAIN semantic \cup served |->
                                   IF g \in served
                                   THEN Candidate(TextOf(origin)[best(g)],
                                                  IF score[best(g)] = 2 THEN "medium" ELSE "low",
                                                  origin)
                                   ELSE semantic[g]]
                  ELSE UNCHANGED semantic
    /\ UNCHANGED <<present, shape, tried, claimed, heuristic, chosen, extractor>>

\* HybridExtractor._choose: an explicit phrase before a similarity, and for the
\* problem the heuristic's answer whatever its confidence.
Choose ==
    /\ extractor = "semantic"
    /\ matched = AllFields
    /\ chosen' =
          [f \in DOMAIN heuristic \cup DOMAIN semantic |->
             IF \/ f \notin DOMAIN semantic
                \/ /\ f \in DOMAIN heuristic
                   /\ f = "problem" \/ heuristic[f].confidence \in {"medium", "high"}
             THEN heuristic[f]
             ELSE semantic[f]]
    /\ extractor' = "done"
    /\ UNCHANGED <<present, shape, tried, claimed, heuristic, semantic, matched>>

SelectionNext ==
    \/ CueMatch
    \/ ProblemFallback
    \/ MatchPool
    \/ Choose

SelectionSpec == SelectionInit /\ [][SelectionNext]_selectionVars

-----------------------------------------------------------------------------
(* Properties.                                                             *)

\* Whose candidates for these fields the hybrid has taken from the heuristic one.
OfTheHeuristic(fields) == {f \in fields : f \in DOMAIN heuristic /\ chosen[f] = heuristic[f]}

\* Two claims of a paper may quote the same sentence of a text: when two cue
\* phrases point at it, or when the extractors file it under different types.
\* But the semantic extractor never does it alone, since a sentence proposes
\* itself to one field and a field nobody prefers goes without; and the problem
\* of the fallback is never a sentence that a cue phrase has filed.
SharedSentencesAreExcused ==
    \A f, g \in DOMAIN chosen :
        (f # g /\ chosen[f].section = chosen[g].section /\ chosen[f].quote = chosen[g].quote)
            => LET cued == OfTheHeuristic({f, g})
               IN  cued # {} /\ ("problem" \in cued => cued = {"problem"})

-----------------------------------------------------------------------------
(* The invariant behind it                                                 *)

\* What the cue phrases have taken from the abstract is claimed, and the problem
\* is looked for when they are through.
ClaimedByCue ==
    /\ \A f \in DOMAIN heuristic \ {"problem"} :
           heuristic[f].section = "abstract" => heuristic[f].quote \in claimed
    /\ "problem" \in DOMAIN heuristic => /\ heuristic["problem"].quote \notin claimed
                                         /\ heuristic["problem"].section = "abstract"
    /\ extractor = "heuristic" => "problem" \notin DOMAIN heuristic
    /\ tried \in Nat

\* Pools are matched whole, each field draws from its own place, and a sentence
\* of a place goes to one field.
PoolsAreWhole ==
    /\ present \subseteq {"abstract"} \cup DOMAIN SectionTexts
    /\ \A f \in matched, g \in AllFields : PlaceOf(f) = PlaceOf(g) => g \in matched
    /\ \A f \in DOMAIN semantic : f \in matched /\ semantic[f].section = PlaceOf(f)
    /\ \A f, g \in DOMAIN semantic :
           (f # g /\ semantic[f].section = semantic[g].section)
               => semantic[f].quote # semantic[g].quote

\* The hybrid adds nothing of its own.
ChosenFromTheTwo ==
    /\ chosen # <<>> => extractor = "done"
    /\ \A f \in DOMAIN chosen : \/ f \in DOMAIN heuristic /\ chosen[f] = heuristic[f]
                                \/ f \in DOMAIN semantic /\ chosen[f] = semantic[f]

SelectionInv == ClaimedByCue /\ PoolsAreWhole /\ ChosenFromTheTwo
=============================================================================
