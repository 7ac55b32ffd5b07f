------------------------------ MODULE LocalModel ------------------------------
(***************************************************************************)
(* The stages of a report that ask a local language model: which           *)
(* dimensions an idea has, which of the applications found for it are      *)
(* about it, and what opportunities they offer.  The model may write       *)
(* anything, or be silent, or be switched off.  Each stage reads an answer *)
(* by rules of its own, asks once more when it breaks them, and then does  *)
(* without: the dimensions come from the text itself, all applications     *)
(* stay, there are no opportunities.                                       *)
(*                                                                         *)
(* An answer is a sequence of lines.  A line is what its expressions make  *)
(* of it: the number and the verdict, the tier, the numbers cited and      *)
(* whether enough text is left, a label; prose is none of these.  Text is  *)
(* a sequence of words and breaks - stopwords and punctuation -, and no    *)
(* word is a part of another.                                              *)
(***************************************************************************)
EXTENDS Naturals, Sequences, FiniteSets, SequencesExt, FiniteSetsExt, Subsequences

CONSTANTS
    ContentWords,    \* content words
    MaxIdea,         \* bound: tokens of an idea
    MaxPhraseWords,  \* MAX_PHRASE_WORDS, 5
    MaxDimensions,   \* max_dimensions, 8
    MaxFound,        \* bound: applications found
    MaxAnswer        \* bound: lines of an answer

ASSUME PhraseAssumption == MaxPhraseWords \in Nat \ {0} /\ MaxDimensions \in Nat \ {0}
ASSUME FoundAssumption == MaxFound \in Nat /\ MaxAnswer \in Nat

Cut == "break"
Tokens == ContentWords \cup {Cut}
NoLine == [prose |-> TRUE]
Tries == 2  \* one retry

VARIABLES
    asks,       \* the stage that is next, or "reported"
    idea,       \* the text of the input
    isOn,       \* enable_llm_stages and OLLAMA_ENABLED
    failed,     \* answers of this stage that were refused, and silences
    dimensions, \* the labels, or the phrases, in use
    heard,      \* whether they are the model's
    found,      \* how many applications assess_applications has found
    remaining,  \* those of them that stay, in order
    offers      \* source_application_indices by tier; empty without synthesis

modelVars == <<asks, idea, isOn, failed, dimensions, heard, found, remaining, offers>>

AnswersOf(Lines) == UNION {[1..n -> Lines] : n \in 0..MaxAnswer}

-----------------------------------------------------------------------------
(* Keywords of a text: extract_dimensions *)

\* Maximal runs of words between breaks, as their first and last places.
WordRuns(text) ==
    {run \in (DOMAIN text) \X (DOMAIN text) :
        /\ run[1] <= run[2]
        /\ \A k \in run[1]..run[2] : text[k] # Cut
        /\ run[1] = 1 \/ text[run[1] - 1] = Cut
        /\ run[2] = Len(text) \/ text[run[2] + 1] = Cut}

\* The places where the windows of a run begin, and their end.
Windows(run) ==
    {<<i, IF run[2] < i + MaxPhraseWords THEN run[2] ELSE i + MaxPhraseWords - 1>> :
        i \in {k \in run[1]..run[2] : (k - run[1]) % MaxPhraseWords = 0}}

Candidates(text) ==
    {SubSeq(text, w[1], w[2]) : w \in UNION {Windows(run) : run \in WordRuns(text)}}

\* Where a candidate stands first.
StandsFirst(text, p) ==
    Min({w[1] : w \in {v \in UNION {Windows(run) : run \in WordRuns(text)} : SubSeq(text, v[1], v[2]) = p}})

\* Where a word stands in a candidate, and which.
Stands(text, w) == {o \in Candidates(text) \X DOMAIN text : o[2] \in DOMAIN o[1] /\ o[1][o[2]] = w}

Frequency(text, w) == Cardinality(Stands(text, w))

\* Each time it stands in one, all of its words count.
Degree(text, w) == Cardinality({o \in Stands(text, w) \X DOMAIN text : o[2] \in DOMAIN o[1][1]})

\* A multiple of every frequency: no word stands more often than there are words.
Multiple(text) ==
    LET product[n \in 0..Len(text)] == IF n = 0 THEN 1 ELSE n * product[n - 1]
    IN product[Len(text)]

\* A word scores the mean length of the candidates it stands in, a phrase the
\* sum of its words; so that scores are whole, all are multiplied by the same.
WordScore(text, w) == Degree(text, w) * (Multiple(text) \div Frequency(text, w))

PhraseScore(text, p) ==
    LET total[n \in 0..Len(p)] == IF n = 0 THEN 0 ELSE total[n - 1] + WordScore(text, p[n])
    IN total[Len(p)]

Scores(text) == [p \in Candidates(text) |-> PhraseScore(text, p)]

PartOf(p, q) == \E n \in 0..Len(q) : n + Len(p) <= Len(q) /\ SubSeq(q, n + 1, n + Len(p)) = p

Related(p, q) == PartOf(p, q) \/ PartOf(q, p)

\* The order in which candidates are considered.
RanksBefore(text, score, p, q) ==
    \/ score[p] > score[q]
    \/ score[p] = score[q] /\ StandsFirst(text, p) < StandsFirst(text, q)

\* The best of the candidates that are left.
Best(text, score, left) == CHOOSE p \in left : \A q \in left : ~RanksBefore(text, score, q, p)

\* Mutant: only a phrase around one that is kept is dropped.
Consider_Around(acc, p) ==
    [left |-> acc.left \ {p},
     kept |-> IF Cardinality(acc.kept) >= MaxDimensions \/ \E q \in acc.kept : PartOf(q, p) THEN acc.kept
              ELSE acc.kept \cup {p}]

\* A candidate is kept if it is no part of one that is, nor one of those a part
\* of it, and up to the limit.
Consider(acc, p) ==
    [left |-> acc.left \ {p},
     kept |-> IF Cardinality(acc.kept) >= MaxDimensions \/ \E q \in acc.kept : Related(p, q) THEN acc.kept
              ELSE acc.kept \cup {p}]

\* The best first, until none is left.
Keywords(text) ==
    LET all == Candidates(text)
        score == Scores(text)
        after[n \in 0..Cardinality(all)] ==
          IF n = 0 THEN [left |-> all, kept |-> {}]
          ELSE Consider(after[n - 1], Best(text, score, after[n - 1].left))
    IN after[Cardinality(all)].kept

-----------------------------------------------------------------------------
(* How answers are read *)

\* A numbered line has a label: usable, or filler, or too long.
LabelLines == [label : {"one", "two"}, usable : BOOLEAN] \cup {NoLine}

\* parse_dimensions_response: the usable labels, each once, up to the limit.
ReadDimensions(answer) ==
    LET usable == {i \in DOMAIN answer : answer[i] # NoLine /\ answer[i].usable}
        lines == At(answer, {i \in usable : \A j \in usable : j < i => answer[j].label # answer[i].label})
    IN [k \in {p \in DOMAIN lines : p <= MaxDimensions} |-> lines[k].label]

\* Judgments: one number per line, in range or beyond it.
JudgmentLines(n) == [of : 1..(n + 1), relevant : BOOLEAN] \cup {NoLine}

\* The lines of an answer that an expression recognises.
Recognised(answer) == {i \in DOMAIN answer : answer[i] # NoLine}

\* parse_response accepts one judgment of every application and no other.
JudgesAll(answer, n) ==
    LET lines == Recognised(answer)
    IN Cardinality(lines) = n /\ {answer[i].of : i \in lines} = 1..n

Relevant(answer) == {l.of : l \in {l \in ToSet(answer) \ {NoLine} : l.relevant}}

OfferTiers == {"direct", "adjacent", "speculative"}

\* A line of a tier: what it cites, and whether its text is long enough.
OfferLines(n) ==
    [tier : OfferTiers, cites : {{1}, 1..n, {}, {1, n + 1}}, long : {TRUE}]
    \cup [tier : OfferTiers, cites : {{1}}, long : {FALSE}] \cup {NoLine}

\* Mutant: any number may be cited.
WellFormed_AnyNumber(answer, n) ==
    LET lines == Recognised(answer)
    IN /\ \A i \in lines : answer[i].long /\ answer[i].cites # {}
       /\ Cardinality(lines) = 3
       /\ {answer[i].tier : i \in lines} = OfferTiers

\* parse_response accepts each tier once, with citations in range and text.
WellFormed(answer, n) ==
    LET lines == Recognised(answer)
    IN /\ \A i \in lines :
            answer[i].long /\ answer[i].cites # {} /\ answer[i].cites \subseteq 1..n
       /\ Cardinality(lines) = 3
       /\ {answer[i].tier : i \in lines} = OfferTiers

Offers(answer) ==
    [t \in OfferTiers |-> (CHOOSE l \in ToSet(answer) \ {NoLine} : l.tier = t).cites]

-----------------------------------------------------------------------------
(* The stages *)

Asks(stage) == asks = stage /\ isOn /\ failed < Tries

\* An answer that breaks the rules of its stage, or none.
Fails ==
    /\ failed' = failed + 1
    /\ UNCHANGED <<asks, idea, isOn, dimensions, heard, found, remaining, offers>>

Silence ==
    /\ \E stage \in {"dimensions", "relevance", "opportunities"} : Asks(stage)
    /\ asks = "dimensions" => idea # <<>>
    /\ Fails

Goes(stage) == asks' = stage /\ failed' = 0 /\ UNCHANGED <<idea, isOn, found>>

\* extract_dimensions_via_llm
HearDimensions ==
    /\ Asks("dimensions")
    /\ idea # <<>>
    /\ \E answer \in AnswersOf(LabelLines) :
         IF ReadDimensions(answer) = <<>> THEN Fails
         ELSE /\ dimensions' = ReadDimensions(answer)
              /\ heard' = TRUE
              /\ Goes(IF remaining = <<>> THEN "reported" ELSE "relevance")
              /\ UNCHANGED <<remaining, offers>>

\* extract_dimensions_with_fallback; an empty text is never shown to the model.
DoWithoutDimensions ==
    /\ asks = "dimensions"
    /\ ~isOn \/ failed = Tries \/ idea = <<>>
    /\ dimensions' = Keywords(idea)
    /\ Goes(IF isOn /\ remaining # <<>> THEN "relevance" ELSE "reported")
    /\ UNCHANGED <<heard, remaining, offers>>

\* filter_relevant_applications; none may be left.
HearRelevance ==
    /\ Asks("relevance")
    /\ \E answer \in AnswersOf(JudgmentLines(Len(remaining))) :
         IF ~JudgesAll(answer, Len(remaining)) THEN Fails
         ELSE /\ remaining' = Among(remaining, Relevant(answer))
              /\ Goes(IF Relevant(answer) = {} THEN "reported" ELSE "opportunities")
              /\ UNCHANGED <<dimensions, heard, offers>>

\* It fails open.
DoWithoutRelevance ==
    /\ asks = "relevance" /\ failed = Tries
    /\ Goes("opportunities")
    /\ UNCHANGED <<dimensions, heard, remaining, offers>>

\* synthesize_opportunities: the numbers are places in the list it was given.
HearOpportunities ==
    /\ Asks("opportunities")
    /\ \E answer \in AnswersOf(OfferLines(Len(remaining))) :
         IF ~WellFormed(answer, Len(remaining)) THEN Fails
         ELSE /\ offers' = Offers(answer)
              /\ Goes("reported")
              /\ UNCHANGED <<dimensions, heard, remaining>>

\* It fails closed.
DoWithoutOpportunities ==
    /\ asks = "opportunities" /\ failed = Tries
    /\ Goes("reported")
    /\ UNCHANGED <<dimensions, heard, remaining, offers>>

-----------------------------------------------------------------------------

Ideas == UNION {[1..n -> Tokens] : n \in 0..MaxIdea}

\* Whatever was found is numbered in its order.
ModelInit ==
    /\ asks = "dimensions"
    /\ idea \in Ideas
    /\ isOn \in BOOLEAN
    /\ failed = 0
    /\ dimensions = {}
    /\ heard = FALSE
    /\ found \in 0..MaxFound
    /\ remaining = [i \in 1..found |-> i]
    /\ offers = <<>>

ModelNext ==
    \/ Silence
    \/ HearDimensions
    \/ DoWithoutDimensions
    \/ HearRelevance
    \/ DoWithoutRelevance
    \/ HearOpportunities
    \/ DoWithoutOpportunities

ModelSpec == ModelInit /\ [][ModelNext]_modelVars

-----------------------------------------------------------------------------
(* Properties *)

LabelsDiffer == Len(dimensions) \in 1..MaxDimensions /\ IsInjective(dimensions)

\* Dimension coverage divides by the number of dimensions, so none counts
\* twice: the model's labels differ, no keyword is part of another, and a
\* phrase of the text is missing only for one like it that ranks no lower, or
\* because there are as many as may be.
DimensionsCountOnce ==
    asks # "dimensions" =>
        IF heard THEN LabelsDiffer
        ELSE LET score == Scores(idea)
             IN /\ \A p, q \in dimensions : PartOf(p, q) => p = q
                /\ \A p \in Candidates(idea) \ dimensions :
                     \/ Cardinality(dimensions) = MaxDimensions
                     \/ \E q \in dimensions : Related(p, q) /\ score[q] >= score[p]

\* Whatever the model writes and however the stages fail, an opportunity
\* draws on applications that stay in the report: there are all three tiers
\* or none, each cites something, and nothing the filter has taken out.
OpportunitiesCiteWhatIsKept ==
    offers # <<>> =>
        /\ DOMAIN offers = OfferTiers
        /\ \A t \in OfferTiers : offers[t] # {} /\ offers[t] \subseteq DOMAIN remaining
        /\ ToSet(remaining) \subseteq 1..found

\* "fail closed" and "fail open" (build.py): no stage takes more from the
\* model than the text and the applications bear out.
ModelIsHeldToTheText == DimensionsCountOnce /\ OpportunitiesCiteWhatIsKept

-----------------------------------------------------------------------------
(* What makes them inductive                                               *)

\* With the model the dimensions are labels that differ, without it the keywords
\* of the text.
DimensionsComeFrom ==
    asks # "dimensions" => IF heard THEN LabelsDiffer ELSE dimensions = Keywords(idea)

\* The filter has numbered what it kept before opportunities cite it,
\* and nothing is filtered once they do.
AnswersInv ==
    /\ idea \in Seq(Tokens)
    /\ found \in Nat
    /\ remaining \in Seq(1..found)
    /\ asks \in {"dimensions", "relevance", "opportunities", "reported"}
    /\ offers # <<>> => asks = "reported"
    /\ asks = "dimensions" => ~heard
    /\ DimensionsComeFrom
    /\ OpportunitiesCiteWhatIsKept
=============================================================================
