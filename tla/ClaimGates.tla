------------------------------ MODULE ClaimGates ------------------------------
(***************************************************************************)
(* validate_claim_type: whether a sentence expresses the type of claim it  *)
(* was filed under (extraction/validation.py).                             *)
(*                                                                         *)
(* A sentence is the sequence of what the module's expressions find in it, *)
(* in the order they stand there; other words are left out.  Where a       *)
(* decision depends on positions, on what follows a deployment verb and    *)
(* where its clause ends, the positions are kept.                          *)
(***************************************************************************)
EXTENDS Naturals, FiniteSets, Subsequences

CONSTANTS
    Vocabulary,  \* what a sentence may contain
    MaxMarks     \* bound: how much of it one sentence contains

\* "applied to" also frames a deployment; "useful in" does not, but its
\* preposition is a qualifying phrase for a verb before it.
Deployments == {"applied", "useful"}

Words ==
    \* of gaps and results
    {"remains open", "future work", "paper structure", "computed gap", "metric", "achievement"}
    \* of deployments: who, what follows, which examples, where, or nowhere
    \cup Deployments \cup {"actor", "action", "such as", "context", "vague"}
    \* of sectors
    \cup {"sector", "framing", "background", "sector list"}
    \* ends of clauses, and what only looks like one or like a deployment
    \cup {"break", "e.g.", "software application"}
    \* of the other types
    \cup {"method", "dataset", "limitation", "problem"}

ASSUME VocabularyAssumption == Vocabulary \subseteq Words
ASSUME MaxMarksAssumption == MaxMarks \in Nat

ValidatableClaimTypes ==
    {"problem", "method", "results", "limitations", "research_gap", "applications", "dataset"}

VARIABLES
    words,      \* what has been written of it
    verdict     \* [type, valid, tier] once it is judged

gateVars == <<words, verdict>>

Has(text, marks) == \E i \in DOMAIN text : text[i] \in marks

Result(type, valid, tier) == [type |-> type, valid |-> valid, tier |-> tier]

-----------------------------------------------------------------------------
(* The kinds of language.                                                  *)

HasResultSignal(text) == Has(text, {"metric", "achievement"})

StrongGapLanguage(text) == Has(text, {"remains open"})

\* A sentence about the structure of the paper speaks of gaps and future work.
WeakGapLanguage(text) == Has(text, {"future work", "paper structure", "computed gap"})

TechnicalGapMetric(text) == Has(text, {"computed gap"})

MetaDiscourse(text) == Has(text, {"paper structure"})

-----------------------------------------------------------------------------
(* Applications.                                                           *)

\* Abbreviations lose their full stop, computer programs are masked.
Normalized(text) == Among(text, Words \ {"e.g.", "software application"})

\* The end of the clause that begins at i: the next full stop or semicolon.
Boundary(text, i) ==
    LET breaks == {j \in i + 1 .. Len(text) : text[j] = "break"}
    IN  IF breaks = {} THEN Len(text) + 1 ELSE CHOOSE j \in breaks : \A k \in breaks : j <= k

\* What stands between a deployment verb and the end of its clause.
Complement(text, i) == SubSeq(text, i + 1, Boundary(text, i) - 1)

Concrete(text, i) == Has(Complement(text, i), {"actor", "action", "such as"})

\* "in general", "for future work", "for a given user": nowhere in particular.
Vague(text, i) == Has(Complement(text, i), {"vague"})

\* The complement has a qualifying phrase of its own, and none that is vague.
Qualified(text, i) == Has(Complement(text, i), {"context", "useful"}) /\ ~Vague(text, i)

\* A sector beside an operation, framed as a deployment, and neither background
\* nor a list of disciplines.  It reads the sentence as it stands.
HasSectorDeploymentSignal(text) ==
    /\ ~Has(text, {"background", "sector list", "future work"})
    /\ Has(text, {"sector"})
    /\ Has(text, {"framing", "applied", "software application"})

\* Mutant: only the first deployment verb of a sentence is considered.
Decisive_First(text) ==
    LET deployments == {i \in DOMAIN text : text[i] \in Deployments}
    IN  {i \in deployments : (\A j \in deployments : i <= j) /\ (Concrete(text, i) \/ Qualified(text, i))}

\* The deployment verbs any of which would have the sentence accepted.
Decisive(text) ==
    {i \in DOMAIN text : text[i] \in Deployments /\ (Concrete(text, i) \/ Qualified(text, i))}

\* Accepted or not, and whether by a fallback only: the first verb that decides
\* sets the tier, and the sector is looked at when none does.
HasApplicationSignal(text) ==
    LET scanned == Normalized(text)
        decisive == Decisive(scanned)
    IN  IF decisive # {}
        THEN LET first == CHOOSE i \in decisive : \A j \in decisive : i <= j
             IN  <<TRUE, ~Concrete(scanned, first)>>
        ELSE IF HasSectorDeploymentSignal(text) THEN <<TRUE, TRUE>>
        ELSE <<FALSE, FALSE>>

-----------------------------------------------------------------------------

GapVerdict(text) ==
    IF StrongGapLanguage(text) THEN Result("research_gap", TRUE, "strong")
    ELSE IF /\ WeakGapLanguage(text)
            /\ ~HasResultSignal(text)
            /\ ~TechnicalGapMetric(text)
            /\ ~MetaDiscourse(text)
    THEN Result("research_gap", TRUE, "weak")
    ELSE Result("research_gap", FALSE, "none")

ApplicationVerdict(text) ==
    LET signal == HasApplicationSignal(text)
    IN  Result("applications", signal[1],
               IF ~signal[1] THEN "none" ELSE IF signal[2] THEN "weak" ELSE "strong")

\* The language each of the other types requires.
Required ==
    [results     |-> {"metric", "achievement"},
     limitations |-> {"limitation"},
     method      |-> {"method"},
     dataset     |-> {"dataset"}]

ProblemLanguage(text) == Has(text, {"problem"})

ValidateClaimType(type, text) ==
    CASE type = "research_gap" -> GapVerdict(text)
      [] type = "applications" -> ApplicationVerdict(text)
      [] type \in DOMAIN Required -> Result(type, Has(text, Required[type]), "none")
      [] type = "problem" -> Result(type, ProblemLanguage(text) \/ ~HasResultSignal(text), "none")
      [] OTHER -> Result(type, TRUE, "none")

-----------------------------------------------------------------------------

Unjudged == Result("none", FALSE, "none")

GatesInit == words = <<>> /\ verdict = Unjudged

Read(word) ==
    /\ verdict = Unjudged
    /\ Len(words) < MaxMarks
    /\ words' = Append(words, word)
    /\ UNCHANGED verdict

Judge(type) ==
    /\ verdict = Unjudged
    /\ verdict' = ValidateClaimType(type, words)
    /\ UNCHANGED words

GatesNext ==
    \/ \E word \in Vocabulary : Read(word)
    \/ \E type \in ValidatableClaimTypes \cup {"research_question"} : Judge(type)

GatesSpec == GatesInit /\ [][GatesNext]_gateVars

-----------------------------------------------------------------------------
(* Properties.                                                             *)

\* A sentence that is rejected as an application has no clause that alone would
\* have made it one: no clause before or after takes that chance away (the scan
\* over every deployment verb in _has_application_signal).
EveryClauseGetsItsChance ==
    (verdict.type = "applications" /\ ~verdict.valid)
        => \A i \in {j \in DOMAIN words : words[j] = "break"} :
               /\ Decisive(Normalized(SubSeq(words, 1, i - 1))) = {}
               /\ Decisive(Normalized(SubSeq(words, i + 1, Len(words)))) = {}

-----------------------------------------------------------------------------
(* The invariant behind it: the verdict is about the sentence as it stands. *)

GatesInv ==
    /\ words \in Seq(Words)
    /\ verdict.type = "applications" => verdict = ApplicationVerdict(words)

=============================================================================
