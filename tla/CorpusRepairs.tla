---------------------------- MODULE CorpusRepairs ----------------------------
(***************************************************************************)
(* The scripts an operator runs once to repair what an earlier version of  *)
(* the program stored.  Each reads all it is about, computes the changes,  *)
(* writes a backup, stops there in a dry run, and otherwise makes all its  *)
(* changes in one transaction; what it changes, by identity, are the rows  *)
(* it read.  Nothing keeps two scripts, or a script and the rest of the    *)
(* system, from running side by side.                                      *)
(*                                                                         *)
(* One paper is enough: its abstract with two sentences of it, and a       *)
(* passage of its full text, all with a character that a source has        *)
(* escaped, perhaps twice over.  A form of a text is the number of times   *)
(* that cleaning still changes it.  No script cleans the full text.        *)
(***************************************************************************)
EXTENDS Naturals, FiniteSets

CONSTANTS
    Operators,    \* sessions that run scripts, one at a time each
    MaxEscapes,   \* bound: times a text has been escaped
    MaxScripts,   \* bound: scripts run in all
    MaxRows,      \* bound: evidence rows ever stored
    MaxReviews    \* bound: reviews of the gap

ASSUME EscapesAssumption == MaxEscapes \in Nat

Forms == 0..MaxEscapes

\* clean_harvested_abstract: html.unescape takes one layer off, so that a text
\* escaped twice is changed again by the next script that cleans it.
Clean(form) == IF form = 0 THEN 0 ELSE form - 1

\* A sentence of the abstract that an older validator rejected as an application
\* and the present one accepts; one that the older one took for a dataset; and a
\* passage of the full text.
Sentences == {"application", "dataset", "passage"}
Accepted == {"application", "passage"}

TextScripts == {"abstract", "evidence", "recover", "revalidate"}
Scripts == TextScripts \cup {"claims", "categories"}
GapStatuses == {"pending", "approved", "rejected"}

VARIABLES
    abstract,    \* papers.abstract
    section,     \* the section of the full text
    evidence,    \* evidence: id, sentence, form
    claims,      \* extracted_claims: id of its evidence, sentence, form
    rejected,    \* extraction_errors: forms in which the application was rejected
    rows,        \* evidence rows ever stored
    extracting,  \* the form of the abstract an extraction has read, if any
    gapStatus,   \* candidate_gaps.status of one gap
    mirror,      \* analysis_claims about it: id, status
    category,    \* whether paper_categories has the paper's field of study
    task,        \* the script of each operator, or "none"
    read,        \* what it has read
    scripts,     \* scripts run so far
    reviews,     \* reviews so far
    tended,      \* history: an evidence repair left nothing, after the last of the abstract
    crossed,     \* history: the abstract was repaired under a writer's hands, or a repair undone
    disorder,    \* history: the evidence was repaired before the abstract
    crowded,     \* history: two writers of claims were at work at once
    overtaken    \* history: the gap was reviewed, or claimed twice, during a backfill

texts == <<abstract, section, evidence, claims, rejected, rows, extracting, tended, crossed, disorder, crowded>>
reviewed == <<gapStatus, mirror, reviews, overtaken>>
repairVariables == <<texts, reviewed, category, task, read, scripts>>

Nothing == [form |-> 0, evidence |-> {}, claims |-> {}, status |-> "pending", todo |-> FALSE]

Running(script) == {o \in Operators : task[o] = script}
Row(n, sentence, form) == [id |-> n, of |-> sentence, form |-> form]

\* The last run of the older program left an abstract, a dataset that is none, a
\* passage, perhaps an application rejected, and a gap without a claim.
RepairsInit ==
    /\ abstract \in Forms /\ section \in Forms
    /\ evidence = {Row(1, "dataset", abstract), Row(2, "passage", section)}
    /\ claims = evidence
    /\ rejected \in SUBSET {abstract}
    /\ rows = 2
    /\ extracting = {}
    /\ gapStatus \in GapStatuses
    /\ mirror = {}
    /\ category = FALSE
    /\ task = [o \in Operators |-> "none"]
    /\ read = [o \in Operators |-> Nothing]
    /\ scripts = 0
    /\ reviews = 0
    /\ tended = FALSE /\ crossed = FALSE /\ disorder = FALSE /\ crowded = FALSE /\ overtaken = FALSE

-----------------------------------------------------------------------------
(* What a script reads, and what it makes of it *)

\* Mutant: sentences that are claims already are not looked for.
Recoverable_Again(form) == "application" \in Accepted /\ form = abstract

\* recover_rejected_applications_claims: a rejected text that is no claim yet, is
\* accepted now and is found in the abstract as it stands.
Recoverable(form) ==
    /\ ~ \E c \in claims : c.of = "application" /\ c.form = form
    /\ "application" \in Accepted
    /\ form = abstract

Snapshot(script) ==
    CASE script = "abstract" -> [Nothing EXCEPT !.form = abstract, !.todo = Clean(abstract) # abstract]
      [] script = "evidence" ->
           LET spoiled(set) == {r \in set : Clean(r.form) # r.form}
           IN [Nothing EXCEPT !.evidence = spoiled(evidence), !.claims = spoiled(claims), !.form = abstract,
                              !.todo = spoiled(evidence) \cup spoiled(claims) # {}]
      [] script = "recover" ->
           LET found == {form \in rejected : Recoverable(form)}
           IN [Nothing EXCEPT !.form = abstract, !.todo = found # {}]
      [] script = "revalidate" ->
           LET invalid == {c \in claims : c.of \notin Accepted}
           IN [Nothing EXCEPT !.claims = invalid, !.todo = invalid # {}]
      [] script = "claims" -> [Nothing EXCEPT !.status = gapStatus, !.todo = mirror = {}]
      [] script = "categories" -> [Nothing EXCEPT !.todo = ~ category]

\* A script that finds nothing to do ends at once; the others have a backup.
Begin(o) ==
    /\ task[o] = "none" /\ scripts < MaxScripts
    /\ \E script \in Scripts :
         /\ task' = [task EXCEPT ![o] = IF Snapshot(script).todo THEN script ELSE "none"]
         /\ read' = [read EXCEPT ![o] = IF Snapshot(script).todo THEN Snapshot(script) ELSE Nothing]
         /\ crowded' = (crowded \/ (script = "recover" /\ (Running("recover") # {} \/ extracting # {})))
         /\ tended' = (tended \/ (script = "evidence" /\ abstract = 0 /\ ~ Snapshot(script).todo))
         /\ overtaken' = (overtaken \/ (script = "claims" /\ Running("claims") # {}))
    /\ scripts' = scripts + 1
    /\ UNCHANGED <<abstract, section, evidence, claims, rejected, rows, extracting, crossed, disorder,
                   gapStatus, mirror, reviews, category>>

Put(o) ==
    /\ task' = [task EXCEPT ![o] = "none"]
    /\ read' = [read EXCEPT ![o] = Nothing]
    /\ scripts' = scripts

\* A dry run, a kill, or an error: there was only the one transaction.
Abandon(o) ==
    /\ task[o] # "none"
    /\ Put(o)
    /\ UNCHANGED <<texts, reviewed, category>>

\* What is written comes of what was read, even if the text has been repaired
\* further in the meantime.
RepairAbstract(o) ==
    /\ task[o] = "abstract"
    /\ abstract' = Clean(read[o].form)
    /\ crossed' = (crossed \/ extracting # {} \/ Running("recover") # {} \/ abstract < abstract')
    /\ Put(o)
    /\ UNCHANGED <<section, evidence, claims, rejected, rows, extracting, tended, disorder, crowded, reviewed, category>>

Known(r, set) == \E d \in set : d.id = r.id
CleanedRow(r, stale) ==
    IF Known(r, stale) THEN [r EXCEPT !.form = Clean((CHOOSE d \in stale : d.id = r.id).form)] ELSE r
Cleaned(set, stale) == {CleanedRow(r, stale) : r \in set}

\* One repair is enough for these rows, and it puts back none that needed more.
Suffices(stale) == \A r \in stale : Clean(Clean(r.form)) = Clean(r.form)
PutsBack(set, stale) == \E r \in set, d \in stale : d.id = r.id /\ r.form < Clean(d.form)

\* Mutant: the evidence is repaired and the claims are not.
RepairEvidence_NotClaims(o) ==
    LET old == read[o]
    IN /\ task[o] = "evidence"
       /\ \A d \in old.evidence : Known(d, evidence)
       /\ evidence' = Cleaned(evidence, old.evidence)
       /\ tended' = (tended \/ (old.form = 0 /\ Suffices(old.evidence)))
       /\ crossed' = (crossed \/ PutsBack(evidence, old.evidence))
       /\ disorder' = (disorder \/ abstract \in rejected)
       /\ Put(o)
       /\ UNCHANGED <<abstract, section, claims, rejected, rows, extracting, crowded, reviewed, category>>

\* Every row that was read must still be there: an UPDATE that finds none, after
\* a forced extraction, fails with everything else of the script.  Quotes of the
\* full text are rewritten like those of the abstract.
RepairEvidence(o) ==
    LET old == read[o]
    IN /\ task[o] = "evidence"
       /\ \A d \in old.evidence : Known(d, evidence)
       /\ \A d \in old.claims : Known(d, claims)
       /\ evidence' = Cleaned(evidence, old.evidence)
       /\ claims' = Cleaned(claims, old.claims)
       /\ tended' = (tended \/ (old.form = 0 /\ Suffices(old.evidence \cup old.claims)))
       /\ crossed' = (crossed \/ PutsBack(evidence, old.evidence) \/ PutsBack(claims, old.claims))
       /\ disorder' = (disorder \/ abstract \in rejected)
       /\ Put(o)
       /\ UNCHANGED <<abstract, section, rejected, rows, extracting, crowded, reviewed, category>>

\* A sentence is stored as evidence and as a claim.
Store(sentence, form) ==
    /\ rows < MaxRows
    /\ rows' = rows + 1
    /\ evidence' = evidence \cup {Row(rows + 1, sentence, form)}
    /\ claims' = claims \cup {Row(rows + 1, sentence, form)}

Recover(o) ==
    /\ task[o] = "recover"
    /\ Store("application", read[o].form)
    /\ Put(o)
    /\ UNCHANGED <<abstract, section, rejected, extracting, tended, crossed, disorder, crowded, reviewed, category>>

\* Claims that are no longer valid are deleted, and their evidence is left; a row
\* that is gone already is only a warning.
Revalidate(o) ==
    /\ task[o] = "revalidate"
    /\ claims' = {c \in claims : c.id \notin {d.id : d \in read[o].claims}}
    /\ Put(o)
    /\ UNCHANGED <<abstract, section, evidence, rejected, rows, extracting, tended, crossed, disorder, crowded, reviewed, category>>

\* Mutant: the claim is pending, as that of a new gap.
ClaimGap_Pending(o) ==
    /\ task[o] = "claims"
    /\ mirror' = mirror \cup {[id |-> Cardinality(mirror), status |-> "pending"]}
    /\ Put(o)
    /\ UNCHANGED <<texts, gapStatus, reviews, overtaken, category>>

\* backfill_analysis_claims: a claim for a gap that had none, with the status the
\* gap had when it was read.
ClaimGap(o) ==
    /\ task[o] = "claims"
    /\ mirror' = mirror \cup {[id |-> Cardinality(mirror), status |-> read[o].status]}
    /\ Put(o)
    /\ UNCHANGED <<texts, gapStatus, reviews, overtaken, category>>

\* backfill_core_categories: a category is unique, so of two scripts the second
\* fails as a whole.
Categorize(o) ==
    /\ task[o] = "categories" /\ ~ category
    /\ category' = TRUE
    /\ Put(o)
    /\ UNCHANGED <<texts, reviewed>>

-----------------------------------------------------------------------------
(* The rest of the system *)

\* A forced extraction deletes what was found and the errors with it; any
\* extraction (there is one at a time here) reads the paper only when it has no
\* claims, ...
ForceExtraction ==
    /\ extracting = {} /\ evidence # {}
    /\ evidence' = {} /\ claims' = {} /\ rejected' = {}
    /\ UNCHANGED <<abstract, section, rows, extracting, tended, crossed, disorder, crowded, reviewed, category, task, read, scripts>>

LoadPaper ==
    /\ extracting = {} /\ claims = {}
    /\ extracting' = {abstract}
    /\ crowded' = (crowded \/ Running("recover") # {})
    /\ UNCHANGED <<abstract, section, evidence, claims, rejected, rows, tended, crossed, disorder, reviewed, category, task, read, scripts>>

\* ... and stores what is accepted, as the abstract or the full text had it: one
\* of the sentences here.
StoreClaims ==
    /\ \/ \E form \in extracting : Store("application", form)
       \/ extracting # {} /\ Store("passage", section)
    /\ extracting' = {}
    /\ UNCHANGED <<abstract, section, rejected, tended, crossed, disorder, crowded, reviewed, category, task, read, scripts>>

\* A review sets the gap and the claims about it that it can see.
ReviewGap ==
    /\ reviews < MaxReviews
    /\ \E s \in GapStatuses \ {gapStatus} :
         gapStatus' = s /\ mirror' = {[c EXCEPT !.status = s] : c \in mirror}
    /\ reviews' = reviews + 1
    /\ overtaken' = (overtaken \/ Running("claims") # {})
    /\ UNCHANGED <<texts, category, task, read, scripts>>

RepairsNext ==
    \/ \E o \in Operators :
         \/ Begin(o) \/ Abandon(o)
         \/ RepairAbstract(o) \/ RepairEvidence(o) \/ Recover(o) \/ Revalidate(o)
         \/ ClaimGap(o) \/ Categorize(o)
    \/ ForceExtraction \/ LoadPaper \/ StoreClaims \/ ReviewGap

RepairsSpec == RepairsInit /\ [][RepairsNext]_repairVariables

-----------------------------------------------------------------------------
(* Properties *)

\* Once the abstract has been cleaned until nothing changes, and the evidence
\* after it until nothing changes, every quote and claim of the abstract reads as
\* it does, whatever else is extracted, recovered, repaired or deleted; unless the
\* abstract was repaired while someone who had read it was about to store quotes,
\* or a repair that had read an older text put that back.
QuotesMatchTheirPaper ==
    tended /\ ~ crossed => \A r \in evidence \cup claims : r.of # "passage" => r.form = abstract

\* A sentence that was rejected once is a claim at most once, however often the
\* recovery runs: unless two writers were at work at once, or the evidence was
\* repaired before the abstract, so that the recovery takes the sentence it
\* finds spoiled in the abstract for another one.
RecoveredOnce ==
    ~ crowded /\ ~ disorder => Cardinality({c \in claims : c.of = "application"}) <= 1

\* A backfilled claim says of its gap what the review says, and a gap has one;
\* unless the gap was reviewed, or another backfill began, while it ran.
BackfillMirrorsTheReview ==
    ~ overtaken => Cardinality(mirror) <= 1 /\ \A c \in mirror : c.status = gapStatus

-----------------------------------------------------------------------------
(* The invariant behind them *)

Rows == [id : Nat, of : Sentences, form : Forms]
Snapshots ==
    [form : Forms, evidence : SUBSET Rows, claims : SUBSET Rows, status : GapStatuses, todo : BOOLEAN]

RepairsTypes ==
    /\ abstract \in Forms /\ section \in Forms /\ evidence \subseteq Rows /\ claims \subseteq Rows
    /\ rejected \subseteq Forms /\ rows \in Nat /\ extracting \subseteq Forms
    /\ gapStatus \in GapStatuses /\ mirror \subseteq [id : Nat, status : GapStatuses] /\ IsFiniteSet(mirror)
    /\ task \in [Operators -> Scripts \cup {"none"}] /\ read \in [Operators -> Snapshots]

\* An abstract that reads as what was rejected has never been repaired, and
\* nobody has read another form.
NotYetRepaired ==
    \A form \in rejected :
        /\ abstract <= form
        /\ \A o \in Running("abstract") : Clean(read[o].form) < form
        /\ abstract = form =>
             /\ extracting \subseteq {form}
             /\ \A o \in Running("recover") : read[o].form = form

\* Who is about to store a quote has read the abstract as it is, and who repairs
\* the evidence after the abstract knows of all that is spoiled.
WritersAreCurrent ==
    ~ crossed =>
        /\ extracting \subseteq {abstract}
        /\ \A o \in Running("recover") : read[o].form = abstract
        /\ tended => abstract = 0
        /\ \A o \in Running("evidence") : read[o].form = 0 =>
             /\ abstract = 0
             /\ \A r \in evidence : r.of # "passage" /\ r.form # 0 => Known(r, read[o].evidence)
             /\ \A r \in claims : r.of # "passage" /\ r.form # 0 => Known(r, read[o].claims)

\* One writer of claims, who found none of what it is about to store.
OneWriter ==
    /\ ~ crowded =>
         /\ \A o, p \in Running("recover") : o = p
         /\ extracting # {} => claims = {} /\ Running("recover") = {}
    /\ ~ disorder => (abstract \in rejected => \A c \in claims : c.of = "application" => c.form = abstract)
    /\ ~ crowded /\ ~ disorder =>
         /\ Running("recover") # {} => \A c \in claims : c.of # "application"
         /\ \A c, d \in claims : c.of = "application" /\ d.of = "application" => c = d

\* One backfill, of a gap that has no claim yet and is as it was read.
OneBackfill ==
    ~ overtaken =>
        /\ \A o, p \in Running("claims") : o = p
        /\ \A o \in Running("claims") : mirror = {} /\ read[o].status = gapStatus
        /\ mirror # {} => \E c \in mirror : mirror = {c} /\ c.status = gapStatus

RepairsInv ==
    /\ RepairsTypes
    /\ NotYetRepaired
    /\ WritersAreCurrent
    /\ QuotesMatchTheirPaper
    /\ OneWriter
    /\ OneBackfill
=============================================================================
