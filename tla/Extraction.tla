------------------------------ MODULE Extraction ------------------------------
(***************************************************************************)
(* Extraction runs, the evidence they write, and what refers to it.        *)
(*                                                                         *)
(* A run of "rb-extract" is a process: with --force it first deletes every *)
(* earlier result in one transaction (reset_extraction_data), then records *)
(* itself in extraction_runs, selects the papers without a claim, and      *)
(* commits paper by paper.  Meanwhile gap detection and assessments cite   *)
(* evidence they have read, assessments are synthesized and deleted,       *)
(* people review evidence, and the revalidation scripts delete claims.     *)
(*                                                                         *)
(* Several processes may run at once: the panel's guard can be bypassed    *)
(* from a shell.  The database is PostgreSQL at READ COMMITTED: each       *)
(* statement sees what is committed when it starts, a row another          *)
(* transaction has deleted makes a writer wait for its outcome, and the    *)
(* foreign keys of evidence refuse to leave a reference dangling.          *)
(***************************************************************************)
EXTENDS Naturals, Sequences, FiniteSets

CONSTANTS
    Runs,         \* processes of the extraction pipeline
    Papers,       \* the corpus
    Candidates,   \* how many an extractor may find in each paper, at most
    Gaps,         \* candidate gaps that may be saved
    Assessments,  \* assessments that may be built
    MaxReviews,   \* bound on the evidence under review at once
    MaxRevoked,   \* bound on the claims that revalidation deletes
    None

ASSUME WritersAssumption == Gaps \cap Assessments = {}
ASSUME BoundsAssumption == MaxReviews \in Nat /\ MaxRevoked \in Nat
ASSUME CandidatesAssumption == Candidates \in [Papers -> Nat]
ASSUME NoneAssumption == None \notin Papers

\* A candidate is named by its position in the extractor's answer.
Positions == UNION {1 .. Candidates[p] : p \in Papers}

Writers == Gaps \cup Assessments

\* An evidence row is named by where it comes from; its claim has its name.
Rows == [run: Runs, paper: Papers, at: Positions]
\* What a save or a build links, and what a synthesis links on demand later.
Roles == {"built", "opportunity"}
Links == [by: Writers, of: Rows, role: Roles]
\* The errors of a pass over a paper count as one row.
Errors == [run: Runs, paper: Papers]

LinkTables == {"candidate_gap_evidence", "research_assessment_evidence", "claim_evidence"}
Tables == LinkTables \cup {"evidence_reviews", "extracted_claims", "evidence", "extraction_errors"}

\* The tables with a foreign key on evidence.
Referring == LinkTables \cup {"evidence_reviews", "extracted_claims"}

RowsOf(k) ==
    IF k \in LinkTables THEN Links ELSE IF k = "extraction_errors" THEN Errors ELSE Rows

\* The statements of reset_extraction_data, in order.
ResetOrder == <<"candidate_gap_evidence", "research_assessment_evidence", "claim_evidence",
                "extracted_claims", "evidence", "extraction_errors">>

VARIABLES
    table,    \* what is committed
    pc,       \* of each run: "off", "reset", "insert", "select", "work", "save", "end"
    step,     \* the statement of the reset it is at
    doomed,   \* what its uncommitted statements have deleted
    todo,     \* the papers it has selected and not begun
    pass,     \* the paper it is working on, and what becomes of its candidates
    ledger,   \* status of its row in extraction_runs
    forced,   \* the runs with --force
    limited,  \* the runs whose --limit left papers out
    read,     \* the evidence a gap or an assessment under way has read
    dropped,  \* the assessments that were built and deleted
    cited,    \* history: what each writer's commit linked, by table
    revoked,  \* history: the claims a revalidation has deleted
    met,      \* history: the runs that were alive together
    prior,    \* history: the runs that had ended when a run started
    passes,   \* history: what the finished passes over a paper accepted
    broken    \* history: the passes an exception cut short

processes == <<pc, step, doomed, todo, pass, ledger, forced, limited>>
writing == <<read, cited, dropped>>
history == <<met, prior, passes, broken, revoked>>
vars == <<table, processes, writing, history>>

Empty == [k \in Tables |-> {}]

NoPass == [paper |-> None, accepted |-> {}, noted |-> {}]

TypeOK ==
    /\ table \in [Tables -> SUBSET (Links \cup Errors \cup Rows)]
    /\ \A k \in Tables : table[k] \subseteq RowsOf(k)
    /\ pc \in [Runs -> {"off", "reset", "insert", "select", "work", "save", "end"}]
    /\ step \in [Runs -> 1 .. Len(ResetOrder) + 1]
    /\ doomed \in [Runs -> [Tables -> SUBSET (Links \cup Errors \cup Rows)]]
    /\ todo \in [Runs -> SUBSET Papers]
    /\ pass \in [Runs -> [paper: Papers \cup {None}, accepted: SUBSET Positions,
                          noted: SUBSET (Positions \cup {0})]]
    /\ ledger \in [Runs -> {"none", "running", "completed", "failed"}]
    /\ forced \subseteq Runs /\ limited \subseteq Runs
    /\ read \in [Writers -> SUBSET Rows]
    /\ dropped \subseteq Assessments
    /\ cited \in [Writers -> [LinkTables -> SUBSET Rows]]
    /\ met \in [Runs -> SUBSET Runs] /\ prior \in [Runs -> SUBSET Runs]
    /\ passes \subseteq [run: Runs, paper: Papers, accepted: SUBSET Positions]
    /\ broken \subseteq Runs \X Papers
    /\ revoked \subseteq Rows

-----------------------------------------------------------------------------

Alive == {r \in Runs : pc[r] \notin {"off", "end"}}

\* A row that somebody is deleting: whoever needs it waits.
Contested(k, rows) == \E r \in Runs : doomed[r][k] \cap rows # {}

Add(k, rows) == [table EXCEPT ![k] = @ \cup rows]

Leave(r) ==
    /\ pc' = [pc EXCEPT ![r] = "end"]
    /\ step' = [step EXCEPT ![r] = 1]
    /\ doomed' = [doomed EXCEPT ![r] = Empty]
    /\ todo' = [todo EXCEPT ![r] = {}]
    /\ pass' = [pass EXCEPT ![r] = NoPass]
    /\ UNCHANGED <<forced, limited>>

Init ==
    /\ table = Empty
    /\ pc = [r \in Runs |-> "off"]
    /\ step = [r \in Runs |-> 1]
    /\ doomed = [r \in Runs |-> Empty]
    /\ todo = [r \in Runs |-> {}]
    /\ pass = [r \in Runs |-> NoPass]
    /\ ledger = [r \in Runs |-> "none"]
    /\ forced = {} /\ limited = {}
    /\ read = [w \in Writers |-> {}]
    /\ dropped = {}
    /\ cited = [w \in Writers |-> [k \in LinkTables |-> {}]]
    /\ met = [r \in Runs |-> {}]
    /\ prior = [r \in Runs |-> {}]
    /\ passes = {} /\ broken = {} /\ revoked = {}

-----------------------------------------------------------------------------
(* The process: main, reset_extraction_data, ExtractionPipeline.run.       *)

Launch(r) ==
    /\ pc[r] = "off"
    /\ \/ /\ pc' = [pc EXCEPT ![r] = "reset"]
          /\ forced' = forced \cup {r}
       \/ /\ pc' = [pc EXCEPT ![r] = "insert"]
          /\ UNCHANGED forced
    /\ met' = [q \in Runs |-> IF q = r THEN Alive
                              ELSE IF q \in Alive THEN met[q] \cup {r} ELSE met[q]]
    /\ prior' = [prior EXCEPT ![r] = {q \in Runs : pc[q] = "end"}]
    /\ UNCHANGED <<table, step, doomed, todo, pass, ledger, limited, writing,
                   passes, broken, revoked>>

\* Evidence that rows still there after the reset's own statements refer to.
Held(r) ==
    LET left(k) == table[k] \ doomed[r][k]
    IN  {l.of : l \in UNION {left(k) : k \in LinkTables}}
          \cup left("evidence_reviews") \cup left("extracted_claims")

\* Mutant: every statement is a transaction of its own.
ResetStatement_Autocommit(r) ==
    /\ pc[r] = "reset"
    /\ step[r] <= Len(ResetOrder)
    /\ LET k == ResetOrder[step[r]]
       IN  IF k = "evidence" /\ Held(r) # {}
           THEN /\ Leave(r)
                /\ UNCHANGED table
           ELSE /\ table' = [table EXCEPT ![k] = {}]
                /\ step' = [step EXCEPT ![r] = @ + 1]
                /\ UNCHANGED <<pc, doomed, todo, pass, forced, limited>>
    /\ UNCHANGED <<ledger, writing, history>>

\* One DELETE.  It takes the rows that are committed when it runs, after
\* waiting for whoever else is deleting them; the DELETE of evidence fails if
\* a row that is not deleted refers to it, and the process ends in a traceback
\* with the transaction rolled back.
ResetStatement(r) ==
    /\ pc[r] = "reset"
    /\ step[r] <= Len(ResetOrder)
    /\ LET k == ResetOrder[step[r]]
       IN  /\ \A q \in Runs \ {r} : doomed[q][k] \cap table[k] = {}
           /\ IF k = "evidence" /\ Held(r) # {}
              THEN Leave(r)
              ELSE /\ doomed' = [doomed EXCEPT ![r][k] = table[k]]
                   /\ step' = [step EXCEPT ![r] = @ + 1]
                   /\ UNCHANGED <<pc, todo, pass, forced, limited>>
    /\ UNCHANGED <<table, ledger, writing, history>>

ResetCommit(r) ==
    /\ pc[r] = "reset"
    /\ step[r] > Len(ResetOrder)
    /\ table' = [k \in Tables |-> table[k] \ doomed[r][k]]
    /\ doomed' = [doomed EXCEPT ![r] = Empty]
    /\ step' = [step EXCEPT ![r] = 1]
    /\ pc' = [pc EXCEPT ![r] = "insert"]
    /\ UNCHANGED <<todo, pass, ledger, forced, limited, writing, history>>

InsertRun(r) ==
    /\ pc[r] = "insert"
    /\ ledger' = [ledger EXCEPT ![r] = "running"]
    /\ pc' = [pc EXCEPT ![r] = "select"]
    /\ UNCHANGED <<table, step, doomed, todo, pass, forced, limited, writing, history>>

\* Mutant: the selection does not look at the claims there are.
Select_All(r) ==
    /\ pc[r] = "select"
    /\ \E chosen \in SUBSET Papers :
         /\ todo' = [todo EXCEPT ![r] = chosen]
         /\ limited' = IF chosen = Papers THEN limited ELSE limited \cup {r}
    /\ pc' = [pc EXCEPT ![r] = "work"]
    /\ UNCHANGED <<table, step, doomed, pass, ledger, forced, writing, history>>

\* _select_unprocessed_papers; with --limit any of them, there is no ORDER BY.
Select(r) ==
    /\ pc[r] = "select"
    /\ LET unprocessed == Papers \ {c.paper : c \in table["extracted_claims"]}
       IN  \E chosen \in SUBSET unprocessed :
             /\ todo' = [todo EXCEPT ![r] = chosen]
             /\ limited' = IF chosen = unprocessed THEN limited ELSE limited \cup {r}
    /\ pc' = [pc EXCEPT ![r] = "work"]
    /\ UNCHANGED <<table, step, doomed, pass, ledger, forced, writing, history>>

\* _process_paper up to the commit: the extractor fails (an error at 0), or
\* every candidate is accepted, noted in extraction_errors, or absent.  A
\* candidate that cannot be persisted loses its evidence with its savepoint.
Process(r) ==
    /\ pc[r] = "work"
    /\ \E p \in todo[r] : \E accepted, noted \in SUBSET (0 .. Candidates[p]) :
         /\ accepted \cap noted = {} /\ 0 \notin accepted
         /\ 0 \in noted => noted = {0} /\ accepted = {}
         /\ pass' = [pass EXCEPT ![r] = [paper |-> p, accepted |-> accepted, noted |-> noted]]
         /\ todo' = [todo EXCEPT ![r] = @ \ {p}]
    /\ pc' = [pc EXCEPT ![r] = "save"]
    /\ UNCHANGED <<table, step, doomed, ledger, forced, limited, writing, history>>

\* What the transaction of a paper makes visible for the positions it got to.
Saved(r, positions) ==
    LET added(ps) == [run: {r}, paper: {pass[r].paper}, at: ps \cap positions]
    IN  [table EXCEPT !["evidence"] = @ \cup added(pass[r].accepted),
                      !["extracted_claims"] = @ \cup added(pass[r].accepted),
                      !["extraction_errors"] = @ \cup
                          [run: IF pass[r].noted \cap positions = {} THEN {} ELSE {r},
                           paper: {pass[r].paper}]]

CommitPaper(r) ==
    /\ pc[r] = "save"
    /\ table' = Saved(r, Positions \cup {0})
    /\ passes' = passes \cup {[run |-> r, paper |-> pass[r].paper, accepted |-> pass[r].accepted]}
    /\ pass' = [pass EXCEPT ![r] = NoPass]
    /\ pc' = [pc EXCEPT ![r] = "work"]
    /\ UNCHANGED <<step, doomed, todo, ledger, forced, limited, writing, met, prior, broken, revoked>>

Complete(r) ==
    /\ pc[r] = "work"
    /\ todo[r] = {}
    /\ ledger' = [ledger EXCEPT ![r] = "completed"]
    /\ Leave(r)
    /\ UNCHANGED <<table, writing, history>>

\* An exception that leaves the session usable: the handler marks the run and
\* its commit takes along the candidates of the paper that were already added.
Fail(r) ==
    /\ pc[r] \in {"select", "work", "save"}
    /\ ledger' = [ledger EXCEPT ![r] = "failed"]
    /\ \/ /\ pc[r] # "save"
          /\ UNCHANGED <<table, broken>>
       \/ /\ pc[r] = "save"
          /\ \E n \in Positions : table' = Saved(r, {i \in Positions : i < n})
          /\ broken' = broken \cup {<<r, pass[r].paper>>}
    /\ Leave(r)
    /\ UNCHANGED <<writing, met, prior, passes, revoked>>

\* Mutant: candidates are committed one by one.
Kill_PerCandidate(r) ==
    /\ r \in Alive
    /\ IF pc[r] = "save"
       THEN \E n \in Positions : table' = Saved(r, {i \in Positions : i < n})
       ELSE UNCHANGED table
    /\ Leave(r)
    /\ UNCHANGED <<ledger, writing, history>>

\* A kill, a crash, or a session that is lost: nothing more is committed.
Kill(r) ==
    /\ r \in Alive
    /\ Leave(r)
    /\ UNCHANGED <<table, ledger, writing, history>>

-----------------------------------------------------------------------------
(* What cites evidence.                                                    *)

\* Detection and build_assessment read evidence and work on it for minutes.
ReadEvidence(w) ==
    /\ read[w] = {}
    /\ \A k \in LinkTables : cited[w][k] = {}
    /\ \E rows \in (SUBSET table["evidence"]) \ {{}} : read' = [read EXCEPT ![w] = rows]
    /\ UNCHANGED <<table, processes, cited, dropped, history>>

LinksOf(w, k) == {l \in table[k] : l.by = w}

Built(w, rows) == [by: {w}, of: rows, role: {"built"}]

\* save_candidate_gaps, or the end of build_assessment: one commit, which
\* waits for a reset under way and fails if evidence it cites is gone.
Cite(w) ==
    /\ read[w] # {}
    /\ ~Contested("evidence", read[w])
    /\ LET own == IF w \in Gaps THEN "candidate_gap_evidence"
                                ELSE "research_assessment_evidence"
       IN  \E claimed \in SUBSET read[w] :
             /\ w \in Gaps => claimed = read[w]
             /\ IF read[w] \subseteq table["evidence"]
                THEN /\ table' = [table EXCEPT ![own] = @ \cup Built(w, read[w]),
                                               !["claim_evidence"] = @ \cup Built(w, claimed)]
                     /\ cited' = [cited EXCEPT ![w][own] = read[w], ![w]["claim_evidence"] = claimed]
                ELSE UNCHANGED <<table, cited>>
    /\ read' = [read EXCEPT ![w] = {}]
    /\ UNCHANGED <<processes, dropped, history>>

\* synthesize_assessment_opportunities: the links of an earlier synthesis give
\* way to those of this one.  The commit waits for a reset that is deleting
\* the former, and fails if evidence the latter cite is gone.
Synthesize(w) ==
    /\ w \in Assessments \ dropped
    /\ \E found \in SUBSET cited[w]["research_assessment_evidence"] :
         LET old == {l \in LinksOf(w, "research_assessment_evidence") : l.role = "opportunity"}
         IN  /\ ~Contested("research_assessment_evidence", old)
             /\ ~Contested("evidence", found)
             /\ found \subseteq table["evidence"]
             /\ table' = [table EXCEPT !["research_assessment_evidence"] =
                            (@ \ old) \cup [by: {w}, of: found, role: {"opportunity"}]]
    /\ UNCHANGED <<processes, writing, history>>

\* delete_assessment: its evidence links go with it, once no reset is at them;
\* the claim made of it, and what links that claim to evidence, stay.
DeleteAssessment(w) ==
    /\ w \in Assessments \ dropped
    /\ \E k \in LinkTables : cited[w][k] # {}
    /\ LET links == LinksOf(w, "research_assessment_evidence")
       IN  /\ ~Contested("research_assessment_evidence", links)
           /\ table' = [table EXCEPT !["research_assessment_evidence"] = @ \ links]
    /\ dropped' = dropped \cup {w}
    /\ UNCHANGED <<processes, read, cited, history>>

\* review_evidence: an upsert, on an assessment or on a saved answer.
ReviewEvidence ==
    /\ Cardinality(table["evidence_reviews"]) < MaxReviews
    /\ \E e \in table["evidence"] :
         /\ ~Contested("evidence", {e})
         /\ table' = Add("evidence_reviews", {e})
    /\ UNCHANGED <<processes, writing, history>>

\* The two revalidation scripts: claims that no longer pass validation are
\* deleted, those of them that are still there, and their evidence is kept.
Revalidate ==
    /\ \E failing \in (SUBSET table["extracted_claims"]) \ {{}} :
         /\ Cardinality(revoked \cup failing) <= MaxRevoked
         /\ ~Contested("extracted_claims", failing)
         /\ table' = [table EXCEPT !["extracted_claims"] = @ \ failing]
         /\ revoked' = revoked \cup failing
    /\ UNCHANGED <<processes, writing, met, prior, passes, broken>>

Next ==
    \/ \E r \in Runs :
         \/ Launch(r)
         \/ ResetStatement(r)
         \/ ResetCommit(r)
         \/ InsertRun(r)
         \/ Select(r)
         \/ Process(r)
         \/ CommitPaper(r)
         \/ Complete(r)
         \/ Fail(r)
         \/ Kill(r)
    \/ \E w \in Writers : ReadEvidence(w) \/ Cite(w) \/ Synthesize(w) \/ DeleteAssessment(w)
    \/ ReviewEvidence
    \/ Revalidate

Spec == Init /\ [][Next]_vars

-----------------------------------------------------------------------------

Claims == table["extracted_claims"]

EvidenceOf(r, p) == {e \in table["evidence"] : e.run = r /\ e.paper = p}

\* A claim has its evidence, and evidence has its claim unless a revalidation
\* took it, whatever the order in which resets and runs take their statements.
EvidenceHasItsClaim ==
    /\ Claims \subseteq table["evidence"]
    /\ table["evidence"] \ Claims \subseteq revoked

\* The evidence of a pass over a paper is all there or all gone, unless the
\* run failed on that very paper: then what it had added stays, and the paper
\* counts as extracted.
PapersAreWhole ==
    \A r \in Runs, p \in Papers :
        <<r, p>> \notin broken =>
            \/ EvidenceOf(r, p) = {}
            \/ [run |-> r, paper |-> p, accepted |-> {e.at : e \in EvidenceOf(r, p)}] \in passes

\* A paper has claims of two runs only if the two were alive together.
DuplicatesNeedOverlap ==
    \A c, d \in Claims :
        (c.paper = d.paper /\ c.run # d.run) => c.run \in met[d.run]

\* From the moment a forced run is recorded nothing of an earlier run is left;
\* and if it completes, without --limit and having met no other run, it has
\* been over the whole corpus.
ForceStartsOver ==
    \A r \in forced :
        /\ ledger[r] # "none" =>
             \A c \in Claims : c.run \notin prior[r]
        /\ (ledger[r] = "completed" /\ r \notin limited /\ met[r] = {}) =>
             \A p \in Papers : \E done \in passes : done.run = r /\ done.paper = p

Linked(w, k) == {l \in LinksOf(w, k) : l.role = "built"}

\* What the save of a gap or the build of an assessment linked is there in
\* every table or in none: a reset that a save has overtaken half way is
\* refused as a whole.  Only of an assessment that was deleted do the links of
\* its claim outlive its own, and they too are there as a whole.
CitationsComeTogether ==
    \A w \in Writers :
        \/ \A k \in LinkTables : Linked(w, k) = Built(w, cited[w][k])
        \/ \A k \in LinkTables : Linked(w, k) = {}
        \/ /\ w \in dropped
           /\ \A k \in LinkTables : Linked(w, k) =
                 IF k = "research_assessment_evidence" THEN {} ELSE Built(w, cited[w][k])

(* Why these five hold: the invariant that is inductive.                   *)

\* A reset under way has deleted rows that are there and that no other one has
\* deleted, and its process does nothing else.
ResetsStayApart ==
    /\ \A r \in Runs, k \in Tables : doomed[r][k] \subseteq table[k]
    /\ \A q, r \in Runs, k \in Tables : q # r => doomed[q][k] \cap doomed[r][k] = {}
    /\ \A r \in Runs : pc[r] # "reset" => step[r] = 1 /\ doomed[r] = Empty

\* The reset is past its DELETE of this table.
Swept(r, k) == pc[r] = "reset" /\ \E i \in 1 .. step[r] - 1 : ResetOrder[i] = k

\* Past the DELETE of evidence, what a reset has deleted is complete: claims
\* with their evidence, the evidence of a pass, the links of a writer.
SweepsAreComplete ==
    \A r \in Runs :
        /\ Swept(r, "evidence") => doomed[r]["evidence"] \cap Claims = doomed[r]["extracted_claims"]
        /\ Swept(r, "evidence") => \A q \in Runs, p \in Papers :
              \/ EvidenceOf(q, p) \subseteq doomed[r]["evidence"]
              \/ EvidenceOf(q, p) \cap doomed[r]["evidence"] = {}
        /\ Swept(r, "evidence") => \A w \in Writers :
              \/ \A k \in LinkTables : Linked(w, k) \subseteq doomed[r][k]
              \/ \A k \in LinkTables : Linked(w, k) \cap doomed[r][k] = {}

\* Of two runs that were started, they met or one had ended before.
RunsMeetOrFollow ==
    /\ \A q, r \in Runs : q \in met[r] => r \in met[q]
    /\ \A r \in Runs : pc[r] = "off" => met[r] = {}
    /\ \A q, r \in Alive : q # r => q \in met[r]
    /\ \A r \in Alive, q \in Runs : pc[q] = "end" => q \in met[r] \cup prior[r]
    /\ \A r \in Runs : \A q \in prior[r] : pc[q] = "end"

Selected(r) == pc[r] \in {"work", "save", "end"}

\* Where a run is in its course shows in its variables.
RunsKeepStep ==
    \A r \in Runs :
        /\ pc[r] = "reset" => r \in forced
        /\ pc[r] = "off" => r \notin forced
        /\ pc[r] \in {"off", "reset", "insert"} => ledger[r] = "none"
        /\ pc[r] \in {"select", "work", "save"} => ledger[r] = "running"
        /\ pc[r] \notin {"work", "save"} => todo[r] = {}
        /\ IF pc[r] = "save" THEN pass[r].paper \in Papers \ todo[r] ELSE pass[r] = NoPass

\* A run has still to work on this paper, or is working on it.
Due(r, p) == p \in todo[r] \/ p = pass[r].paper

\* A run works on a paper once, and on none that an earlier run has claims of.
WorkIsNew ==
    /\ \A c \in Claims \cup table["evidence"] : Selected(c.run) /\ ~Due(c.run, c.paper)
    /\ \A d \in passes : Selected(d.run) /\ ~Due(d.run, d.paper)
    /\ \A r \in Runs, c \in Claims : c.run \in prior[r] => ~Due(r, c.paper)

\* A forced run is rid of what earlier runs left, and has the corpus before it.
ForcedRunsAreAhead ==
    \A r \in forced :
        /\ Swept(r, "extracted_claims") =>
             \A c \in Claims : c.run \in prior[r] => c \in doomed[r]["extracted_claims"]
        /\ pc[r] = "insert" => \A c \in Claims : c.run \notin prior[r]
        /\ (pc[r] \in {"work", "save"} /\ r \notin limited /\ met[r] = {}) =>
             \A p \in Papers : Due(r, p) \/ \E done \in passes : done.run = r /\ done.paper = p

\* A writer that is still at work has cited nothing.
WritersCiteOnce ==
    \A w \in Writers : read[w] # {} => \A k \in LinkTables : cited[w][k] = {}

IInv ==
    /\ TypeOK
    /\ ResetsStayApart
    /\ SweepsAreComplete
    /\ RunsMeetOrFollow
    /\ RunsKeepStep
    /\ WorkIsNew
    /\ ForcedRunsAreAhead
    /\ WritersCiteOnce
    /\ EvidenceHasItsClaim
    /\ PapersAreWhole
    /\ DuplicatesNeedOverlap
    /\ ForceStartsOver
    /\ CitationsComeTogether

\* "those referencing rows have to go first or the Evidence delete below
\* violates their foreign key" (extraction/pipeline.py): whatever refers to
\* evidence when a reset begins is in a table it deletes before evidence.
ResetClearsTheWay ==
    \A r \in Runs : (pc[r] = "reset" /\ step[r] = 1) =>
        \A k \in Referring : table[k] # {} =>
            \E i, j \in DOMAIN ResetOrder :
                i < j /\ ResetOrder[i] = k /\ ResetOrder[j] = "evidence"
===============================================================================
