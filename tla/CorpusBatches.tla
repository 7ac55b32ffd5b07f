---------------------------- MODULE CorpusBatches ----------------------------
(***************************************************************************)
(* The two batches that go over the whole corpus paper by paper: the       *)
(* detection of candidate gaps and the fetching of citations.  They share  *)
(* their frame: a row for the run, a selection made once, counters that    *)
(* are written to the row after every paper, and a handler that marks a    *)
(* failure.  Both programs also take a single paper: then there is no row, *)
(* nothing is passed over, and a failure ends the program.                 *)
(*                                                                         *)
(* Runs started by hand may overlap any other.  Beside them a forced       *)
(* extraction deletes the evidence, and curators exclude papers.           *)
(*                                                                         *)
(* Whether a session still works is part of what happens: after a failed   *)
(* commit, or a failed statement of its transaction, every commit raises,  *)
(* the handler's own as well, and the process ends with its row "running". *)
(* Only an error inside a savepoint leaves the session usable.             *)
(***************************************************************************)
EXTENDS Naturals, FiniteSets

CONSTANTS
    Runs,       \* processes, each runs once
    Papers,     \* papers with an embedding, a DOI and a Semantic Scholar id
    Cites,      \* who cites whom: a set of pairs of papers
    MaxDrafts,  \* bound: gaps found at one seed
    MaxResets,  \* bound: forced extractions
    None

ASSUME PapersAssumption == IsFiniteSet(Papers) /\ None \notin Papers
ASSUME CitesAssumption == Cites \subseteq Papers \X Papers
ASSUME BoundsAssumption == MaxDrafts \in Nat /\ MaxResets \in Nat

Sources == {"semantic_scholar", "crossref"}
Kinds == {"gaps"} \cup Sources

VARIABLES
    gaps,      \* candidate_gaps: seed, the run, a number
    edges,     \* paper_citations: from, to, source, the run
    excluded,  \* papers with excluded_at
    era,       \* forced extractions so far: the evidence of one is gone in the next
    row,       \* the row of each run, as committed
    pc, arg,   \* where a run is; its kind and flags
    todo,      \* papers of its selection not yet taken
    hand,      \* the paper in hand
    found,     \* what was found for it: drafts of gaps, or edges
    put,       \* edges inserted in its open transaction
    count,     \* its BatchSummary
    fetched,   \* history: pairs of source and paper whose own record was fetched
    met,       \* history: the runs it has overlapped
    passed     \* history: pairs of source and edge that a run found there already

tables == <<gaps, edges, excluded, era>>
work == <<todo, hand, found, put, count>>
history == <<fetched, met, passed>>
vars == <<tables, row, pc, arg, work, history>>

Zero == [seen |-> 0, skipped |-> 0, failed |-> 0, found |-> 0, made |-> 0]
Nothing == [drafts |-> 0, era |-> 0, cites |-> {}]

Single(r) == arg[r].single

Alive == {r \in Runs : pc[r] \notin {"off", "completed", "failed", "raised", "aborted", "killed"}}

Is(r, kind) == arg[r].kind = kind
Detects(r) == Is(r, "gaps")
Fetches(r) == ~ Detects(r)

To(r, label) == pc' = [pc EXCEPT ![r] = label]
Add(r, fields) == count' = [count EXCEPT ![r] = [f \in DOMAIN @ |-> @[f] + IF f \in DOMAIN fields THEN fields[f] ELSE 0]]

\* The process ends; what is not committed is lost.
End(r, label) ==
    /\ To(r, label)
    /\ todo' = [todo EXCEPT ![r] = {}]
    /\ put' = [put EXCEPT ![r] = {}]
    /\ count' = [count EXCEPT ![r] = Zero]

\* Nothing is in hand any more.
PutDown(r) ==
    /\ hand' = [hand EXCEPT ![r] = None]
    /\ found' = [found EXCEPT ![r] = Nothing]

GapsBy(r) == {g \in gaps : g.by = r}
EdgesBy(r) == {e \in edges : e.by = r}

-----------------------------------------------------------------------------
(* The frame: _run_batch *)

\* From now on the run overlaps those that are alive.
Meets(r) ==
    met' = [q \in Runs |-> IF q = r THEN Alive ELSE IF q \in Alive THEN met[q] \cup {r} ELSE met[q]]

\* The row is committed before anything is selected.
Launch(r) ==
    /\ pc[r] = "off"
    /\ \E kind \in Kinds, force, save \in BOOLEAN :
         arg' = [arg EXCEPT ![r] = [kind |-> kind, force |-> force, save |-> save, single |-> FALSE]]
    /\ row' = [row EXCEPT ![r] = [status |-> "running", count |-> Zero]]
    /\ Meets(r)
    /\ To(r, "select")
    /\ UNCHANGED <<tables, work, fetched, passed>>

\* Mutant: the gaps of a seed do not mark it.
Done_Unmarked(r) ==
    IF Detects(r) THEN {} ELSE {e.from : e \in {d \in edges : d.source = arg[r].kind}}

\* What is done already, and is passed over unless --force.
Done(r) ==
    IF Detects(r) THEN {g.seed : g \in gaps}
    ELSE {e.from : e \in {d \in edges : d.source = arg[r].kind}}

\* _select_seed_papers and _select_target_papers; the count of skipped papers
\* is written at once.
Select(r) ==
    LET all == IF Detects(r) THEN Papers \ excluded ELSE Papers
        chosen == IF arg[r].force THEN all ELSE all \ Done(r)
        tally == [count[r] EXCEPT !.skipped = IF Detects(r) THEN Cardinality(all \ chosen) ELSE 0]
    IN /\ pc[r] = "select"
       /\ todo' = [todo EXCEPT ![r] = chosen]
       /\ count' = [count EXCEPT ![r] = tally]
       /\ row' = [row EXCEPT ![r].count = tally]
       /\ To(r, "next")
       /\ UNCHANGED <<tables, arg, hand, found, put, history>>

\* Mutant: the counters are committed before the edges.
Sync_CountersFirst(r) ==
    /\ pc[r] = "sync" /\ ~ Single(r)
    /\ row' = [row EXCEPT ![r].count = count[r]]
    /\ To(r, IF put[r] = {} THEN "next" ELSE "sync")
    /\ edges' = IF row[r].count = count[r] THEN edges \cup put[r] ELSE edges
    /\ put' = IF row[r].count = count[r] THEN [put EXCEPT ![r] = {}] ELSE put
    /\ UNCHANGED <<gaps, excluded, era, arg, todo, hand, found, count, history>>

\* _sync_run: the counters, and with them the edges of this paper.
Sync(r) ==
    /\ pc[r] = "sync" /\ ~ Single(r)
    /\ row' = [row EXCEPT ![r].count = count[r]]
    /\ edges' = edges \cup put[r]
    /\ put' = [put EXCEPT ![r] = {}]
    /\ PutDown(r)
    /\ To(r, "next")
    /\ UNCHANGED <<gaps, excluded, era, arg, todo, count, history>>

Complete(r) ==
    /\ pc[r] = "next" /\ todo[r] = {}
    /\ row' = [row EXCEPT ![r].status = "completed"]
    /\ End(r, "completed")
    /\ UNCHANGED <<tables, arg, hand, found, history>>

\* The handler, on a session that is unusable: its commit raises too, the
\* transaction is lost and the row stays as it was.
Raise(r, label) ==
    /\ End(r, label)
    /\ PutDown(r)
    /\ UNCHANGED <<tables, row, arg, history>>

\* A process that ends so leaves its row as it is; what it had in hand is kept
\* here if it was about to be counted.
LeaveRow(r, label) ==
    /\ End(r, label)
    /\ IF pc[r] = "sync" THEN UNCHANGED <<hand, found>> ELSE PutDown(r)
    /\ UNCHANGED <<tables, row, arg, history>>

\* A statement or a commit of the run fails.  Where that is caught, the commit
\* of the counters fails next.
DatabaseError(r) ==
    /\ pc[r] \in {"select", "next", "edges", "sync"}
    /\ LeaveRow(r, "raised")

Kill(r) ==
    /\ r \in Alive
    /\ LeaveRow(r, "killed")

\* The next paper of the selection, however old the selection is.
Take(r, p) ==
    /\ pc[r] = "next"
    /\ p \in todo[r]
    /\ todo' = [todo EXCEPT ![r] = @ \ {p}]
    /\ hand' = [hand EXCEPT ![r] = p]

\* Detection, or the request and the resolution, raises: counted and passed.
Fail(r) ==
    /\ ~ Single(r)
    /\ \E p \in Papers : Take(r, p)
    /\ Add(r, [seen |-> 1, failed |-> 1])
    /\ To(r, "sync")
    /\ UNCHANGED <<tables, row, arg, found, put, history>>

-----------------------------------------------------------------------------
(* Gaps *)

\* detect_candidate_gaps: no relevant papers or insufficient evidence (no
\* drafts), or drafts that cite the evidence of now.
Detect(r) ==
    /\ Detects(r)
    /\ \E p \in Papers, n \in 0 .. MaxDrafts :
         /\ Take(r, p)
         /\ found' = [found EXCEPT ![r] = IF n = 0 THEN Nothing ELSE [drafts |-> n, era |-> era, cites |-> {}]]
         /\ Add(r, [seen |-> 1, found |-> n])
         /\ To(r, IF n > 0 /\ arg[r].save THEN "save" ELSE "sync")
    /\ UNCHANGED <<tables, row, arg, put, history>>

Drafts(r) == {[seed |-> hand[r], by |-> r, nr |-> n] : n \in 1 .. found[r].drafts}

\* Mutant: each draft is committed on its own, and one may fail.
SaveGaps_OneByOne(r) ==
    /\ pc[r] = "save"
    /\ found[r].era = era
    /\ \E some \in (SUBSET Drafts(r)) \ {{}} : gaps' = gaps \cup some
    /\ Add(r, [made |-> found[r].drafts])
    /\ To(r, "sync")
    /\ UNCHANGED <<edges, excluded, era, row, arg, todo, hand, found, put, history>>

\* save_candidate_gaps commits the gaps, their evidence and their claims
\* before the counters know of them.
SaveGaps(r) ==
    /\ pc[r] = "save"
    /\ found[r].era = era
    /\ gaps' = gaps \cup Drafts(r)
    /\ Add(r, [made |-> found[r].drafts])
    /\ To(r, "sync")
    /\ UNCHANGED <<edges, excluded, era, row, arg, todo, hand, found, put, history>>

\* The evidence has been deleted since: the flush meets the foreign key.
SaveFails(r) ==
    /\ pc[r] = "save"
    /\ found[r].era # era
    /\ Raise(r, IF Single(r) THEN "raised" ELSE "aborted")

-----------------------------------------------------------------------------
(* Citations *)

\* Mutant: CrossRef records are read like those of Semantic Scholar.
Known_BothWays(source, p) == {c \in Cites : p \in {c[1], c[2]}}

\* What a source tells of a paper: Semantic Scholar both directions, CrossRef
\* the references only.
Known(source, p) == {c \in Cites : c[1] = p \/ (source = "semantic_scholar" /\ c[2] = p)}

\* fetch_raw and resolve_citations; a dry run counts what it would create.
Fetch(r) ==
    LET source == arg[r].kind
    IN /\ Fetches(r)
       /\ \E p \in Papers :
            /\ Take(r, p)
            /\ fetched' = fetched \cup {<<source, p>>}
            /\ \E told \in SUBSET Known(source, p) :
                 IF arg[r].save
                 THEN /\ found' = [found EXCEPT ![r].cites = told]
                      /\ Add(r, [seen |-> 1])
                      /\ To(r, "edges")
                 ELSE /\ Add(r, [seen |-> 1, made |-> Cardinality(told)])
                      /\ To(r, "sync")
                      /\ UNCHANGED found
       /\ UNCHANGED <<tables, row, arg, put, met, passed>>

Same(e, c, r) == e.from = c[1] /\ e.to = c[2] /\ e.source = arg[r].kind

\* The runs that have inserted this edge and not yet committed.
Holders(r, c) == {q \in Runs \ {r} : \E e \in put[q] : Same(e, c, r)}

\* Mutant: an edge that another run is inserting is passed without waiting.
InsertEdge_NoWait(r) ==
    /\ pc[r] = "edges"
    /\ \E c \in found[r].cites :
         /\ found' = [found EXCEPT ![r].cites = @ \ {c}]
         /\ IF Holders(r, c) # {} \/ \E e \in edges \cup put[r] : Same(e, c, r)
            THEN passed' = passed \cup {<<arg[r].kind, c>>} /\ UNCHANGED <<put, count>>
            ELSE /\ put' = [put EXCEPT ![r] =
                              @ \cup {[from |-> c[1], to |-> c[2], source |-> arg[r].kind, by |-> r]}]
                 /\ Add(r, [made |-> 1])
                 /\ UNCHANGED passed
    /\ UNCHANGED <<tables, row, pc, arg, todo, hand, fetched, met>>

\* One savepoint of persist_citation_edges: an edge that is there, counted or
\* not, is a unique violation and is passed.  Whether it is there is known when
\* the run that is inserting it has ended its transaction.
InsertEdge(r) ==
    /\ pc[r] = "edges"
    /\ \E c \in found[r].cites :
         /\ Holders(r, c) = {}
         /\ found' = [found EXCEPT ![r].cites = @ \ {c}]
         /\ IF \E e \in edges \cup put[r] : Same(e, c, r)
            THEN passed' = passed \cup {<<arg[r].kind, c>>} /\ UNCHANGED <<put, count>>
            ELSE /\ put' = [put EXCEPT ![r] =
                              @ \cup {[from |-> c[1], to |-> c[2], source |-> arg[r].kind, by |-> r]}]
                 /\ Add(r, [made |-> 1])
                 /\ UNCHANGED passed
    /\ UNCHANGED <<tables, row, pc, arg, todo, hand, fetched, met>>

EdgesDone(r) ==
    /\ pc[r] = "edges" /\ found[r].cites = {}
    /\ To(r, "sync")
    /\ UNCHANGED <<tables, row, arg, work, history>>

\* An insertion fails that is no unique violation: the server ends a deadlock
\* of two runs that insert the same edges in opposite orders, or a wait that is
\* too long, or the disk is full.  That leaves its savepoint: the handler's
\* commit works, and takes along the edges put so far.
SavepointFails(r) ==
    /\ ~ Single(r)
    /\ pc[r] = "edges" /\ found[r].cites # {}
    /\ edges' = edges \cup put[r]
    /\ row' = [row EXCEPT ![r].status = "failed"]
    /\ End(r, "failed")
    /\ PutDown(r)
    /\ UNCHANGED <<gaps, excluded, era, arg, history>>

-----------------------------------------------------------------------------
(* A single paper *)

\* The paper given must be there, for detection also not excluded, and is
\* taken whatever has been done to it; --force is refused.
LaunchSingle(r) ==
    /\ pc[r] = "off"
    /\ \E kind \in Kinds, save \in BOOLEAN, p \in Papers :
         /\ kind = "gaps" => p \notin excluded
         /\ arg' = [arg EXCEPT ![r] = [kind |-> kind, force |-> FALSE, save |-> save, single |-> TRUE]]
         /\ todo' = [todo EXCEPT ![r] = {p}]
    /\ Meets(r)
    /\ To(r, "next")
    /\ UNCHANGED <<tables, row, hand, found, put, count, fetched, passed>>

\* Gaps are committed already; edges are committed together.
CommitSingle(r) ==
    /\ pc[r] = "sync" /\ Single(r)
    /\ edges' = edges \cup put[r]
    /\ End(r, "completed")
    /\ PutDown(r)
    /\ UNCHANGED <<gaps, excluded, era, row, arg, history>>

\* Detection, the request or an insertion fails: nothing catches it, and the
\* session is closed without a commit.
FailSingle(r) ==
    /\ Single(r)
    /\ pc[r] \in {"next", "edges"}
    /\ Raise(r, "raised")

-----------------------------------------------------------------------------
(* Beside the runs *)

\* reset_extraction_data: the gaps stay, without their evidence.
Reset ==
    /\ era < MaxResets
    /\ era' = era + 1
    /\ UNCHANGED <<gaps, edges, excluded, row, pc, arg, work, history>>

\* exclude_paper
Exclude ==
    /\ \E p \in Papers \ excluded : excluded' = excluded \cup {p}
    /\ UNCHANGED <<gaps, edges, era, row, pc, arg, work, history>>

-----------------------------------------------------------------------------

Init ==
    /\ gaps = {} /\ edges = {} /\ excluded = {} /\ era = 0
    /\ row = [r \in Runs |-> [status |-> "none", count |-> Zero]]
    /\ pc = [r \in Runs |-> "off"]
    /\ arg = [r \in Runs |-> [kind |-> "gaps", force |-> FALSE, save |-> FALSE, single |-> FALSE]]
    /\ todo = [r \in Runs |-> {}]
    /\ hand = [r \in Runs |-> None]
    /\ found = [r \in Runs |-> Nothing]
    /\ put = [r \in Runs |-> {}]
    /\ count = [r \in Runs |-> Zero]
    /\ fetched = {}
    /\ met = [r \in Runs |-> {}]
    /\ passed = {}

Next ==
    \/ \E r \in Runs :
         \/ Launch(r) \/ Select(r) \/ Fail(r) \/ Sync(r) \/ Complete(r)
         \/ Detect(r) \/ SaveGaps(r) \/ SaveFails(r)
         \/ Fetch(r) \/ InsertEdge(r) \/ EdgesDone(r) \/ SavepointFails(r)
         \/ LaunchSingle(r) \/ CommitSingle(r) \/ FailSingle(r)
         \/ DatabaseError(r) \/ Kill(r)
    \/ Reset
    \/ Exclude

Spec == Init /\ [][Next]_vars

-----------------------------------------------------------------------------
(* Properties *)

\* What a detection has stored is what its row counts, but for all the gaps of
\* one seed if it is, or was when it ended, between the two commits.
GapsTold(r) ==
    Detects(r) /\ ~ Single(r) =>
        LET uncounted == Cardinality(GapsBy(r)) - row[r].count.made
        IN \/ uncounted = 0
           \/ /\ pc[r] \in {"sync", "raised", "killed"}
              /\ Drafts(r) \subseteq GapsBy(r)
              /\ uncounted = found[r].drafts

\* "a crash partway through loses at most the paper in progress"
\* (gaps/batch.py): the row of a detection is right but for that paper.
SavedGapsAreCounted == \A r \in Runs : GapsTold(r)

\* "Idempotent by default" (gaps/batch.py): a seed has the gaps of two runs
\* only if one was forced or told that very seed, or both were at work at the
\* same time.
RepeatsHaveAReason ==
    \A g, h \in gaps : g.seed = h.seed =>
        \/ g.by = h.by
        \/ \E r \in {g.by, h.by} : arg[r].force \/ Single(r)
        \/ g.by \in met[h.by]

\* The edges a run has stored are those its row counts, unless an insertion
\* has failed: then some more.  A run for a single paper has no row, and stores
\* edges only if it ends well.
EdgesTold(r) ==
    Fetches(r) /\ arg[r].save =>
        LET stored == Cardinality(EdgesBy(r))
        IN IF Single(r) THEN stored > 0 => pc[r] = "completed"
           ELSE IF row[r].status = "failed" THEN row[r].count.made <= stored
           ELSE row[r].count.made = stored

\* So it is however runs of the same source overlap and end.
EdgesAreCounted == \A r \in Runs : EdgesTold(r)

\* "run's counts are already kept current" (cli_detect.py): at any moment, and
\* however it ends, the row of a batch tells what the batch has stored.
RowsTellWhatIsStored == SavedGapsAreCounted /\ EdgesAreCounted

\* What "a paper already covered" (citations/batch.py) comes to: a paper that
\* is passed over has had its references fetched - surely from CrossRef, but
\* from Semantic Scholar it may only have been named by a paper it cites.
CoveredMeansFetched ==
    \A e \in edges :
        \/ <<e.source, e.from>> \in fetched
        \/ e.source = "semantic_scholar" /\ <<e.source, e.to>> \in fetched

\* "skipping ones that already exist" (citations/fetch.py): an edge that a run
\* passes as stored is stored, whatever becomes of the run that was inserting it.
PassedEdgesAreThere ==
    \A x \in passed : \E e \in edges : e.source = x[1] /\ <<e.from, e.to>> = x[2]

\* "one bad paper never aborts the run" (gaps/batch.py): no detection ends
\* because the gaps of a paper could not be saved.
NoPaperAborts == \A r \in Runs : pc[r] # "aborted"

-----------------------------------------------------------------------------
(* The invariant behind them *)

Labels == {"off", "select", "next", "save", "edges", "sync",
           "completed", "failed", "raised", "aborted", "killed"}

Counts == [seen: Nat, skipped: Nat, failed: Nat, found: Nat, made: Nat]

Edges == [from: Papers, to: Papers, source: Sources, by: Runs]

TypeOK ==
    /\ gaps \subseteq [seed: Papers, by: Runs, nr: Nat]
    /\ edges \subseteq Edges
    /\ excluded \subseteq Papers
    /\ era \in Nat
    /\ row \in [Runs -> [status: {"none", "running", "completed", "failed"}, count: Counts]]
    /\ pc \in [Runs -> Labels]
    /\ arg \in [Runs -> [kind: Kinds, force: BOOLEAN, save: BOOLEAN, single: BOOLEAN]]
    /\ todo \in [Runs -> SUBSET Papers]
    /\ hand \in [Runs -> Papers \cup {None}]
    /\ found \in [Runs -> [drafts: Nat, era: Nat, cites: SUBSET Cites]]
    /\ put \in [Runs -> SUBSET Edges]
    /\ count \in [Runs -> Counts]
    /\ fetched \subseteq Sources \X Papers
    /\ met \in [Runs -> SUBSET Runs]
    /\ passed \subseteq Sources \X Cites

\* Whoever is alive together has met, and knows it on both sides.
MeetingIsMutual ==
    \A q, r \in Runs :
        /\ q \in met[r] => r \in met[q]
        /\ q \in Alive /\ r \in Alive /\ q # r => q \in met[r]

\* A run that has not begun has left no trace, and none but its row until it
\* has selected.
Untouched(r) ==
    /\ pc[r] \in {"off", "select"} =>
        /\ GapsBy(r) = {} /\ EdgesBy(r) = {} /\ put[r] = {}
        /\ count[r] = Zero /\ row[r].count = Zero /\ found[r] = Nothing
    /\ pc[r] = "off" => met[r] = {} /\ row[r].status = "none"

\* What a run has in hand belongs to where it is.
InPlace(r) ==
    /\ todo[r] # {} => pc[r] \in {"next", "save", "edges", "sync"}
    /\ put[r] # {} => pc[r] \in {"edges", "sync"} /\ Fetches(r) /\ arg[r].save
    /\ \A e \in put[r] : e.by = r
    /\ put[r] \cap edges = {}
    /\ \A e \in put[r] : <<e.from, e.to>> \notin found[r].cites
    /\ pc[r] = "save" => Detects(r) /\ hand[r] \in Papers \ todo[r]
    /\ pc[r] = "edges" => Fetches(r) /\ arg[r].save
    /\ pc[r] = "select" => ~ Single(r)
    /\ row[r].status = "failed" <=> pc[r] = "failed"
    /\ pc[r] = "failed" => Fetches(r) /\ ~ Single(r)

\* The seeds a run has before it have no gaps of its own, and none but of runs
\* it has met, unless it took them with open eyes.
SeedsAreNew(r) ==
    \A g \in gaps :
        /\ g.by = r => g.seed \notin todo[r] /\ (pc[r] = "save" => g.seed # hand[r])
        /\ /\ g.by # r /\ Detects(r) /\ ~ arg[r].force /\ ~ Single(r)
           /\ g.seed \in todo[r] \/ (pc[r] = "save" /\ g.seed = hand[r])
           => g.by \in met[r]

\* The counter runs ahead of the row by what is not committed with it.
GapsCounted(r) ==
    /\ IsFiniteSet(GapsBy(r))
    /\ Detects(r) /\ ~ Single(r) =>
         /\ pc[r] \in {"off", "select", "next", "save", "sync"} => count[r].made = Cardinality(GapsBy(r))
         /\ pc[r] \in {"off", "select", "next", "save"} => row[r].count.made = Cardinality(GapsBy(r))

EdgesCounted(r) ==
    /\ IsFiniteSet(EdgesBy(r)) /\ IsFiniteSet(put[r])
    /\ Fetches(r) /\ arg[r].save /\ ~ Single(r) /\ pc[r] \in {"select", "next", "edges", "sync"} =>
         count[r].made = row[r].count.made + Cardinality(put[r])

\* What is told of a paper comes from a record that was fetched.
Told(source, from, to) ==
    \/ <<source, from>> \in fetched
    \/ source = "semantic_scholar" /\ <<source, to>> \in fetched

EdgesAreTold(r) ==
    /\ \A e \in put[r] : Told(e.source, e.from, e.to)
    /\ Fetches(r) => \A c \in found[r].cites : Told(arg[r].kind, c[1], c[2])

RunOK(r) ==
    /\ Untouched(r)
    /\ InPlace(r)
    /\ SeedsAreNew(r)
    /\ GapsCounted(r) /\ GapsTold(r)
    /\ EdgesCounted(r) /\ EdgesTold(r)
    /\ EdgesAreTold(r)

IInv ==
    /\ TypeOK
    /\ MeetingIsMutual
    /\ \A r \in Runs : RunOK(r)
    /\ RepeatsHaveAReason
    /\ CoveredMeansFetched
    /\ PassedEdgesAreThere
=============================================================================
