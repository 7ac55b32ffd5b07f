------------------------------ MODULE Ingestion -------------------------------
(***************************************************************************)
(* Ingestion runs: fetch a page, drop what is known, insert the rest, save *)
(* the progress, until the source is exhausted.                            *)
(*                                                                         *)
(* A run is a process, one per source as a rule, so that runs of different *)
(* sources share the table of authors, whose names are unique.  A page is  *)
(* one database transaction and a paper one savepoint in it.  Inserting a  *)
(* key that another open transaction has inserted waits for its outcome;   *)
(* PostgreSQL ends a cycle of waits by an error in one of its members.     *)
(*                                                                         *)
(* A source is a list, newest first, paged by an offset; papers that are   *)
(* published while a run is under way move the others down.                *)
(***************************************************************************)
EXTENDS Naturals, Sequences, FiniteSets, SequencesExt, Subsequences

CONSTANTS
    Runs,      \* ingestion processes
    Sources,
    Items,     \* what the sources list
    Invalid,   \* the items without an id or a title
    Names,     \* of authors
    Byline,    \* the names an item gives for its authors, in order
    Null,      \* in the place of a name or category: the source gives none
    Labels,    \* of categories
    Filed,     \* the categories an item gives, in order
    Listed,    \* what each source lists at the start
    Coming,    \* what each source may still publish
    PageSize

ASSUME ItemsAssumption ==
    /\ Invalid \subseteq Items
    /\ Byline \in [Items -> Seq(Names \cup {Null})]
    /\ Filed \in [Items -> Seq(Labels \cup {Null})]
ASSUME SourcesAssumption == Listed \in [Sources -> Seq(Items)] /\ Coming \in [Sources -> Seq(Items)]
\* What a source publishes is new.
ASSUME NewsAssumption == \A s \in Sources :
    /\ ToSet(Coming[s]) \cap ToSet(Listed[s]) = {}
    /\ IsInjective(Coming[s])
ASSUME PageSizeAssumption == PageSize \in Nat \ {0}

VARIABLES
    feed,     \* what each source lists now
    coming,   \* what it has not published yet
    papers,   \* committed: who inserted what
    authors,  \* committed names
    errors,   \* committed: ingestion_errors
    row,      \* ingestion_runs
    pc,       \* of each run: "off", "fetch", "paper", "lookup", "author", "commit", "end"
    source,   \* what it reads
    next,     \* the offset after the page it is at
    last,     \* the runs whose page exhausts the source
    page,     \* the items of the page still to insert
    byline,   \* the authors still to add to the item it is at
    linked,   \* the authors that item has
    kept,     \* uncommitted: what the finished savepoints of the page hold
    fresh,    \* uncommitted: what the savepoint under way holds
    refused,  \* the items of the page that failed
    counts,   \* how many items of the page were fetched, known or invalid
    promised, \* history: what a run, and those it resumes, found listed
    met,      \* history: the runs alive together
    cut       \* history: the runs that an error ended inside a page

work == <<pc, source, next, last, page, byline, linked, kept, fresh, refused, counts>>
tables == <<papers, authors, errors, row>>
vars == <<feed, coming, tables, work, promised, met, cut>>

Nothing == [papers |-> {}, authors |-> {}]

Transactions == [papers: SUBSET Items, authors: SUBSET Names]

Statuses == {"none", "running", "paused", "completed", "failed"}

TypeOK ==
    /\ feed \in [Sources -> Seq(Items)] /\ coming \in [Sources -> Seq(Items)]
    /\ papers \subseteq [item: Items, by: Runs]
    /\ authors \subseteq Names
    /\ errors \subseteq [item: Items, by: Runs, kind: {"validation_error", "db_error"}]
    /\ row \in [Runs -> [status: Statuses, resume: Nat, fetched: Nat, inserted: Nat,
                         duplicate: Nat, failed: Nat]]
    /\ pc \in [Runs -> {"off", "fetch", "paper", "lookup", "author", "commit", "end"}]
    /\ source \in [Runs -> Sources]
    /\ next \in [Runs -> Nat]
    /\ last \subseteq Runs
    /\ page \in [Runs -> Seq(Items)] /\ byline \in [Runs -> Seq(Names \cup {Null})]
    /\ linked \in [Runs -> SUBSET Names]
    /\ kept \in [Runs -> Transactions] /\ fresh \in [Runs -> Transactions]
    /\ refused \in [Runs -> SUBSET Items]
    /\ counts \in [Runs -> [fetched: Nat, duplicate: Nat, invalid: SUBSET Items]]
    /\ promised \in [Runs -> SUBSET Items]
    /\ met \in [Runs -> SUBSET Runs]
    /\ cut \subseteq Runs

-----------------------------------------------------------------------------
(* The database.                                                           *)

Stored == {p.item : p \in papers}

Pending(r) == [papers |-> kept[r].papers \cup fresh[r].papers,
               authors |-> kept[r].authors \cup fresh[r].authors]

\* Whom a run waits for: the holder of the key it is inserting.
WaitsFor(r, q) ==
    /\ q # r
    /\ \/ pc[r] = "paper" /\ page[r] # <<>> /\ Head(page[r]) \in Pending(q).papers
       \/ pc[r] = "author" /\ Head(byline[r]) \in Pending(q).authors

Waits(r) == \E q \in Runs : WaitsFor(r, q)

\* What a commit of the run's transaction makes visible.
Visible(r) ==
    /\ papers' = papers \cup [item: kept[r].papers, by: {r}]
    /\ authors' = authors \cup kept[r].authors

-----------------------------------------------------------------------------

Init ==
    /\ feed = Listed /\ coming = Coming
    /\ papers = {} /\ authors = {} /\ errors = {}
    /\ row = [r \in Runs |-> [status |-> "none", resume |-> 0, fetched |-> 0,
                              inserted |-> 0, duplicate |-> 0, failed |-> 0]]
    /\ pc = [r \in Runs |-> "off"]
    /\ source \in [Runs -> Sources]
    /\ next = [r \in Runs |-> 0]
    /\ last = {}
    /\ page = [r \in Runs |-> <<>>] /\ byline = [r \in Runs |-> <<>>]
    /\ linked = [r \in Runs |-> {}]
    /\ kept = [r \in Runs |-> Nothing] /\ fresh = [r \in Runs |-> Nothing]
    /\ refused = [r \in Runs |-> {}]
    /\ counts = [r \in Runs |-> [fetched |-> 0, duplicate |-> 0, invalid |-> {}]]
    /\ promised = [r \in Runs |-> {}]
    /\ met = [r \in Runs |-> {}]
    /\ cut = {}

Publish(s) ==
    /\ coming[s] # <<>>
    /\ feed' = [feed EXCEPT ![s] = <<Head(coming[s])>> \o @]
    /\ coming' = [coming EXCEPT ![s] = Tail(@)]
    /\ UNCHANGED <<tables, work, promised, met, cut>>

Alive == {r \in Runs : pc[r] \notin {"off", "end"}}

\* run: from scratch, or from the resume_state of a run that has ended.
Launch(r) ==
    /\ pc[r] = "off"
    /\ \/ /\ next' = [next EXCEPT ![r] = 0]
          /\ promised' = [promised EXCEPT ![r] = ToSet(feed[source[r]])]
       \/ \E q \in Runs :
            /\ pc[q] = "end" /\ source[q] = source[r]
            /\ next' = [next EXCEPT ![r] = row[q].resume]
            /\ promised' = [promised EXCEPT ![r] = promised[q]]
    /\ row' = [row EXCEPT ![r].status = "running", ![r].resume = next'[r]]
    /\ pc' = [pc EXCEPT ![r] = "fetch"]
    /\ met' = [q \in Runs |-> IF q = r THEN Alive
                              ELSE IF q \in Alive THEN met[q] \cup {r} ELSE met[q]]
    /\ UNCHANGED <<feed, coming, papers, authors, errors, source, last, page, byline, linked,
                   kept, fresh, refused, counts, cut>>

\* fetch, _validate and _deduplicate: of the page, what is neither invalid nor
\* stored, each item once.
Fetch(r) ==
    /\ pc[r] = "fetch"
    /\ LET all == feed[source[r]]
           got == SubSeq(all, next[r] + 1, Min({next[r] + PageSize, Len(all)}))
           valid == Among(got, Items \ Invalid)
           unique == Once(Among(valid, Items \ Stored))
       IN  /\ page' = [page EXCEPT ![r] = unique]
           /\ counts' = [counts EXCEPT ![r] = [fetched |-> Len(got),
                                               duplicate |-> Len(valid) - Len(unique),
                                               invalid |-> ToSet(got) \cap Invalid]]
           /\ next' = [next EXCEPT ![r] = @ + Len(got)]
           /\ last' = IF got = <<>> \/ next[r] + Len(got) >= Len(all) THEN last \cup {r} ELSE last
    /\ pc' = [pc EXCEPT ![r] = "paper"]
    /\ UNCHANGED <<feed, coming, tables, source, byline, linked, kept, fresh, refused,
                   promised, met, cut>>

\* Mutant: a name that comes twice is linked twice.
AuthorsOf_AsListed(item) == Byline[item]

\* _dedupe_authors
AuthorsOf(item) == Once(Byline[item])

\* The savepoint of the item is rolled back: an IntegrityError.
Refuse(r) ==
    /\ refused' = [refused EXCEPT ![r] = @ \cup {Head(page[r])}]
    /\ fresh' = [fresh EXCEPT ![r] = Nothing]
    /\ linked' = [linked EXCEPT ![r] = {}]
    /\ byline' = [byline EXCEPT ![r] = <<>>]
    /\ page' = [page EXCEPT ![r] = Tail(@)]
    /\ pc' = [pc EXCEPT ![r] = "paper"]

\* session.add(row) and flush.
InsertPaper(r) ==
    /\ pc[r] = "paper"
    /\ page[r] # <<>>
    /\ ~Waits(r)
    /\ LET item == Head(page[r])
       IN  IF item \in Stored \cup kept[r].papers
           THEN Refuse(r)
           ELSE /\ fresh' = [fresh EXCEPT ![r].papers = {item}]
                /\ byline' = [byline EXCEPT ![r] = AuthorsOf(item)]
                /\ pc' = [pc EXCEPT ![r] = "lookup"]
                /\ UNCHANGED <<page, linked, refused>>
    /\ UNCHANGED <<feed, coming, tables, source, next, last, kept, counts, promised, met, cut>>

\* _get_or_create_author: the SELECT.  A name that is known is linked to the
\* paper at once; (paper, author) is the key of that link.
LookupAuthor(r) ==
    /\ pc[r] = "lookup"
    /\ byline[r] # <<>>
    /\ LET name == Head(byline[r])
       IN  IF name \notin authors \cup Pending(r).authors
           THEN /\ pc' = [pc EXCEPT ![r] = "author"]
                /\ UNCHANGED <<page, byline, linked, fresh, refused>>
           ELSE IF name \in linked[r]
           THEN Refuse(r)
           ELSE /\ linked' = [linked EXCEPT ![r] = @ \cup {name}]
                /\ byline' = [byline EXCEPT ![r] = Tail(@)]
                /\ UNCHANGED <<pc, page, fresh, refused>>
    /\ UNCHANGED <<feed, coming, tables, source, next, last, kept, counts, promised, met, cut>>

\* _get_or_create_author: the INSERT, which fails if another run has committed
\* the name since the SELECT, or if there is no name.
InsertAuthor(r) ==
    /\ pc[r] = "author"
    /\ ~Waits(r)
    /\ LET name == Head(byline[r])
       IN  IF name \in authors \cup {Null}
           THEN Refuse(r)
           ELSE /\ fresh' = [fresh EXCEPT ![r].authors = @ \cup {name}]
                /\ linked' = [linked EXCEPT ![r] = @ \cup {name}]
                /\ byline' = [byline EXCEPT ![r] = Tail(@)]
                /\ pc' = [pc EXCEPT ![r] = "lookup"]
                /\ UNCHANGED <<page, refused>>
    /\ UNCHANGED <<feed, coming, tables, source, next, last, kept, counts, promised, met, cut>>

NoneTwice(seq) == \A i, j \in DOMAIN seq : i # j => seq[i] # seq[j]

\* Paper, label and source are the key of a category, and no label is null.
CategoriesFit(item) == NoneTwice(Filed[item]) /\ Null \notin ToSet(Filed[item])

\* Mutant: a paper is committed when it is finished.
FinishPaper_Commit(r) ==
    /\ pc[r] = "lookup"
    /\ byline[r] = <<>>
    /\ papers' = papers \cup [item: fresh[r].papers, by: {r}]
    /\ authors' = authors \cup fresh[r].authors
    /\ fresh' = [fresh EXCEPT ![r] = Nothing]
    /\ linked' = [linked EXCEPT ![r] = {}]
    /\ page' = [page EXCEPT ![r] = Tail(@)]
    /\ pc' = [pc EXCEPT ![r] = "paper"]
    /\ UNCHANGED <<feed, coming, errors, row, source, next, last, byline, kept, refused, counts,
                   promised, met, cut>>

\* The categories, as the source gives them, and the release of the savepoint.
FinishPaper(r) ==
    /\ pc[r] = "lookup"
    /\ byline[r] = <<>>
    /\ IF CategoriesFit(Head(page[r]))
       THEN /\ kept' = [kept EXCEPT ![r] = Pending(r)]
            /\ fresh' = [fresh EXCEPT ![r] = Nothing]
            /\ linked' = [linked EXCEPT ![r] = {}]
            /\ page' = [page EXCEPT ![r] = Tail(@)]
            /\ pc' = [pc EXCEPT ![r] = "paper"]
            /\ UNCHANGED <<byline, refused>>
       ELSE /\ Refuse(r)
            /\ UNCHANGED kept
    /\ UNCHANGED <<feed, coming, tables, source, next, last, counts, promised, met, cut>>

\* Errors, counters, resume_state and papers, in one commit.
CommitPage(r) ==
    /\ pc[r] = "paper"
    /\ page[r] = <<>>
    /\ Visible(r)
    /\ errors' = errors \cup [item: counts[r].invalid, by: {r}, kind: {"validation_error"}]
                        \cup [item: refused[r], by: {r}, kind: {"db_error"}]
    /\ row' = [row EXCEPT ![r] =
                 [status |-> @.status,
                  resume |-> next[r],
                  fetched |-> @.fetched + counts[r].fetched,
                  inserted |-> @.inserted + Cardinality(kept[r].papers),
                  duplicate |-> @.duplicate + counts[r].duplicate,
                  failed |-> @.failed + Cardinality(counts[r].invalid) + Cardinality(refused[r])]]
    /\ kept' = [kept EXCEPT ![r] = Nothing]
    /\ refused' = [refused EXCEPT ![r] = {}]
    /\ counts' = [counts EXCEPT ![r] = [fetched |-> 0, duplicate |-> 0, invalid |-> {}]]
    /\ pc' = [pc EXCEPT ![r] = "commit"]
    /\ UNCHANGED <<feed, coming, source, next, last, page, byline, linked, fresh,
                   promised, met, cut>>

Leave(r) ==
    /\ pc' = [pc EXCEPT ![r] = "end"]
    /\ last' = last \ {r}
    /\ page' = [page EXCEPT ![r] = <<>>] /\ byline' = [byline EXCEPT ![r] = <<>>]
    /\ linked' = [linked EXCEPT ![r] = {}]
    /\ kept' = [kept EXCEPT ![r] = Nothing] /\ fresh' = [fresh EXCEPT ![r] = Nothing]
    /\ refused' = [refused EXCEPT ![r] = {}]
    /\ counts' = [counts EXCEPT ![r] = [fetched |-> 0, duplicate |-> 0, invalid |-> {}]]
    /\ UNCHANGED <<source, next>>

Continue(r) ==
    /\ pc[r] = "commit"
    /\ r \notin last
    /\ pc' = [pc EXCEPT ![r] = "fetch"]
    /\ UNCHANGED <<feed, coming, tables, source, next, last, page, byline, linked, kept, fresh,
                   refused, counts, promised, met, cut>>

\* Exhausted, or --max-pages reached.
Stop(r) ==
    /\ pc[r] = "commit"
    /\ row' = [row EXCEPT ![r].status = IF r \in last THEN "completed" ELSE "paused"]
    /\ Leave(r)
    /\ UNCHANGED <<feed, coming, papers, authors, errors, promised, met, cut>>

\* The fetch has used up its retries, with nothing uncommitted.
FetchFails(r) ==
    /\ pc[r] = "fetch"
    /\ row' = [row EXCEPT ![r].status = "failed"]
    /\ Leave(r)
    /\ UNCHANGED <<feed, coming, papers, authors, errors, promised, met, cut>>

\* An error inside a savepoint that is no IntegrityError: the run is the one
\* PostgreSQL picks to end a cycle of waits, or the text of the paper has a
\* character it does not store, or its disk is full.  The handler's commit
\* takes along the papers of the page that were finished, without counting them.
PageError(r) ==
    /\ pc[r] \in {"paper", "lookup", "author"} /\ page[r] # <<>>
    /\ Visible(r)
    /\ row' = [row EXCEPT ![r].status = "failed"]
    /\ cut' = cut \cup {r}
    /\ Leave(r)
    /\ UNCHANGED <<feed, coming, errors, promised, met>>

\* Mutant: a process that is stopped saves where it was.
Kill_SavesState(r) ==
    /\ r \in Alive
    /\ row' = [row EXCEPT ![r].resume = next[r]]
    /\ Leave(r)
    /\ UNCHANGED <<feed, coming, papers, authors, errors, promised, met, cut>>

\* A kill, a crash, a commit that fails or a session that is lost: nothing more
\* is committed.
Kill(r) ==
    /\ r \in Alive
    /\ Leave(r)
    /\ UNCHANGED <<feed, coming, tables, promised, met, cut>>

Next ==
    \/ \E s \in Sources : Publish(s)
    \/ \E r \in Runs :
         \/ Launch(r)
         \/ Fetch(r)
         \/ InsertPaper(r)
         \/ LookupAuthor(r)
         \/ InsertAuthor(r)
         \/ FinishPaper(r)
         \/ CommitPage(r)
         \/ Continue(r)
         \/ Stop(r)
         \/ FetchFails(r)
         \/ PageError(r)
         \/ Kill(r)

Spec == Init /\ [][Next]_vars

-----------------------------------------------------------------------------

\* "an accurate, resumable record" (ingestion/pipeline.py), the accuracy: a
\* run's counter is the number of papers it has stored, whatever ended it.  Only
\* a run that an error has ended inside a page may have stored more, and then
\* fewer by one at least than a page holds.
CountersAreAccurate ==
    \A r \in Runs :
        LET uncounted == Cardinality({p \in papers : p.by = r}) - row[r].inserted
        IN  IF r \in cut THEN uncounted \in 0 .. PageSize - 1 ELSE uncounted = 0

\* And its resumability: what the run, or the one it resumes, found listed and
\* now lies before its resume_state is stored, or on record as an error.
NothingIsSkipped ==
    \A r \in Runs :
        \A i \in 1 .. Len(feed[source[r]]) :
            LET item == feed[source[r]][i]
            IN  (i <= row[r].resume /\ item \in promised[r]) =>
                    item \in Stored \cup {e.item : e \in errors}

\* The papers that the database takes from nobody: a name or a category is
\* missing, or a category comes twice.
Unfit == {i \in Items : Null \in ToSet(Byline[i]) \/ ~CategoriesFit(i)}

\* "the pipeline assumes a single writer": a run that met no other one loses
\* no valid paper that the database would take.
LossNeedsOverlap ==
    \A e \in errors : e.kind = "db_error" => e.item \in Unfit \/ met[e.by] # {}

-----------------------------------------------------------------------------
(* The invariant behind the counters *)

Shapes ==
    /\ DOMAIN row = Runs
    /\ \A r \in Runs : DOMAIN row[r] = {"status", "resume", "fetched", "inserted", "duplicate", "failed"}
    /\ DOMAIN pc = Runs
    /\ DOMAIN kept = Runs /\ DOMAIN fresh = Runs
    /\ \A r \in Runs : DOMAIN fresh[r] = {"papers", "authors"}

OwnPapers(r) == {p \in papers : p.by = r}

\* What a run has pending is finite, each paper once, and not among what it
\* has stored.
PendingIsNew(r) ==
    /\ IsFiniteSet(kept[r].papers) /\ IsFiniteSet(fresh[r].papers)
    /\ kept[r].papers \cap fresh[r].papers = {}
    /\ \A p \in OwnPapers(r) : p.item \notin kept[r].papers \cup fresh[r].papers

Counted(r) ==
    /\ IsFiniteSet(OwnPapers(r))
    /\ row[r].inserted \in Nat
    /\ IF r \in cut THEN row[r].inserted <= Cardinality(OwnPapers(r))
                     ELSE row[r].inserted = Cardinality(OwnPapers(r))

IInv ==
    /\ Shapes
    /\ \A r \in Runs : PendingIsNew(r) /\ Counted(r) /\ (r \in cut => pc[r] = "end")

-----------------------------------------------------------------------------
(* The invariant behind the two others *)

Sorts ==
    /\ feed \in [Sources -> Seq(Items)] /\ coming \in [Sources -> Seq(Items)]
    /\ source \in [Runs -> Sources]
    /\ next \in [Runs -> Nat]
    /\ DOMAIN row = Runs /\ \A r \in Runs : "resume" \in DOMAIN row[r] /\ row[r].resume \in Nat
    /\ DOMAIN pc = Runs
    /\ page \in [Runs -> Seq(Items)] /\ byline \in [Runs -> Seq(Names \cup {Null})]
    /\ DOMAIN linked = Runs /\ DOMAIN refused = Runs /\ DOMAIN counts = Runs
    /\ DOMAIN kept = Runs /\ DOMAIN fresh = Runs
    /\ \A r \in Runs : DOMAIN fresh[r] = {"papers", "authors"}
    /\ DOMAIN promised = Runs /\ DOMAIN met = Runs
    /\ \A e \in errors : e.by \in Runs

NewsIsNew ==
    \A s \in Sources : NoneTwice(coming[s]) /\ ToSet(coming[s]) \cap ToSet(feed[s]) = {}

\* Runs that are alive at once have met.
AliveHaveMet == \A q, r \in Alive : q # r => q \in met[r]

\* What a run has in hand, at each point of its page.
InHand(r) ==
    /\ pc[r] \in {"lookup", "author"} => /\ page[r] # <<>> /\ fresh[r].papers = {Head(page[r])}
                                         /\ ToSet(byline[r]) \subseteq ToSet(Byline[Head(page[r])])
    /\ pc[r] = "author" => byline[r] # <<>>
    /\ pc[r] \notin {"paper", "lookup", "author"} =>
         page[r] = <<>> /\ kept[r].papers = {} /\ refused[r] = {} /\ counts[r].invalid = {}
    /\ pc[r] \notin {"lookup", "author"} => linked[r] = {}
    /\ NoneTwice(page[r]) /\ ToSet(page[r]) \cap kept[r].papers = {}
    /\ NoneTwice(byline[r]) /\ ToSet(byline[r]) \cap linked[r] = {}
    /\ pc[r] = "off" => met[r] = {}

\* To a run that has met no other nothing fit is refused: what it looked up is so.
AloneIsSafe(r) ==
    r \in Alive /\ met[r] = {} =>
        /\ ToSet(page[r]) \cap Stored = {}
        /\ pc[r] = "author" => Head(byline[r]) \notin authors
        /\ refused[r] \subseteq Unfit

Recorded == Stored \cup {e.item : e \in errors}

Unfinished(r) == kept[r].papers \cup refused[r] \cup counts[r].invalid \cup ToSet(page[r])

\* What was promised and lies before a place of the source.
Passed(r, n) == {feed[source[r]][i] : i \in {j \in DOMAIN feed[source[r]] : j <= n}} \cap promised[r]

NothingIsLeft(r) ==
    /\ promised[r] \subseteq ToSet(feed[source[r]])
    /\ Passed(r, row[r].resume) \subseteq Recorded
    /\ r \in Alive => Passed(r, next[r]) \subseteq Recorded \cup Unfinished(r)

ProgressInv ==
    /\ Sorts /\ NewsIsNew /\ AliveHaveMet /\ LossNeedsOverlap
    /\ \A r \in Runs : InHand(r) /\ AloneIsSafe(r) /\ NothingIsLeft(r)

\* What a run keeps and has still to insert fits in a page; what an error has
\* left uncounted was less than that.
HandFits(r) ==
    LET hand == kept[r].papers \cup ToSet(page[r])
    IN  IsFiniteSet(hand) /\ Cardinality(hand) <= PageSize

UncountedFits(r) == r \in cut => Cardinality(OwnPapers(r)) < row[r].inserted + PageSize

PagesFit == \A r \in Runs : HandFits(r) /\ UncountedFits(r)
===============================================================================
