------------------------------ MODULE TextLayers ------------------------------
(***************************************************************************)
(* The layers the corpus derives from its papers: full texts, the embedded *)
(* paragraphs ("chunks") cut from them, and one vector per paper.          *)
(*                                                                         *)
(* Each layer has a batch of its own, a process that selects what lacks    *)
(* the layer and adds it paper by paper (vectors: batch by batch), with    *)
(* one commit each.  The admin panel and the command line start them at    *)
(* will, so batches of one kind may overlap.  Objects stay as they were    *)
(* loaded after a commit (expire_on_commit=False): a chunking run cuts the *)
(* text it loaded when it selected.  Ingestion adds papers all the while;  *)
(* a run works on the ones that were there when it selected.               *)
(*                                                                         *)
(* There is one embedding model.  What a PDF, the CORE API or the model    *)
(* answers is chosen freely.                                               *)
(***************************************************************************)
EXTENDS Integers, FiniteSets, FiniteSetsExt

CONSTANTS
    Runs,       \* processes, of any kind
    Papers,     \* the ones that may ever be ingested
    Early,      \* the ones that are before any run
    OpenAccess, \* the papers whose full text may be fetched
    Core,       \* the papers whose full text comes from the CORE API
    Linked,     \* the papers of other sources that have a fetchable URL
    HasCoreKey,
    Untitled,   \* the papers without a title and an abstract
    Texts,
    Batches,    \* how many batches of paragraphs a text is cut into
    BatchSize,  \* papers in a batch of vectors
    Limits,     \* what --limit may be; as many as there are papers is none
    None

Errors == {"fetch_error", "parse_error", "persist_error"}

ASSUME PapersAssumption ==
    /\ IsFiniteSet(Papers)
    /\ Early \subseteq Papers /\ OpenAccess \subseteq Papers /\ Core \subseteq Papers
    /\ Linked \subseteq Papers \ Core /\ Untitled \subseteq Papers
ASSUME TextsAssumption == Batches \in [Texts -> Nat]
ASSUME NoneAssumption == None \notin Texts \cup Runs \cup Errors
ASSUME BoundsAssumption == BatchSize \in Nat \ {0} /\ Limits \subseteq Nat /\ HasCoreKey \in BOOLEAN

VARIABLES
    corpus,  \* the papers in the table
    text,    \* paper_fulltext: the text of each paper
    chunks,  \* paper_fulltext_chunk, a record for each batch of paragraphs
    vector,  \* embeddings: which run wrote the vector of each paper
    errors,  \* fulltext_fetch_errors
    row,     \* fulltext_fetch_runs and embedding_runs; chunking has no such row
    pc,      \* of each process; "end" returned or raised, "killed" did neither
    arg,     \* what it was started with
    todo,    \* the papers selected and not taken up, with the text loaded
    batch,   \* the ones it is at
    run,     \* the row as its session has it
    found,   \* the text its lookup found
    hold,    \* uncommitted: a text, an error, how many batches of paragraphs
    met,     \* history: the runs alive together
    sight    \* history: the papers in the table when a run alive selected

tables == <<text, chunks, vector, errors, row>>
work == <<arg, todo, batch, run, found, hold>>
vars == <<corpus, tables, pc, work, met, sight>>

Kinds == {"fetch", "chunk", "embed"}
Rows == [status: {"none", "running", "completed", "failed"},
         seen: Nat, done: Nat, skipped: Nat, failed: Nat]
NoRow == [status |-> "none", seen |-> 0, done |-> 0, skipped |-> 0, failed |-> 0]
Loaded == [paper: Papers, text: Texts \cup {None}]
Nothing == [text |-> None, error |-> None, parts |-> 0]

TypeOK ==
    /\ corpus \subseteq Papers /\ sight \in [Runs -> SUBSET Papers]
    /\ text \in [Papers -> Texts \cup {None}]
    /\ chunks \subseteq [paper: Papers, text: Texts, part: Nat, by: Runs]
    /\ vector \in [Papers -> Runs \cup {None}]
    /\ errors \subseteq [by: Runs, paper: Papers, kind: Errors]
    /\ row \in [Runs -> Rows] /\ run \in [Runs -> Rows]
    /\ pc \in [Runs -> {"off", "open", "select", "next", "store", "save",
                        "cut", "vectors", "end", "killed"}]
    /\ arg \in [Runs -> [kind: Kinds, force: BOOLEAN, limit: Nat]]
    /\ todo \in [Runs -> SUBSET Loaded] /\ batch \in [Runs -> SUBSET Loaded]
    /\ found \in [Runs -> Texts \cup {None}]
    /\ hold \in [Runs -> [text: Texts \cup {None}, error: Errors \cup {None}, parts: Nat]]
    /\ met \in [Runs -> SUBSET Runs]

Is(r, kind) == arg[r].kind = kind
PapersOf(S) == {x.paper : x \in S}
Alive == {r \in Runs : pc[r] \notin {"off", "end", "killed"}}
Unlimited(r) == arg[r].limit >= Cardinality(Papers)

Init ==
    /\ corpus = Early /\ sight = [r \in Runs |-> {}]
    /\ text = [p \in Papers |-> None]
    /\ chunks = {} /\ errors = {}
    /\ vector = [p \in Papers |-> None]
    /\ row = [r \in Runs |-> NoRow] /\ run = [r \in Runs |-> NoRow]
    /\ pc = [r \in Runs |-> "off"]
    /\ arg = [r \in Runs |-> [kind |-> "fetch", force |-> FALSE, limit |-> 0]]
    /\ todo = [r \in Runs |-> {}] /\ batch = [r \in Runs |-> {}]
    /\ found = [r \in Runs |-> None] /\ hold = [r \in Runs |-> Nothing]
    /\ met = [r \in Runs |-> {}]

\* Ingestion inserts a paper.  Nothing removes one.
Ingest ==
    /\ \E p \in Papers \ corpus : corpus' = corpus \cup {p}
    /\ UNCHANGED <<tables, pc, work, met, sight>>

\* A process starts, and counts from its first transaction.  --force makes
\* that a deletion of the layer, except for full texts, which a forced fetch
\* replaces one by one.
Starts(r, kind, force, where) ==
    /\ pc[r] = "off"
    /\ \E limit \in Limits :
          arg' = [arg EXCEPT ![r] = [kind |-> kind, force |-> force, limit |-> limit]]
    /\ pc' = [pc EXCEPT ![r] = where]
    /\ met' = [q \in Runs |-> IF q = r THEN Alive
                              ELSE IF q \in Alive THEN met[q] \cup {r} ELSE met[q]]
    /\ UNCHANGED <<text, errors, todo, batch, found, hold>>

\* The row of a run, as the process inserts it.
Opens(r) ==
    /\ row' = [row EXCEPT ![r].status = "running"]
    /\ run' = [run EXCEPT ![r] = row'[r]]

BeginFetch(r, force) ==
    /\ Starts(r, "fetch", force, "select")
    /\ Opens(r)
    /\ UNCHANGED <<chunks, vector>>

\* Mutant: --force only marks the run.
BeginChunk_KeepsChunks(r, force) ==
    /\ Starts(r, "chunk", force, "select")
    /\ UNCHANGED <<chunks, vector, row, run>>

BeginChunk(r, force) ==
    /\ Starts(r, "chunk", force, "select")
    /\ chunks' = IF force THEN {} ELSE chunks
    /\ UNCHANGED <<vector, row, run>>

BeginEmbed(r) ==
    /\ Starts(r, "embed", FALSE, "select")
    /\ Opens(r)
    /\ UNCHANGED <<chunks, vector>>

\* The deletion is a transaction of its own; the row follows.
Reset(r) ==
    /\ Starts(r, "embed", TRUE, "open")
    /\ vector' = [p \in Papers |-> None]
    /\ UNCHANGED <<chunks, row, run>>

OpenAfterReset(r) ==
    /\ pc[r] = "open"
    /\ Opens(r)
    /\ pc' = [pc EXCEPT ![r] = "select"]
    /\ UNCHANGED <<text, chunks, vector, errors, arg, todo, batch, found, hold, met>>

\* The session is closed, and the process with it: what is not committed is gone.
Ends(r, how) ==
    /\ pc' = [pc EXCEPT ![r] = how]
    /\ todo' = [todo EXCEPT ![r] = {}] /\ batch' = [batch EXCEPT ![r] = {}]
    /\ run' = [run EXCEPT ![r] = NoRow]
    /\ found' = [found EXCEPT ![r] = None] /\ hold' = [hold EXCEPT ![r] = Nothing]
    /\ UNCHANGED <<arg, met>>

Kill(r) ==
    /\ r \in Alive
    /\ Ends(r, "killed")
    /\ UNCHANGED tables

\* What a selection returns: papers, and the texts a chunking run loads.
Plain(S) == {[paper |-> p, text |-> None] : p \in S}
WithText(S) == {[paper |-> p, text |-> text[p]] : p \in S}

\* Mutant: a fetch takes up the papers that have their text already.
Unfetched_All(r) == Plain(OpenAccess \cap corpus)

Unfetched(r) == Plain({p \in OpenAccess \cap corpus : arg[r].force \/ text[p] = None})

Unchunked(r) == WithText({p \in corpus : text[p] # None} \ PapersOf(chunks))

Unembedded(r) == Plain({p \in corpus : vector[p] = None})

Lacking(r) ==
    CASE Is(r, "fetch") -> Unfetched(r)
      [] Is(r, "chunk") -> Unchunked(r)
      [] Is(r, "embed") -> Unembedded(r)

\* The query has no order, so that a limit may keep any of them.
Select(r) ==
    /\ pc[r] = "select"
    /\ \E S \in SUBSET Lacking(r) :
        /\ Cardinality(S) = Min({arg[r].limit, Cardinality(Lacking(r))})
        /\ todo' = [todo EXCEPT ![r] = S]
    /\ pc' = [pc EXCEPT ![r] = "next"]
    /\ sight' = [sight EXCEPT ![r] = corpus]
    /\ UNCHANGED <<tables, arg, batch, run, found, hold, met>>

\* A run that has taken up all it selected.
Finish(r) ==
    /\ pc[r] = "next" /\ todo[r] = {}
    /\ Ends(r, "end")
    /\ row' = IF Is(r, "chunk") THEN row
              ELSE [row EXCEPT ![r] = [run[r] EXCEPT !.status = "completed"]]
    /\ UNCHANGED <<text, chunks, vector, errors>>

-----------------------------------------------------------------------------
(* Full texts: one paper, one commit.                                      *)

\* Takes up a paper; the counters of the row change in the session only.
TakeUp(r, x, counter, kept) ==
    /\ pc[r] = "next" /\ Is(r, "fetch")
    /\ x \in todo[r]
    /\ todo' = [todo EXCEPT ![r] = @ \ {x}]
    /\ batch' = [batch EXCEPT ![r] = {x}]
    /\ run' = [run EXCEPT ![r] = counter]
    /\ hold' = [hold EXCEPT ![r] = kept]
    /\ UNCHANGED <<tables, arg, met>>

\* A source that has a text to ask for; CORE may still have none to give.
Asks(p) == IF p \in Core THEN HasCoreKey ELSE p \in Linked
MayHaveNone(p) == p \in Core \/ p \notin Linked

Skip(r) ==
    \E x \in todo[r] :
        /\ MayHaveNone(x.paper)
        /\ TakeUp(r, x, [run[r] EXCEPT !.skipped = @ + 1], Nothing)
        /\ pc' = [pc EXCEPT ![r] = "save"]
        /\ UNCHANGED found

\* The request fails, or the PDF cannot be parsed.
FetchFails(r) ==
    \E x \in todo[r], error \in {"fetch_error", "parse_error"} :
        /\ Asks(x.paper)
        /\ error = "parse_error" => x.paper \notin Core
        /\ TakeUp(r, x, [run[r] EXCEPT !.failed = @ + 1], [Nothing EXCEPT !.error = error])
        /\ pc' = [pc EXCEPT ![r] = "save"]
        /\ UNCHANGED found

\* A text arrives, and the row the paper may have already is looked up.
Fetched(r) ==
    \E x \in todo[r], t \in Texts :
        /\ Asks(x.paper)
        /\ TakeUp(r, x, run[r], [Nothing EXCEPT !.text = t])
        /\ found' = [found EXCEPT ![r] = text[x.paper]]
        /\ pc' = [pc EXCEPT ![r] = "store"]

\* Another transaction has written the row this one writes, and not committed.
RowIsHeld(r) ==
    /\ hold[r].text # found[r]
    /\ \E q \in Runs \ {r} :
        /\ pc[q] = "save" /\ hold[q].text # None
        /\ PapersOf(batch[q]) = PapersOf(batch[r])

\* The flush inserts or updates the row.  An update sends what has changed
\* since the lookup, so that the same text writes nothing.
Store(r) ==
    /\ pc[r] = "store" /\ ~ RowIsHeld(r)
    /\ found[r] = None => \A p \in PapersOf(batch[r]) : text[p] = None
    /\ hold' = [hold EXCEPT ![r].text = IF @ = found[r] THEN None ELSE @]
    /\ run' = [run EXCEPT ![r].done = @ + 1]
    /\ pc' = [pc EXCEPT ![r] = "save"]
    /\ UNCHANGED <<tables, arg, todo, batch, found, met>>

\* Mutant: the failure is counted before the rollback, which forgets it.
Refused_CountedFirst(r) ==
    /\ pc[r] = "store" /\ ~ RowIsHeld(r)
    /\ hold' = [hold EXCEPT ![r] = [Nothing EXCEPT !.error = "persist_error"]]
    /\ run' = [run EXCEPT ![r] = row[r]]
    /\ pc' = [pc EXCEPT ![r] = "save"]
    /\ UNCHANGED <<tables, arg, todo, batch, found, met>>

\* The flush fails, because a run overlapping it inserted the row first or because
\* of the data.  The rollback takes the counters back to what is committed.
Refused(r) ==
    /\ pc[r] = "store" /\ ~ RowIsHeld(r)
    /\ hold' = [hold EXCEPT ![r] = [Nothing EXCEPT !.error = "persist_error"]]
    /\ run' = [run EXCEPT ![r] = [row[r] EXCEPT !.failed = @ + 1]]
    /\ pc' = [pc EXCEPT ![r] = "save"]
    /\ UNCHANGED <<tables, arg, todo, batch, found, met>>

\* The error row added for the paper, if any.
Logged(r) ==
    {[by |-> r, paper |-> p, kind |-> hold[r].error] :
        p \in {q \in PapersOf(batch[r]) : hold[r].error # None}}

\* The paper has been seen: everything it changed is committed together.
Save(r) ==
    /\ pc[r] = "save"
    /\ run' = [run EXCEPT ![r].seen = @ + 1]
    /\ row' = [row EXCEPT ![r] = run'[r]]
    /\ text' = [p \in Papers |-> IF p \in PapersOf(batch[r]) /\ hold[r].text # None
                                 THEN hold[r].text ELSE text[p]]
    /\ errors' = errors \cup Logged(r)
    /\ batch' = [batch EXCEPT ![r] = {}]
    /\ found' = [found EXCEPT ![r] = None] /\ hold' = [hold EXCEPT ![r] = Nothing]
    /\ pc' = [pc EXCEPT ![r] = "next"]
    /\ UNCHANGED <<chunks, vector, arg, todo, met>>

\* The database refuses the selection or a commit: the handler rolls back and
\* records the run as failed.
RollsBack(r) ==
    /\ Is(r, "fetch") /\ pc[r] \in {"select", "next", "save"}
    /\ row' = [row EXCEPT ![r].status = "failed"]
    /\ Ends(r, "end")
    /\ UNCHANGED <<text, chunks, vector, errors>>

-----------------------------------------------------------------------------
(* Chunks: the batches of one text, one commit.                            *)

TakeText(r) ==
    /\ pc[r] = "next" /\ Is(r, "chunk")
    /\ \E x \in todo[r] :
        /\ todo' = [todo EXCEPT ![r] = @ \ {x}]
        /\ batch' = [batch EXCEPT ![r] = {x}]
    /\ pc' = [pc EXCEPT ![r] = "cut"]
    /\ UNCHANGED <<tables, arg, run, found, hold, met>>

\* The rows of the first n batches of paragraphs of the text it is at.
Cut(r, n) ==
    UNION {{[paper |-> x.paper, text |-> x.text, part |-> i, by |-> r] : i \in 1..n} :
              x \in batch[r]}

Remaining(r) == \E x \in batch[r] : hold[r].parts < Batches[x.text]

\* Mutant: every batch of paragraphs is committed on its own.
AddPart_Commits(r) ==
    /\ pc[r] = "cut" /\ Remaining(r)
    /\ hold' = [hold EXCEPT ![r].parts = @ + 1]
    /\ chunks' = chunks \cup Cut(r, hold'[r].parts)
    /\ UNCHANGED <<text, vector, errors, row, pc, arg, todo, batch, run, found, met>>

AddPart(r) ==
    /\ pc[r] = "cut" /\ Remaining(r)
    /\ hold' = [hold EXCEPT ![r].parts = @ + 1]
    /\ UNCHANGED <<tables, pc, arg, todo, batch, run, found, met>>

\* The model raises, or the database refuses: no handler, and the session is
\* closed on what it holds.
CutFails(r) ==
    /\ Is(r, "chunk") /\ pc[r] \in {"select", "cut"}
    /\ Ends(r, "end")
    /\ UNCHANGED tables

SaveChunks(r) ==
    /\ pc[r] = "cut" /\ ~ Remaining(r)
    /\ chunks' = chunks \cup Cut(r, hold[r].parts)
    /\ batch' = [batch EXCEPT ![r] = {}] /\ hold' = [hold EXCEPT ![r] = Nothing]
    /\ pc' = [pc EXCEPT ![r] = "next"]
    /\ UNCHANGED <<text, vector, errors, row, arg, todo, run, found, met>>

-----------------------------------------------------------------------------
(* Vectors: a batch of papers, one commit.                                 *)

TakeBatch(r) ==
    /\ pc[r] = "next" /\ Is(r, "embed") /\ todo[r] # {}
    /\ \E S \in SUBSET todo[r] :
        /\ Cardinality(S) = Min({BatchSize, Cardinality(todo[r])})
        /\ todo' = [todo EXCEPT ![r] = @ \ S]
        /\ batch' = [batch EXCEPT ![r] = S]
        /\ run' = [run EXCEPT ![r].skipped = @ + Cardinality(PapersOf(S) \cap Untitled)]
    /\ pc' = [pc EXCEPT ![r] = "vectors"]
    /\ UNCHANGED <<tables, arg, found, hold, met>>

Embeddable(r) == PapersOf(batch[r]) \ Untitled

\* The model raises: the handler commits the failure.
VectorsFail(r) ==
    /\ pc[r] = "vectors" /\ Embeddable(r) # {}
    /\ row' = [row EXCEPT ![r] = [run[r] EXCEPT !.status = "failed"]]
    /\ Ends(r, "end")
    /\ UNCHANGED <<text, chunks, vector, errors>>

SaveVectors(r) ==
    /\ pc[r] = "vectors"
    /\ \A p \in Embeddable(r) : vector[p] = None
    /\ vector' = [p \in Papers |-> IF p \in Embeddable(r) THEN r ELSE vector[p]]
    /\ run' = [run EXCEPT ![r].done = @ + Cardinality(Embeddable(r))]
    /\ row' = [row EXCEPT ![r] = run'[r]]
    /\ batch' = [batch EXCEPT ![r] = {}]
    /\ pc' = [pc EXCEPT ![r] = "next"]
    /\ UNCHANGED <<text, chunks, errors, arg, todo, found, hold, met>>

\* Mutant: the batch that fails is dropped, and the run goes on.
HandlerFails_CarriesOn(r) ==
    /\ Is(r, "embed") /\ pc[r] = "vectors"
    /\ batch' = [batch EXCEPT ![r] = {}]
    /\ pc' = [pc EXCEPT ![r] = "next"]
    /\ UNCHANGED <<tables, arg, todo, run, found, hold, met>>

\* The database refuses the selection or a commit, because a paper of the batch
\* has its vector by now or for any other reason.  The handler does not roll
\* back, so that its own commit fails too: the row stays as it is committed.
HandlerFails(r) ==
    /\ Is(r, "embed") /\ pc[r] \in {"select", "next", "vectors"}
    /\ Ends(r, "end")
    /\ UNCHANGED tables

-----------------------------------------------------------------------------

\* What a run does, but select.
Step(r) ==
    \/ \E force \in BOOLEAN : BeginFetch(r, force) \/ BeginChunk(r, force)
    \/ BeginEmbed(r) \/ Reset(r) \/ OpenAfterReset(r)
    \/ Finish(r) \/ Kill(r)
    \/ Skip(r) \/ FetchFails(r) \/ Fetched(r) \/ Store(r) \/ Refused(r)
    \/ Save(r) \/ RollsBack(r)
    \/ TakeText(r) \/ AddPart(r) \/ CutFails(r) \/ SaveChunks(r)
    \/ TakeBatch(r) \/ VectorsFail(r) \/ SaveVectors(r) \/ HandlerFails(r)

Next ==
    \/ Ingest
    \/ \E r \in Runs : Select(r) /\ UNCHANGED corpus
    \/ \E r \in Runs :
          /\ Step(r)
          /\ sight' = [q \in Runs |-> IF q \in Alive' THEN sight[q] ELSE {}]
          /\ UNCHANGED corpus

Spec == Init /\ [][Next]_vars

-----------------------------------------------------------------------------

\* What a fetch has committed adds up, paper for paper: each one it has seen
\* was fetched, skipped or failed, and each failure has its error row.  The
\* counters live in an object that a failed flush rolls back.
CountsAddUp ==
    \A r \in Runs : Is(r, "fetch") =>
        /\ row[r].seen = row[r].done + row[r].skipped + row[r].failed
        /\ row[r].failed = Cardinality({e \in errors : e.by = r})

\* A text is cut whole or not at all, whatever fails on the way: a paper that
\* has one chunk is never selected again.
ChunksAreWhole ==
    \A c \in chunks : \A i \in 1..Batches[c.text] : [c EXCEPT !.part = i] \in chunks

\* The chunks of a paper come twice only from two runs that were alive
\* together: nothing in the schema makes a chunk unique.
TwiceCutNeedsOverlap ==
    \A c, d \in chunks : c.paper = d.paper /\ c.by # d.by => c.by \in met[d.by]

\* Without a forced fetch, and without two fetches or a fetch and a chunking
\* run side by side, the chunks are those of the paper's text.
StaleNeedsRefetch ==
    \A c \in chunks :
        \/ c.text = text[c.paper]
        \/ \E f \in Runs : Is(f, "fetch") /\ row[f].status # "none" /\ arg[f].force
        \/ \E f \in Runs : Is(f, "fetch") /\ \E g \in met[f] : Is(g, "fetch")

\* The chunks a paper has, and those its text gives.
PartsOf(p) == {[part |-> c.part, text |-> c.text] : c \in {d \in chunks : d.paper = p}}
AllParts(p) == {[part |-> i, text |-> text[p]] : i \in 1..Batches[text[p]]}

\* Chunking everything again with --force, which the code gives as the remedy
\* after a forced fetch, leaves exactly the chunks of every text, provided
\* that no other run is alive with it.
RebuildIsExact ==
    [][\A r \in Runs :
          /\ pc[r] = "next" /\ pc'[r] = "end" /\ Is(r, "chunk")
          /\ arg[r].force /\ Unlimited(r) /\ met[r] = {}
          => /\ \A p \in Papers : text[p] # None => PartsOf(p) = AllParts(p)
             /\ \A c \in chunks : c.by = r]_vars

\* As long as no run starts the vectors over, the count of a run is the
\* number of vectors it wrote.
VectorsAreCounted ==
    \A r \in Runs : Is(r, "embed") =>
        \/ row[r].done = Cardinality({p \in Papers : vector[p] = r})
        \/ \E q \in Runs : Is(q, "embed") /\ arg[q].force

\* A run without a limit that is recorded as completed leaves no titled paper
\* that was there when it selected without a vector, unless a run beside it
\* started over.  Papers ingested since are for the next run.
CompletionMeansCovered ==
    [][\A r \in Runs :
          /\ Is(r, "embed") /\ Unlimited(r)
          /\ row[r].status = "running" /\ row'[r].status = "completed"
          /\ \A q \in met[r] : ~ (Is(q, "embed") /\ arg[q].force)
          => \A p \in sight[r] \ Untitled : vector'[p] # None]_vars

-----------------------------------------------------------------------------
(* What is inductive.                                                      *)

InHand(r) == todo[r] \cup batch[r]

\* Where a run is goes with its kind, and with whether it has a row.
KindsFit ==
    \A r \in Runs :
        /\ pc[r] = "cut" => Is(r, "chunk")
        /\ pc[r] \in {"store", "save"} => Is(r, "fetch")
        /\ pc[r] \in {"open", "vectors"} => Is(r, "embed")
        /\ pc[r] = "off" => /\ row[r] = NoRow /\ run[r] = NoRow /\ met[r] = {}
                            /\ Is(r, "fetch") /\ ~ arg[r].force
        /\ Is(r, "chunk") => row[r].status = "none"
        /\ Is(r, "fetch") /\ pc[r] # "off" => row[r].status # "none"
        /\ run[r].status \in {"none", row[r].status}
        /\ r \in Alive /\ ~ Is(r, "chunk") /\ pc[r] # "open" => run[r].status = "running"

MeetingIsMutual ==
    /\ \A q, r \in Runs : q \in met[r] => r \in met[q] /\ q # r /\ pc[q] # "off"
    /\ \A q, r \in Alive : q # r => q \in met[r]

\* A paper is in hand once, and nothing is before the selection and after the end.
WorkIsApart ==
    \A r \in Runs :
        /\ \A x, y \in InHand(r) : x.paper = y.paper => x = y
        /\ todo[r] \cap batch[r] = {}
        /\ pc[r] \notin {"next", "store", "save", "cut", "vectors"} => todo[r] = {}
        /\ pc[r] \notin {"store", "save", "cut", "vectors"} => batch[r] = {}
        /\ pc[r] \in {"store", "save", "cut"} => \E x \in Loaded : batch[r] = {x}
        /\ pc[r] \notin {"store", "save"} => hold[r].text = None
        /\ pc[r] # "save" => hold[r].error = None

\* Why a chunk may be of another text than the paper's.
Excused ==
    \/ \E f \in Runs : Is(f, "fetch") /\ row[f].status # "none" /\ arg[f].force
    \/ \E f \in Runs : Is(f, "fetch") /\ \E g \in met[f] : Is(g, "fetch")

\* Whatever appeared since the selection came from a run met.
Met(r, kind) == {g \in met[r] : Is(g, kind)}

ChunkWorkIsFresh ==
    \A r \in Runs : Is(r, "chunk") =>
        \A x \in InHand(r) :
            /\ x.text # None
            /\ x.text = text[x.paper] \/ Excused
            /\ \A c \in chunks : c.paper = x.paper => c.by \in met[r]

FetchWorkIsFresh ==
    \A r \in Runs : Is(r, "fetch") /\ ~ arg[r].force =>
        \A x \in InHand(r) :
            text[x.paper] # None => Met(r, "fetch") # {}

VectorWorkIsFresh ==
    \A r \in Runs : Is(r, "embed") =>
        \A x \in InHand(r) :
            vector[x.paper] # None => vector[x.paper] \in Met(r, "embed")

\* The counters in a session, between two commits.
Seen(c) == c.done + c.skipped + c.failed
CountersFollow ==
    \A r \in Runs :
        /\ pc[r] \in {"select", "next", "store"} /\ Is(r, "fetch") => run[r] = row[r]
        /\ pc[r] = "select" /\ Is(r, "fetch") => row[r].failed = 0
        /\ pc[r] = "save" =>
             /\ run[r].seen = row[r].seen
             /\ Seen(run[r]) = Seen(row[r]) + 1
             /\ run[r].failed = row[r].failed + (IF hold[r].error = None THEN 0 ELSE 1)
        /\ Is(r, "embed") /\ r \in Alive => run[r].done = row[r].done

\* Only what is in the table has a text, and is in hand.
CorpusHolds ==
    /\ \A p \in Papers : text[p] # None => p \in corpus
    /\ \A r \in Runs : PapersOf(InHand(r)) \subseteq corpus

\* A paper in hand has no error of the run.
ErrorsAreSeen ==
    /\ IsFiniteSet(errors)
    /\ \A r \in Runs : Is(r, "fetch") =>
          \A e \in errors : e.by = r => e.paper \notin PapersOf(InHand(r))

\* Who wrote a vector is a run of vectors.
VectorsHaveAuthors ==
    \A p \in Papers : vector[p] # None => Is(vector[p], "embed")

\* What a run that took all there was has left to do.
Covers ==
    \A r \in Runs :
        /\ Is(r, "embed") /\ Unlimited(r) /\ pc[r] \in {"next", "vectors"}
        /\ \A q \in met[r] : ~ (Is(q, "embed") /\ arg[q].force)
        => \A p \in sight[r] \ Untitled : vector[p] # None \/ p \in PapersOf(InHand(r))

\* A text is not cut beyond its end.
PartsFit ==
    \A r \in Runs :
        /\ pc[r] # "cut" => hold[r].parts = 0
        /\ pc[r] = "cut" => \A x \in batch[r] : hold[r].parts <= Batches[x.text]

\* The same of one that chunks everything again, with no other beside it.
Rebuilds ==
    \A r \in Alive : Is(r, "chunk") /\ arg[r].force /\ met[r] = {} =>
        /\ pc[r] = "select" => chunks = {}
        /\ \A c \in chunks : c.by = r
        /\ \A x \in InHand(r) : x.text = text[x.paper]
        /\ Unlimited(r) /\ pc[r] \in {"next", "cut"} =>
             \A p \in Papers : text[p] # None =>
                 p \in PapersOf(InHand(r)) \/ PartsOf(p) = AllParts(p)

IInv ==
    /\ TypeOK /\ KindsFit /\ MeetingIsMutual /\ WorkIsApart
    /\ ChunkWorkIsFresh /\ FetchWorkIsFresh /\ VectorWorkIsFresh /\ CountersFollow
    /\ CorpusHolds /\ ErrorsAreSeen /\ VectorsHaveAuthors /\ Covers /\ PartsFit /\ Rebuilds
    /\ CountsAddUp /\ ChunksAreWhole /\ TwiceCutNeedsOverlap /\ StaleNeedsRefetch
    /\ VectorsAreCounted
=============================================================================
