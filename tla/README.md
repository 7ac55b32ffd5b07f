# ResearchBridge in TLA+

A model-checked and partly proved description of ResearchBridge: what its
pipelines, its admin panel and its reviewers do to one shared PostgreSQL
database, in which order, and what survives when they overlap, fail or are
killed. `PROJECT.json` maps every definition to the lines of `src/` it models.
Paths below are relative to `src/src/researchbridge/` unless they start with
`src/`.

## The system

ResearchBridge collects papers, extracts claims with quoted evidence from
them, looks for gaps across papers, and assesses research ideas against the
corpus. It consists of

* **batch pipelines**, one operating system process per run: ingestion,
  full text fetch, chunking, embedding, extraction, gap detection, citations,
  retrieval evaluation. Most record themselves as one row of a `*_runs` table;
* **one API server** (FastAPI, synchronous handlers in a thread pool) with an
  admin panel that starts, watches and stops those pipelines, and with routes
  to review what they found and to build assessments, projects and saved
  questions;
* **one PostgreSQL database**, through which all of them interact. There is no
  queue, no lock service and no scheduler: unique keys, foreign keys, row locks
  and the rows of the `*_runs` tables are the only coordination.

### Inventory

| component | state | operations | what is hard | what makes it correct |
|---|---|---|---|---|
| pipeline control (`api/pipeline_triggers.py`, `api/admin_routes.py`) | `_RUNNING`: key to `Popen`; `status`, `pid` of run rows; processes and pids | trigger, stop, status poll with reconciliation, shell starts, exits, server restart | checks and acts in separate steps on several threads; pid reuse; zombies; the registry lost at a restart | no duplicate of a visible run; no live run declared dead; a stop kills what it says; stale rows heal |
| review mirror (`api/gaps_routes.py`, `api/assessment_routes.py`, `gaps/claims.py`, `assessment/claims.py`) | review status of a source and of the claims derived from it | save, review, delete | two layers written by overlapping transactions | source and claims agree |
| extraction runs (`extraction/pipeline.py`) | evidence, claims, errors, run row | reset, select, process, commit a paper, fail, kill | a reset of six tables among other writers; partial failure; two runs over one corpus | a claim has its evidence; papers whole; a forced run starts over; what a build links all or nothing |
| extractors and gates (`extraction/{heuristic,semantic,hybrid,validation}.py`) | none | choose sentences, judge their type | nine fields compete for the sentences of several texts; clauses are judged one by one | the semantic extractor files a sentence once, the fallback none that a cue phrase has; every clause gets its chance |
| ingestion (`ingestion/pipeline.py`) | papers, authors, errors, run row with counters and resume state | fetch a page, validate, deduplicate, insert under savepoints, commit, pause, resume | waits and deadlocks on unique keys; a crash between pages; a source that shifts under its offset | counters match rows; nothing before the resume state is lost |
| connectors (`connectors/`, `citations/fetch.py`) | time of the last request, place in a listing | fetch with retry and throttle, resume | retries against a throttle; ends of listings; records that raise | every item once; requests apart |
| embedding (`embedding/pipeline.py`) | one vector per paper and model | reset, select, embed a batch, commit | two runs meet the unique key; a handler that commits an aborted session | no paper twice, none passed over by a run that completes |
| full text and chunks (`fulltext/`) | one text per paper, chunks per model | fetch, parse, persist, refetch, chunk | a rollback that takes counters with it; chunks of a text loaded long ago | counters add up; texts are cut whole and once |
| gap detection (`gaps/`) | candidate gaps with evidence and claims | read, cluster, judge, save; batch over seeds | two reads with a reset between; merges that chain; per seed isolation | groups hold together; what is saved is open; rows tell what is stored |
| citations (`citations/`) | edges between papers | fetch, resolve, persist | two runs on one edge: waits and deadlocks | an edge once, counts exact |
| assessment build (`assessment/`) | one report with links and claims | twelve stages that read the corpus at several times, three of which ask a local model | a corpus that changes meanwhile; a guard that must take back what was built | no finding outside the corpus; a verdict its sections bear out |
| assessment threads (`api/assessment_routes.py`, `api/project_routes.py`) | inputs, reports, links, projects, memberships | create, rerun, refresh, synthesize, delete, list | minutes between read and write; deletion against rerun | a thread grows, or goes as a whole; links follow opportunities |
| questions (`api/qa_routes.py`, `qa/`) | collections, saved answers, summaries | ask, save, summarize, delete | a summary of a row read minutes ago | citations fit the summary |
| benchmark (`benchmark/`) | one YAML file per annotated paper; repaired markdown | edit; repair | a file emptied before it is written; passes that undo one another | edits are lost only to overlap or a stop; text renders |
| repair scripts (`src/scripts/`) | rows of other components | read, back up, change | identity by text that other scripts change; a cleaning that takes one layer of escapes at a time | once all is clean, a quote reads as its paper; nothing recovered twice |
| search, retrieval baselines, calibration, export, frontend | none | reads | — | — |

The hazards this code is exposed to, each at its line and with the property
that would catch it, are listed in `PROJECT.json`; one of them
(`fulltext/pipeline.py:176`, papers that a limited run may never reach) has no
property, since the query names no order and what starves is a matter of the
plan the database chooses.

How the parts meet: a subprocess and the panel through the `*_runs` tables and
pids (`PipelineControl`); everything else through the rows of papers, texts,
evidence, claims, gaps and reports. Each module therefore models one set of
rows with the writers its properties depend on: `Extraction` has whoever
links, reviews or deletes evidence, claims and links beside a run;
`AssessmentBuild`, `AssessmentThreads`, `CorpusBatches`, `GapDetection`,
`SavedQuestions` and `CorpusRepairs` have the forced extraction that deletes what
they have read. Writers whose effect on a row does not bear on a module's
properties are left to the module that is about them: the texts and types a
script changes to `CorpusRepairs`, the verdicts to `ReviewMirror`.

## Modules

| module | models |
|---|---|
| `PipelineControl`, `RunLedger` | trigger, stop, poll, restart, process life cycle; and, abstractly, what the `*_runs` tables promise about a run |
| `ReviewMirror` | reviews as transactions |
| `Extraction` | runs, reset, evidence, and who links, reviews or deletes it and its claims |
| `Ingestion` | runs, pages, savepoints, waits, errors, resume |
| `TextLayers` | full text, chunking and embedding runs over one corpus |
| `CorpusBatches` | gap detection and citation runs, paper by paper |
| `AssessmentBuild` | the stages of one report over a corpus that changes |
| `AssessmentThreads`, `AssessmentHistory` | the requests on one research input, statement by statement; and, abstractly, what they promise of its thread |
| `GapDetection` | what is found at one seed |
| `ClaimSelection`, `ClaimGates` | which sentences become claims, and of which type |
| `LocalModel` | what three stages of a report accept of a language model, and keywords |
| `SourceRequests` | throttle, retry, paging and resumption at a source |
| `SavedQuestions` | collections, saved answers, summaries |
| `AnnotationFiles`, `NougatRepair` | edits of the benchmark's files; the repair of its markdown |
| `CorpusRepairs` | the scripts that repair stored rows |
| `Subsequences` | what a comprehension keeps of a list, as recursive functions that can be proved about |
| `...Proofs` | proofs about the module they are named for; `IntakeProofs`, `ReportProofs` and `ServicesProofs` about several, see Proofs |
| `MC...` | values of the constants for TLC; `MCServices` puts nine modules into one run |

### PipelineControl

A process is one run. `os` is its life: `unused`, `starting` (loading models,
no row yet), `working` (row inserted), `finishing` (outcome written), then
`zombie` if the server is its parent and has not waited for it, and `gone`.
`pid` can be given again once nobody holds it; a zombie still holds it, which is
why `psutil.pid_exists` calls a dead child alive. `handle` is `_RUNNING`, lost in
`ServerRestart`, when init adopts the children. `row` is the status column;
`reconciled` separates the panel's "marked failed automatically" from a run's
own `failed`. `req[h]` is the program counter and the local variables of the
handler thread `h`. Every read of handles, rows and pids is a step of its own,
as two threads or a process may act between them:

* trigger: `TriggerBegin` (`is_running`), `TriggerSelect` and
  `TriggerCheckPids` (`has_running_db_row`), `TriggerRecheck` (`is_running` in
  `trigger`), `TriggerSpawn` or `TriggerFail` (`Popen`), `TriggerStore`
  (`_RUNNING[key] = proc`);
* stop: `StopBegin` reads the latest running row, then either `StopKillHandle`
  and `StopPop` or `StopNoHandle`, `StopPop` and `StopByPid`, then `StopMark`;
* poll: `StatusBegin`, `StatusReconcile`, `StatusReport`.

Polling a handle reaps the child (`Reap`): a side effect of every read of
`_RUNNING`. `Popen` also waits for the handles that were dropped (`Dropped`):
a child whose handle was replaced or popped while it lived stays a zombie until
the server starts another one. `overlapped` is a history variable: the keys for
which two requests met between the last look at the registry and the entry in
it.

`RunLedger` says what the rows are for: a run starts, records itself at most
once and only while it lives, and gets its outcome; only the dead are
reconciled. `PipelineControl` implements it under the mapping `life`, which
forgets handlers, handles and pids.

### ReviewMirror

A review is `ReviewLoad` (`session.get`), `ReviewFlush` (the flush that the
claims query triggers, taking the row's lock if anything changed), `ReviewRead`
(the claims), `ReviewCommit`. The session writes only columns that differ from
what it loaded, on both rows: that is what lets the layers separate. All claims
of a source are one status here, since they are written together. Deletion of
an assessment leaves its claims behind, as the code does. `doubt` is a history
variable: a source enters it by the commit of a review that overlapped another
one and confirmed the status it had loaded, and leaves it with the next review
that ran alone.

### Extraction

A row of evidence is named by run, paper and position in the extractor's
answer; its claim has the same name. The reset is one transaction of six
statements, each a step (`ResetStatement`) as other transactions may commit in
between; `doomed` is what the open transaction has deleted. Deleting evidence
that something still refers to ends the process. A paper is one transaction
(`Process`, `CommitPaper`), a candidate one savepoint in it; `Fail` is the
`except` branch, which commits without a rollback and so keeps the candidates
already added. Gaps and assessments read evidence at one time and cite it at
another (`ReadEvidence`, `Cite`). Three others take away what these have written:
a synthesis replaces the links of the one before (`Synthesize`, told apart by
`role`), the deletion of an assessment takes its links and leaves those of its
claim (`DeleteAssessment`), and the revalidation scripts delete claims and leave
their evidence (`Revalidate`). `dropped`, `cited` and `revoked` remember what was.
Simplifications: a save and a review of
evidence are one step each; a DELETE that waits for another one is evaluated
after the wait; the error rows of a pass over a paper count as one row. `limited`
is the set of runs whose `--limit` left papers out.

### Ingestion

A source is a list, newest first, paged by an offset, to which papers may be
added at the head (`Publish`). A run takes a page (`Fetch`: validation and
deduplication against what is committed and against the page), then for each
paper inserts the row, looks up and inserts its authors in the order the byline
gives, and its categories, under one savepoint (`kept` and `fresh` are the
uncommitted rows outside and inside it), and commits the page with counters and resume state
(`CommitPage`). Inserting a key another open transaction holds waits
(`WaitsFor`); afterwards it fails, rolls back the savepoint and the paper is an
error (`Refuse`), as is a paper with a nameless author or a category given twice
(`Unfit`; the connectors pass both on as they get them). Any other error inside the
savepoint ends the run (`PageError`: a cycle of waits in which the database aborts
this member, a NUL byte in a text, a full disk), and its handler commits the
finished papers of the page but not their counters. `Kill` commits nothing. A resumed run takes the resume state
of an earlier one.

### TextLayers

Three batches derive something from papers, and one module holds them because a
chunking run reads what a fetch writes. A process counts from its first
transaction: the deletion that `--force` means for chunks and vectors
(`BeginChunk`, `Reset`), else the row of the run. `Select` keeps what was selected
in `todo`, for a chunking run with the text loaded then, since the sessions are
made with `expire_on_commit=False`. `run` is the row as the session has it and `row`
the committed one; a paper of a fetch (`Skip`, `FetchFails`, or `Fetched` and then
`Store` or `Refused`) changes `run`, and `Save` commits it. `Refused` is the rollback after
a failed flush, which takes `run` back to `row`. A selection or a commit may fail for
any reason: a fetch rolls back and records it (`RollsBack`), a chunking run has no
handler and no row (`CutFails`), and the handler of an embedding run does not roll
back, so that its own commit fails as well and nothing is recorded (`HandlerFails`);
when another run has inserted a vector of the batch, that is what must happen.
`Ingest` adds papers to `corpus` at any time; `sight` keeps what was there when a run
selected. In a chunk, `part` stands for one batch of
paragraphs. `met` and `sight` are history variables. The run table of chunking does not exist in
the code either. There is one model, the database comes back after an error, and
the order of the papers in a batch is free.

### CorpusBatches

The detection of gaps and the fetching of citations share their frame, and one
module holds both: `Launch` inserts the row, `Select` chooses the papers once,
`Sync` writes the counters after a paper, `Complete`, `Fail`, `Kill` and
`DatabaseError` end the run. `Detect` and `SaveGaps` are one seed, with a commit
each for gaps and counters; `Fetch`, `InsertEdge` (a savepoint that may wait for
another run's edge) and `EdgesDone` are one paper of a citation run. What a
handler can still do is part of the model: an insertion that fails inside its
savepoint (a deadlock, a timeout, a full disk) leaves a session whose commit works,
which marks the run failed and stores the edges put so far (`SavepointFails`);
after an error outside a savepoint its own commit raises too, and the row stays
`running` (`DatabaseError`, `SaveFails`). `LaunchSingle`,
`CommitSingle` and `FailSingle` are the programs for one paper, which keep no row.
`era` counts forced extractions, so that evidence of an earlier one is known to be
gone when a draft cites it.

### AssessmentBuild

One request from `Retrieve` to `Finish`, one action per stage, each reading the
rows it reads at that time; `Reset`, `Extract` and `Revalidate` are what others
commit in between. `dist` are the distances of the retrieved papers, in
hundredths, compared with the code's thresholds; `seen` the claims as the pure
stages read them once. `report` has, per section, the evidence it quotes. What
embeddings and the model decide is chosen freely; what follows from it (level of
novelty, gap and its source, feasibility, risks, guard, verdict, confidence,
links) is the code's. `Finish` fails if a link refers to evidence that is gone.

### AssessmentThreads

A request is one transaction at READ COMMITTED, `tx[r]`, whose statements are
steps: `Create`; `Rerun`, or `Refresh` over all reports, with `RerunInsert` and
`RerunCommit`; `Delete` with its three DELETE statements; `Synthesis` with its
model's answer, UPDATE, DELETE and INSERT; `Join` for the project. A DELETE is
evaluated when its statement starts and again for rows it had to wait for, hence
`...Unlink` and `...UnlinkDone`. Row locks, foreign keys and the unique key of the
links are the guards; `Victim` is deadlock detection. A link of a report whose
identity was deleted and inserted again (by a synthesis beside a deletion) makes
the deletion fail at its commit of the report, as in PostgreSQL.
`AssessmentHistory` says it in single steps: a thread is opened with its first
report, only grows, and is deleted as a whole and for good.

### GapDetection, ClaimSelection, ClaimGates, LocalModel

The rules that decide what is stored, as steps over data chosen freely.

`GapDetection`: `LoadGapClaims` and `LoadContributions` are the two reads, and a forced
extraction may come after either; agglomerative clustering merges the two closest groups
by complete linkage until none are close enough; `ClassifyCluster` gives the
verdict and addressing papers can lower it; then the save. How similar two claims
are is one of three grades.

`ClaimSelection`: the heuristic, the semantic and the hybrid extractor over one
paper of an abstract and sections: which sentence carries a cue, which field it is
closest to and how close are choices; the priorities, the greedy assignment and
the fallback are the code's.

`ClaimGates`: a sentence is the sequence of what the expressions of
`extraction/validation.py` find in it. The scan over deployment verbs, the ends of
their clauses and the sector path keep positions, as their decisions do.

`LocalModel`: dimensions, relevance filter and opportunities of one report: what
each takes of an answer line by line, the retry, and how it does without. RAKE is
there for the dimensions that come from the text itself: candidates between breaks,
scores (multiplied by a common factor, so that they are whole), and the best of
what is left considered until nothing is.

### SourceRequests

One object per process and source; `since` is the seconds since its last request,
`apart` the least distance so far. `Send` is the throttle, `Retry` the wait between
attempts, and each source has its own idea of where a page starts and which is the
last; `Start` makes a new object at the place the run has saved. A list may grow at
its head and lose papers. An answer has a page's papers or fewer or none, and may lack
its total, its cursor, or say another number of records than it has (`Tells` is an
answer that lacks nothing); Springer's place moves by the number it says, whatever
comes, and a missing number counts as zero.

### SavedQuestions, AnnotationFiles

Requests that read, wait, and write what they had read. `SavedQuestions`: an
answer is a snapshot of quotes; a summary takes minutes and its UPDATE names only
the columns that differ from what the session had loaded. `AnnotationFiles`: find,
load, merge, open (which empties the file), write, with a stop of the server at
any step; `acked` is a history variable.

### NougatRepair, CorpusRepairs

`NougatRepair` runs the passes of `normalize_nougat_markdown` in their order over
every text of a few lines; a line is only what the repair tells apart. A pass that
goes through the lines with a depth, a deficit or a fence in hand is a function of
how far it has come. `Plain` says which texts Nougat means: in a table stand only
rows, and every end has its table; what the repair promises beyond counts needs it.
`CorpusRepairs` runs the scripts of `src/scripts/` as operators may, in any order
and overlap, beside extraction, a forced extraction and a review: each reads all it is
about, writes a backup and changes, by identity, the rows it had read. The form of
a text is how often cleaning still changes it: `html.unescape` takes one layer, so
that a doubly escaped text wants each script twice. A passage of the full text is
quoted and its quote cleaned, while no script cleans the section itself.

## Runs

| run | instance | what it shows |
|---|---|---|
| `pipeline_control` | 3 processes, 2 keys (one without a run table), 2 pids, shell starts, a triggering and a stopping/polling thread, 1 restart | the safety properties and the refinement of `RunLedger` |
| `pipeline_healing` | 2 children of the server, 2 pids, a thread that triggers and one that triggers, stops and polls, fairness | duplicates need an overlap; stale rows heal unless a dropped zombie has their pid; registered zombies are reaped |
| `review_mirror` | a gap and an assessment, 3 overlapping reviews | layers agree outside doubt |
| `extraction` | 2 runs, a paper with two candidates, an assessment, one review, one revalidated claim | papers whole, duplicates explained, built links together |
| `review_blocks_reset` | one paper, two runs, one review | *violation*, see Findings |
| `ingestion` | 3 runs, 2 sources, 6 items (one invalid, one listed twice, one with a nameless author, one with a category twice, two naming the same authors in opposite order), pages of 3 | counters, resume state, what overlap may cost |
| `text_layers` | 3 runs of any of the three kinds, forced or not; 3 papers, one open access (CORE) and ingested at any time, one without a title; a text of two batches of paragraphs and one of none; vectors in batches of 2 | what is committed adds up, and what can be relied on |
| `corpus_batches` | 2 runs of one kind, forced or not, saving or dry, over the corpus or for one paper; 2 papers that cite each other, 2 drafts a seed, 1 forced extraction | rows tell what is stored however runs end |
| `bad_paper_aborts` | 1 run, 1 forced extraction | *violation*, see Findings |
| `assessment_build` | 2 papers with 8 claims of 4 types, distances 25, 38 and 66, 2 dimensions, clusters from 2 claims, 1 retrieved paper for evidence, 1 change by others | guard and verdict |
| `assessment_threads` | 2 requests at a time, 2 reports, 2 pieces of evidence, a project, a forced extraction | links, and the refinement of `AssessmentHistory` |
| `services` | nine modules, one at work in each behavior (below) | their thirteen properties |

`services` chooses one of nine areas in its initial state and leaves the others
idle, since they meet only in rows that other modules model: 3 requests on 2
annotation files (one found by name, one by a scan) and one stop; 2 requests on 2
collections with 2 claims, 2 passages, 3 summaries and a forced extraction; every
text of up to 6 lines; 2 processes one after the other on a source of 4 papers in
pages of 2, at each of the six kinds of source; 2 operators with 4 scripts and up
to 4 rows of evidence, texts escaped up to twice; 4 gap claims of 3 papers, groups from 3; a paper of 3
sentences in abstract and section, one of them in both; sentences of up to 4
marks; ideas of up to 6 tokens, 2 applications and answers of up to 4 lines.

Bounds and why they suffice. Two processes are needed for a duplicate, a third
for a pid that is reused while the other two are known. Two pids for three
processes force reuse. One restart separates children from adopted processes; a
second adds nothing as the registry is empty after each. Three reviews: two that
overlap and one that repairs. Two extraction runs: one that resets and one that
works; a paper with two candidates can be cut in the middle. The writer beside
them is an assessment: a gap is the case that claims all it has read and is
never synthesized or deleted. Three ingestion
runs: two that deadlock or overlap and one that resumes. Three runs over the text
layers: two that overlap and one that prepares or repairs; three papers make a
full batch of vectors and a rest. `Limits` is one value there: a run that is killed
after its first papers does what a limited one does. Two citation runs over two
papers that cite each other insert the two edges in opposite orders, which is a
deadlock, and wait for one another; `OneKind` leaves out a detection beside a citation run, as the two
share no row. The three distances of a build lie on the three sides of its
thresholds (near, relevant, out of corpus); one change by others at any stage
separates any two reads. Two requests on a thread meet in every pair of
statements; a third would only wait for the same rows. Four claims of three
papers allow a merge of merged groups, and two claims of one paper. Five lines
hold a table in a fence, six a table that lacks its end beside an end that has no
table. All counters are bounded by these sets.

`CHECK_DEADLOCK FALSE` is set where processes, runs or requests are used up and
the system really stops (all but the review mirror).

### Fairness

Only `pipeline_healing` needs it. `WF(Exit(p))`: a batch run is finite, every
network request has a timeout. `WF(Serve(h))`: a thread finishes the request it
serves, no handler waits for another. `SF(\E h : StatusBegin(h))`: the admin page
repeats `GET /api/admin/pipeline` while it is open, and among the requests of
the thread pool a poll gets a thread again and again; strong fairness, since
the threads may be busy with other requests in between.
Nothing is assumed of triggers, stops, shells or restarts. Without a poll no
row heals: the code has no other reconciliation.

### Properties

*Pipeline control.* `ReconcileSparesTheLiving`: a row is never reconciled while its
process runs, though it was selected in an earlier step. `RefusedWhileVisible`:
a trigger never passes its checks against a run that was visible when the
request arrived and still is. `FallbackStopIsExact`: when a stop kills by pid, the
row it then marks belongs to a dead process; on the path through the handle the
row may be that of another run, and the code marks it. `LedgerSpec`.
`OneChildPerKey`: two live children of one pipeline need two requests that met.
`StaleRowsHeal`: a running row of a dead process heals, unless a zombie that the
registry dropped keeps its pid for good. `RegisteredChildrenAreReaped`.

*Mirror.* `MirrorAgrees`.

*Extraction.* `PapersAreWhole`: the evidence of a pass is all there or all gone.
`DuplicatesNeedOverlap`. `CitationsComeTogether`: what one commit linked in several
tables is all there or all gone, and only the deletion of an assessment takes one
table's part, as a whole. Proved only: `EvidenceHasItsClaim`, `ForceStartsOver`.

*Ingestion.* `CountersAreAccurate` and `NothingIsSkipped` are the two halves of "an
accurate, resumable record"; only an error inside a page lets a counter fall short,
by less than a page. `LossNeedsOverlap`: the "single writer" assumption is what keeps
papers that the database would take from being lost.

*Text layers.* `CountsAddUp`: each paper a fetch has seen is counted once, each
failure has its error row, though counters are rolled back with a failed write.
`ChunksAreWhole`, `StaleNeedsRefetch`: chunks are complete, and current unless runs
overlapped or a fetch was forced; `RebuildIsExact`: the remedy the code names,
chunking with `--force`, works if nothing else runs; `CompletionMeansCovered`: a
completed run of vectors has covered the papers that were there when it selected; what
ingestion adds later is left for the next run. Proved only: `TwiceCutNeedsOverlap`,
`VectorsAreCounted`.

*Batches.* `RowsTellWhatIsStored`: at any moment the row tells what the batch has
stored, but for the paper in progress. `RepeatsHaveAReason`: repeated gaps need
force or overlap. `CoveredMeansFetched`: what a citation run passes over was
fetched, or, from Semantic Scholar, named by a paper that was.
`PassedEdgesAreThere`: an edge passed as stored is stored, although the run that
was inserting it may fail or be killed: it holds because the second inserter waits.

*Build.* `OutOfCorpusIsSilent`: whatever the stages had found before the guard ran.
`HighPriorityIsTheException`: see Observations.

*Threads.* `KeepsItsPromise` (the refinement), `LinksFollowOpportunities`.

*Services.* `LostEditsNeedOverlap` (annotation files); `CitationsFitTheSummary`
(questions); `TextIsRenderable` (markdown: no fence without its partner, no table
without an end, and in a plain text each in its place); `RequestsKeepTheirDistance`
and `CompletedMeansDelivered` (sources); `QuotesMatchTheirPaper` (of the abstract, once
the scripts have left nothing to clean), `RecoveredOnce`,
`BackfillMirrorsTheReview` (scripts, each with the order or overlap that excuses it); `EveryPairIsSimilar`, `SavedGapsAreOpen` (detection); `SharedSentencesAreExcused`
(two claims on one sentence of a text: a cue phrase or the fallback is behind one of
them, and not both), `EveryClauseGetsItsChance` (extractors); `ModelIsHeldToTheText` (local model).

Where a property excuses an overlap, the excuse is as narrow as TLC allows: it
names the runs or requests that met, not merely that some did.

Every property has a mutant: a plausible bug in one mapped definition that TLC
finds with the run's own configuration. Mutants are named `Definition_Bug` and
stand before the definition they change.

## Findings

1. `review_blocks_reset`: once any evidence has been reviewed, `rb-extract --force`
   fails before it records a run (`extraction/pipeline.py:79`,
   `db/models.py:215`), though the docstring (line 59) deletes "those referencing
   rows" first.
2. `bad_paper_aborts`: an exception while gaps are saved ends the whole batch
   (`gaps/batch.py:87`), and the handler's commit fails with it
   (`gaps/cli_detect.py:142`), although "one bad paper never aborts the run"
   (`gaps/batch.py:5`).

### Observations

Behaviours the models have because the code has them; the properties above are
stated around them.

* Two trigger requests at the same time start two subprocesses of one key:
  `trigger` checks and stores without a lock (`api/pipeline_triggers.py:127-162`).
  A run that commits `completed` and exits between the SELECT and the pid check of a
  poll is overwritten with `failed` (`api/admin_routes.py:223-253`). A stop kills the
  registered child and marks the latest running row, which may be another live
  process's (`api/admin_routes.py:615-650`).
* Two overlapping reviews can leave a gap with one verdict and its claim with the
  other (`gaps/claims.py:53-63`).
* A paper whose claims a revalidation has all deleted counts as unprocessed: the
  next run extracts it again, beside the evidence that stayed
  (`extraction/pipeline.py:213`, `src/scripts/backfill_claim_revalidation.py:125`).
  Deleting an assessment leaves the claim made of it and that claim's links
  (`api/assessment_routes.py:386-391`), which only a forced extraction clears.
* A paper whose text the database cannot store (a NUL byte) ends its ingestion run in
  the handler, and every resumption at the same page; the page's papers before it are
  stored without being counted (`ingestion/pipeline.py:111-116`). One whose source
  gives no name for an author, or a category twice, is lost as a `db_error`
  (`ingestion/pipeline.py:208-223`; only names are de-duplicated).
* An embedding run whose selection or commit the database refuses, as it does when two
  runs meet at a key, stays `running`: the handler that "must record failure"
  (`embedding/pipeline.py:111`) commits an aborted session. Only a reconciliation of
  the panel, once the process is gone, ends the row.
* A save of an annotation that is interrupted leaves an empty file
  (`benchmark/store.py`, open for writing before the dump).
* HIGH PRIORITY is out of reach of an undisturbed build: it wants a strong gap from
  a near paper and novelty that is not low, but a near paper with any claim makes
  novelty low. What remains is a reused approved gap whose near paper has lost
  its claims, or a corpus that changed between two reads.
* A detection whose second read a forced extraction has emptied sees no limitation
  covered; only the foreign key keeps its gaps from being saved. Motivation claims stay in the evidence
  of a gap and may be its representative.
* A text that was escaped twice is changed by each run of a repair script, as
  `html.unescape` takes one layer (`connectors/base.py:77-88`): after one run of each, quotes
  stored between or before may differ from the abstract. Quotes of the full text are
  rewritten (`src/scripts/backfill_evidence_entity_repair.py:62`), their sections are
  not. A repair writes what comes of the text it has read, so that of two at once
  the later may put back an older one.
* The heuristic extractor may file one sentence under several types, as each has its
  own cue phrases (`extraction/heuristic.py:94-108`), and so may the two extractors.
* Semantic extraction calls the sentences of its groups "disjoint" pools that "can
  never collide"; the same sentence may stand in abstract and section. A problem that
  the semantic extractor found may still be a sentence a cue phrase has used.
* In validation, "software application" in the unmasked text counts as framing for a
  sector. In RAKE the comparison with phrases already kept never applies to whole
  words.
* Opportunities that cite `[3 4]` raise an error that refuses the whole answer.
* In Nougat's markdown an empty line or a removed float tag inside a complete table
  takes the end meant for another one, and an unclosed table in a fence, if no empty
  line comes before the closing fence, swallows that fence. Begins and ends are
  counted over the whole page: a stray end, of no table, stands in for the one a
  table lacks, which then stays open.
* One Semantic Scholar or Springer record with a null list stops every resumption at
  the same page. A page without entries, a total or number of records that is missing
  (taken for zero), or a missing cursor ends a run as completed, with the rest of the
  listing never asked for. Two processes share the
  allowance of a source but not a throttle.
* A deletion of a thread beside a synthesis may meet a link that was inserted again and fail
  as a whole; it can be repeated.

## Proofs

TLAPS checks, for any number of processes, pids, threads, restarts, gaps,
assessments, reviews, papers, runs, requests, reports and claims:

* `PipelineControlProofs`: `TypeCorrect`; the safety properties of its two runs
  (`ReconcileIsSafe`, `TriggerIsGuarded`, `FallbackIsExact`, `OneChild`); and
  `ImplementsLedger`, that every step of handlers,
  processes and restarts is a step of `RunLedger` or leaves it unchanged.
* `ExtractionProofs`: `TypeCorrect`, `EvidencePaired`, `PapersWhole`,
  `OverlapNeeded`, `ForcedFromScratch`, `CitationsTogether`.
* `TextLayersProofs`: `TypeCorrect`, `FetchesAddUp`, `ChunksStayWhole`,
  `DoublesHadOverlap`, `StaleHadRefetch`, `CountsAreVectors`, and the two action properties, `RebuildIsRight` and
  `CompletionIsCover`.
* `CorpusBatchesProofs`: `TypeCorrect`, `RowsTell`, `RepeatsExplained`,
  `CoveredFetched`, `PassedStored`.
* `AssessmentThreadsProofs`: `TypeCorrect`, `LinksFollow`, `ReferencesHold`, and
  `ImplementsHistory`, that every statement of every request is a step of
  `AssessmentHistory` or leaves it unchanged.
* `ReportProofs`, of `AssessmentBuild`: `BuildInvariant`,
  `OutOfCorpusReportsAreSilent` (`OutOfCorpusIsSilent`) and
  `HighPriorityNeedsAnException` (`HighPriorityIsTheException`).
* `IntakeProofs`. Of `Ingestion`: `CountersExact` (`CountersAreAccurate`),
  `ProgressInvariant`, `RunsAreResumable` (`NothingIsSkipped`),
  `SingleWriterLosesNothing` (`LossNeedsOverlap`). Of `SourceRequests`:
  `RequestsAreSpaced` (`RequestsKeepTheirDistance`), `RequestsInvariant`,
  `CompletedRunsHaveAll` (`CompletedMeansDelivered`). Of `ClaimSelection`:
  `SharingIsExcused` (`SharedSentencesAreExcused`). Of `ClaimGates`:
  `ClausesAreAllConsidered` (`EveryClauseGetsItsChance`). Of `LocalModel`:
  `TheModelIsHeldToTheText` (`ModelIsHeldToTheText`). Of `NougatRepair`:
  `RepairsRender` (`TextIsRenderable`).
* `ServicesProofs`. Of `ReviewMirror`: `TypeCorrect`, `MirrorIsFaithful`
  (`MirrorAgrees`) and `ChangesSerialize` (reviews that change a status hold the
  row's lock alone). Of `GapDetection`: `GroupsHoldTogether`
  (`EveryPairIsSimilar`), `OpenWhenSaved` (`SavedGapsAreOpen`). Of
  `AnnotationFiles`: `SavedEditsStay` (`LostEditsNeedOverlap`). Of
  `SavedQuestions`: `CitationsAreOfTheirSummary` (`CitationsFitTheSummary`). Of
  `CorpusRepairs`: `RepairsInvariant`, `QuotesReadAsTheirPaper`
  (`QuotesMatchTheirPaper`), `RecoveryMakesNoDuplicate` (`RecoveredOnce`),
  `BackfillsAreCurrent` (`BackfillMirrorsTheReview`).

The assumptions are the named `ASSUME`s of the modules: sets of different kinds
are disjoint, `None` is none of the things it stands for the absence of,
processes and handlers are as the module says, bounds are numbers, citations
relate papers, what a source publishes is new, the sentences of a text differ.
Finiteness is needed only where the code compares pids of all
processes, counts papers or claims, merges until nothing is left to merge, or
measures a file by its fields.

Each proof has the same shape. The properties are not inductive as they stand;
`IInv` of the module (`GapsInv`, `ProgressInv`, `RequestsInv`, `SelectionInv`,
`GatesInv`, `AnswersInv`, `MarkdownInv`, `FilesInv`, `QaInv`, `RepairsInv` in those that share a
module of proofs) adds what makes them so, and one lemma per action, or per conjunct,
shows that it is kept. TLC had checked each as an invariant first, with the constants of the
runs.

* *Pipeline control.* `RowsFollowProcesses`: a row comes after the start of its
  process. `RequestsReferToRows`: what a request remembers has a row, so that
  later steps of the handler cannot speak of a process that was never recorded.
  `PopFollowsKill`: a handler that pops a handle has killed a child.
  `SelectedAllVisible`: the rows a trigger selected include whatever it saw on
  arrival that is still visible; without it `RefusedWhileVisible` fails in the
  step that checks the pids.
* *Mirror.* `ReviewsReferToRows`, `LocksAreExclusive`, `ChangesAreLocked`,
  `AloneIsCurrent` and `ReadsAreCurrent` say that what a review holds in its
  session is what the database has: because of the lock if the review changes
  the status, because nobody else is there if it does not. The commit then writes
  both layers, or neither.
* *Extraction.* `ResetsStayApart`: two resets under way have deleted different
  rows, as a DELETE waits for the other one's rows. `SweepsAreComplete`: once a
  reset is past its DELETE of evidence, the foreign keys have made sure that it
  has deleted what claims its evidence has left, the evidence of a pass together, and
  the links one commit made all or not at all; the commit of the reset then keeps the
  properties. This is where the order of the six statements enters.
  `WorkIsNew`: what a run has still to do has no evidence of the run itself and no
  claims of one that ended before it started, since claims come only from work and the
  selection leaves out papers with claims. `RunsMeetOrFollow` relates the two
  histories: of two runs that were started, they met or one followed the other,
  which is why duplicates need an overlap. `ForcedRunsAreAhead` carries what a
  forced run has deleted over its commit, and what it has still to do up to its
  end. `RunsKeepStep` and `WritersCiteOnce` tie program counters to variables.
* *Text layers.* `Onward` says that what a run met, its arguments and its row are
  never taken back, so that an overlap, once the excuse of a chunk or a vector,
  remains one. `MeetingIsMutual` makes an overlap known to both runs. The three
  `...WorkIsFresh` say what may have become of a paper since it was selected:
  it has the layer now only because of a run met. `CountersFollow` gives the
  distance between the counters in the session and in the table at each place of
  a fetch, which a rollback then takes back to nothing; with `ErrorsAreSeen`, that a
  paper in hand has no error row of the run yet, failures and error rows grow
  together. `Covers` and `Rebuilds` say of a run that selected everything that a
  paper is done or in hand; at the end nothing is in hand.
* *Ingestion.* `PendingIsNew`: what a run has pending is each paper once, none of which
  it has stored, so that the count of a commit is the number of rows it adds.
  `Counted`: the counter is that number, and less only in a run that an error ended
  inside a page; `PagesFit`: by less than a page, as what is kept and what is left to
  insert come from one page.
  For what is skipped or lost, `InHand` says what a run has in hand at each place of a
  page: papers once each, that nobody but a run it met can have stored. So only such a
  run, or a paper that is not fit, makes its insert fail (`AloneIsSafe`, with
  `AliveHaveMet`). `NothingIsLeft`: what
  was promised and lies before a run's place is stored, an error, or among what the
  page has `Unfinished`; the commit of a page turns the last into the first two before
  it saves the place. New papers at the head only push a promised one further down.
* *Requests.* That two requests keep their distance needs only the clock. That a
  completed run has everything is `NothingIsPassedOver`: each kind of place, an
  index from 0 or 1 or a cursor, has papers behind it (`Behind`), and a page moves
  the place over just the papers it hands on, as long as nothing is withdrawn and the
  answer tells what the connector goes by (`lost`).
  `PageByIndex` and `PageByCursor` say so of the four forms of a page, the test for
  the last page included.
* *Selection and gates.* `PoolsAreWhole`: the fields that draw from one text are
  matched in one step, which takes each sentence at most once; `ClaimedByCue`: the
  problem comes last and avoids what cue phrases have taken; `ChosenFromTheTwo`: the
  hybrid adds nothing, so that two claims on a sentence are traced to who filed them. For a clause,
  `Boundary` is the least break after a verb; what comes before a break, or after
  it, decides as it would alone, and normalizing drops marks on both sides alike.
* *Answers of the local model.* Citations were checked against the list that was
  shown, and after they are stored the stage that could shorten it is past.
* *Report.* `SeenIsTheCorpus`, `NearMeansLow`, `GapsAreSeen`: until the corpus moves,
  the claims read are those of the papers retrieved, so a near paper that makes a gap
  close has also made novelty low, unless the gap is a reused one. The guard comes
  after all stages that write what it silences.
* *Files.* `OneAtATime`: at a file that was never disturbed there is at most one
  request, and what it has read, merged or emptied follows from what was
  acknowledged before.
* *Questions.* `SummariesAreChecked`: what a request has loaded of a question is its
  row, unless another is at it too; its quotes never change, so that citations
  that were in range stay so whatever overlaps.
* *Repairs.* The history variables `crossed`, `disorder`, `crowded` and `overtaken`
  each excuse one kind of overlap, or scripts out of order. Without it `WritersAreCurrent`, `OneWriter` and
  `OneBackfill` hold, that who is about to write has read what is still there.
  `NotYetRepaired` needs no excuse: while the abstract still reads as what an older
  extraction rejected, nobody has cleaned it, and nobody has read another form. That
  quotes read as their paper also needs `tended`: a repair of the evidence that left
  nothing to clean, begun when the abstract had nothing left to clean either; a text
  escaped twice makes one run of each script too few.
* *Batches.* `RunOK` has, for each place of a run, how far its counter is ahead of
  its row, and its row behind the tables: by the drafts in hand between the two
  commits of a seed, by the edges inserted in the open transaction. Every action
  of another run spares it (one lemma), but for an overlap, which
  `MeetingIsMutual` tells both. `Untouched` and `InPlace` say what a run can have in
  hand at its place; `SeedsAreNew` that the seeds an unforced run has before it have
  gaps only of runs it met; `EdgesAreTold` that whatever it has found or inserted
  was told by a record fetched from the same source.
* *Threads.* `Sound` is what a transaction's place says of the tables: what it
  has deleted, inserted or still has to. `Apart` is what row locks and keys keep apart
  between two transactions. `Sweeps`: the DELETE of a synthesis takes all links of
  its report, if it is alone or holds the row. `AloneIsAlone` makes the
  history variable mean what it says. The commits are then the steps of
  `AssessmentHistory`, and all else stutters.
* *Detection.* `ClustersAreApart`, and that each step merges two groups whose
  linkage, the least of all pairs across them, is high enough; then any pair of
  the union is in one of them or across. `Judging` and `DraftsAreOpen` follow the
  verdict from the group to the save, with the second read either whole or from an
  emptied table, of which no draft can be saved.

`Subsequences` makes these possible: TLA+'s `SelectSeq` and the folds take
operators as arguments, of which nothing can be proved here, while a recursive
function of the prefixes of a sequence can be shown to exist and to keep what it
should, by the least prefix that is an exception (`LeastNatural`, `UpTo`).
`AtPlaces`, `AmongKeeps`, `OnceKeeps` and `AmongConcat` are what the rest relies on.
`Recursion` does the same for any function that goes on from one value to the next,
if every value stays in a set; the passes over a page's lines, the scores and the
choice of keywords are such functions.

* *Keywords.* `KeptSoFar`, by the number of candidates that were considered: what is
  kept is unrelated and scores no less than what is left, and what was dropped has a
  reason among what is kept. That there is a best of what is left (`TheBestIsLeft`)
  takes that scores are numbers and candidates finitely many (`SomeFirst`).
  `AnswersInv` only adds that without the model the dimensions are the keywords.
* *Markdown.* `MarkdownInv` says by pass what the passes so far have achieved.
  `ClosedSoFar` and `LiftedSoFar` compare what a pass has written of a prefix with
  the prefix: depth and deficit, fences modulo 2, and what the reader sees.
  In a plain text, `Tidy` is what closing the tables establishes - depths are 0 or
  1, in a table only rows - and what lifting them needs to put a fence on each
  side. `PairsSoFar`: a listing loses both fences or neither.

Only model-checked: liveness (`StaleRowsHeal`, `RegisteredChildrenAreReaped`), beyond
the prover. Every invariant and action property that a passing run checks is also a
theorem.

## Not modelled

* Text, similarity and language models themselves: what a sentence says, how close two
  vectors are, what a model writes. The rules that follow from them are modelled and
  take the outcome as a choice. Language detection, wording and the narrative of a
  report are left out.
* Views computed at each request and kept nowhere: search and the read-only API,
  `api/schemas.py` and the serializers, the claim graph, `assessment/export.py` with its
  charts and layout.
* The fields of a report that the repair of the evidence cleans as well
  (`src/scripts/backfill_evidence_entity_repair.py:73-79`): no property is about them.
* Programs that print figures: retrieval baselines and their metrics, the evaluation
  of extractors, gap calibration and the calibration scripts. The benchmark's
  sampling runs once, before there is anything to race with.
* The download and conversion of the benchmark's PDFs and its cache; the field names of
  each source's records.
* The frontend, which adds nothing to the server's state beyond the requests that the modules
  already let arrive in any order. Migrations, configuration and logging.

## Plan and its state

1. `PipelineControl` with `RunLedger`; 2. `ReviewMirror`; 3. `Extraction`; 4.
`Ingestion`; 5. `TextLayers`; 6. `CorpusBatches`; 7. `AssessmentThreads` with
`AssessmentHistory` - all modelled, checked and proved as far as stated above. 8. The
decision rules, first meant as operators, became `AssessmentBuild`, `GapDetection`,
`ClaimSelection`, `ClaimGates` and `LocalModel`, since what matters about
them is what happens between their reads. 9. `SavedQuestions`, `SourceRequests`,
`AnnotationFiles`, `NougatRepair`, `CorpusRepairs`.

What could follow: a longer list and a third process for the run of `SourceRequests`. The
read-only parts above have no behaviour that a state machine would tell more about
than their unit tests.
