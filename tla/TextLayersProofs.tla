--------------------------- MODULE TextLayersProofs ---------------------------
(***************************************************************************)
(* For any runs, papers and texts: the counters of a fetch add up, texts   *)
(* are cut whole, what is doubled or stale had an overlap, and a completed *)
(* run of vectors covered what it found, whatever is ingested meanwhile.   *)
(***************************************************************************)
EXTENDS TextLayers, FiniteSetTheorems, FunctionTheorems, TLAPS

\* The actions by which a process starts.
Launch(r) ==
    \/ \E force \in BOOLEAN : BeginFetch(r, force) \/ BeginChunk(r, force)
    \/ BeginEmbed(r) \/ Reset(r)

\* The actions of a process that has started.
Move(r) ==
    \/ OpenAfterReset(r) \/ Select(r) \/ Finish(r) \/ Kill(r)
    \/ Skip(r) \/ FetchFails(r) \/ Fetched(r) \/ Store(r) \/ Refused(r)
    \/ Save(r) \/ RollsBack(r)
    \/ TakeText(r) \/ AddPart(r) \/ CutFails(r) \/ SaveChunks(r)
    \/ TakeBatch(r) \/ VectorsFail(r) \/ SaveVectors(r) \/ HandlerFails(r)

\* A step of ingestion, or none, leaves the runs alone.
Quiet == UNCHANGED <<tables, pc, work, met>>

LEMMA NextIsLaunchOrMove ==
    ASSUME [Next]_vars
    PROVE  Quiet \/ \E r \in Runs : Launch(r) \/ Move(r)
<1>1. Ingest \/ UNCHANGED vars => Quiet
  BY DEF Ingest, vars, Quiet
<1> QED
  BY <1>1 DEF Next, Step, Launch, Move

\* The papers in the table, and those a run has seen there.
CorpusOK == corpus \subseteq Papers /\ sight \in [Runs -> SUBSET Papers]

LEMMA CorpusTypes ==
    ASSUME TypeOK, [Next]_vars
    PROVE  CorpusOK' /\ corpus \subseteq corpus'
<1>0. CorpusOK
  BY DEF TypeOK, CorpusOK
<1>1. CASE Ingest
  BY <1>0, <1>1 DEF Ingest, CorpusOK
<1>2. ASSUME NEW r \in Runs, Select(r), UNCHANGED corpus
      PROVE  CorpusOK'
  BY <1>0, <1>2 DEF Select, CorpusOK
<1>3. CASE \E r \in Runs :
             /\ Step(r)
             /\ sight' = [q \in Runs |-> IF q \in Alive' THEN sight[q] ELSE {}]
             /\ UNCHANGED corpus
  BY <1>0, <1>3 DEF CorpusOK
<1>4. CASE UNCHANGED vars
  BY <1>0, <1>4 DEF vars, CorpusOK
<1> QED
  BY <1>1, <1>2, <1>3, <1>4 DEF Next

\* What a run has seen there is set by its selection, and stays while it works.
LEMMA SightFacts ==
    ASSUME TypeOK, [Next]_vars, NEW q \in Runs, pc'[q] \in {"next", "vectors"}
    PROVE  /\ Select(q) => sight'[q] = corpus
           /\ ~ Select(q) => sight'[q] = sight[q]
<1>1. Select(q) => sight'[q] = corpus
  BY DEF Select, TypeOK
<1>2. CASE Ingest \/ UNCHANGED vars
  BY <1>1, <1>2 DEF Ingest, vars
<1>3. ASSUME NEW r \in Runs, Select(r), ~ Select(q)
      PROVE  sight'[q] = sight[q]
  BY <1>3 DEF Select, TypeOK
<1>4. CASE sight' = [p \in Runs |-> IF p \in Alive' THEN sight[p] ELSE {}]
  BY <1>1, <1>4 DEF Alive
<1> QED
  BY <1>1, <1>2, <1>3, <1>4 DEF Next

\* A row that was never inserted is a row.
LEMMA NoRowType == NoRow \in Rows /\ Nothing.text = None /\ Nothing.error = None
                   /\ Nothing.parts = 0 /\ NoRow.status = "none" /\ NoRow.seen = 0
                   /\ NoRow.done = 0 /\ NoRow.skipped = 0 /\ NoRow.failed = 0
BY DEF NoRow, Rows, Nothing

\* What a session may hold.
Holdings == [text: Texts \cup {None}, error: Errors \cup {None}, parts: Nat]
LEMMA NothingType == Nothing \in Holdings
BY DEF Nothing, Holdings

\* The papers of a set of loaded rows.
LEMMA PapersOfLoaded ==
    ASSUME NEW S \in SUBSET Loaded
    PROVE  PapersOf(S) \subseteq Papers
BY DEF PapersOf, Loaded

\* Parts of the papers can be counted.
LEMMA PapersAreFinite ==
    ASSUME NEW S \in SUBSET Papers
    PROVE  IsFiniteSet(S) /\ Cardinality(S) \in Nat
BY PapersAssumption, FS_Subset, FS_CardinalityType

\* A selection has loaded rows, and a chunking run has texts.
LEMMA LackingType ==
    ASSUME TypeOK, NEW r \in Runs
    PROVE  /\ Lacking(r) \subseteq Loaded
           /\ \A x, y \in Lacking(r) : x.paper = y.paper => x = y
           /\ Is(r, "fetch") => \A x \in Lacking(r) : arg[r].force \/ text[x.paper] = None
           /\ Is(r, "chunk") => \A x \in Lacking(r) :
                 x.text = text[x.paper] /\ x.text # None /\ x.paper \notin PapersOf(chunks)
           /\ Is(r, "embed") => \A x \in Lacking(r) : vector[x.paper] = None
           /\ PapersOf(Lacking(r)) \subseteq corpus
<1>1. arg[r].kind \in Kinds
  BY DEF TypeOK
<1>2. CASE Is(r, "fetch")
  <2>1. Lacking(r) = Unfetched(r)
    BY <1>2 DEF Lacking, Is
  <2> QED
    BY <1>2, <2>1, PapersAssumption DEF Unfetched, Plain, Loaded, Is, PapersOf
<1>3. CASE Is(r, "chunk")
  <2>1. Lacking(r) = Unchunked(r)
    BY <1>3 DEF Lacking, Is
  <2> QED
    BY <1>3, <2>1 DEF Unchunked, WithText, Loaded, Is, TypeOK, PapersOf
<1>4. CASE Is(r, "embed")
  <2>1. Lacking(r) = Unembedded(r)
    BY <1>4 DEF Lacking, Is
  <2> QED
    BY <1>4, <2>1 DEF Unembedded, Plain, Loaded, Is, TypeOK, PapersOf
<1> QED
  BY <1>1, <1>2, <1>3, <1>4 DEF Kinds, Is

-----------------------------------------------------------------------------
(* Types.                                                                  *)

Places == {"off", "open", "select", "next", "store", "save", "cut", "vectors", "end", "killed"}

\* The start of a process keeps the types.
LEMMA StartTypes ==
    ASSUME TypeOK, NEW r \in Runs, NEW kind \in Kinds, NEW force \in BOOLEAN,
           NEW where \in Places, Starts(r, kind, force, where)
    PROVE  /\ arg' \in [Runs -> [kind: Kinds, force: BOOLEAN, limit: Nat]]
           /\ pc' \in [Runs -> Places]
           /\ met' \in [Runs -> SUBSET Runs]
<1>1. PICK limit \in Limits :
        arg' = [arg EXCEPT ![r] = [kind |-> kind, force |-> force, limit |-> limit]]
  BY DEF Starts
<1>2. limit \in Nat
  BY BoundsAssumption
<1>3. arg' \in [Runs -> [kind: Kinds, force: BOOLEAN, limit: Nat]]
  BY <1>1, <1>2 DEF TypeOK
<1>4. pc' \in [Runs -> Places]
  BY DEF Starts, TypeOK, Places
<1>5. met' \in [Runs -> SUBSET Runs]
  BY DEF Starts, TypeOK, Alive
<1> QED
  BY <1>3, <1>4, <1>5

\* The insertion of its row does, too.
LEMMA OpensTypes ==
    ASSUME TypeOK, NEW r \in Runs, Opens(r)
    PROVE  row' \in [Runs -> Rows] /\ run' \in [Runs -> Rows]
<1> DEFINE opened == [row[r] EXCEPT !.status = "running"]
<1>1. opened \in Rows
  <2>1. row[r] \in Rows
    BY DEF TypeOK
  <2> QED
    BY <2>1 DEF Rows
<1>2. row' = [row EXCEPT ![r] = opened] /\ run' = [run EXCEPT ![r] = row'[r]]
  BY DEF Opens
<1> HIDE DEF opened
<1>3. row' \in [Runs -> Rows]
  BY <1>1, <1>2 DEF TypeOK
<1> QED
  BY <1>2, <1>3 DEF TypeOK

LEMMA LaunchTypes ==
    ASSUME TypeOK, CorpusOK', NEW r \in Runs, Launch(r)
    PROVE  TypeOK'
<1>1. CASE \E force \in BOOLEAN : BeginFetch(r, force)
  BY <1>1, StartTypes, OpensTypes DEF BeginFetch, Kinds, Places, TypeOK, CorpusOK, Starts
<1>2. CASE \E force \in BOOLEAN : BeginChunk(r, force)
  BY <1>2, StartTypes DEF BeginChunk, Kinds, Places, TypeOK, CorpusOK, Starts
<1>3. CASE BeginEmbed(r)
  BY <1>3, StartTypes, OpensTypes DEF BeginEmbed, Kinds, Places, TypeOK, CorpusOK, Starts
<1>4. CASE Reset(r)
  BY <1>4, StartTypes DEF Reset, Kinds, Places, TypeOK, CorpusOK, Starts
<1> QED
  BY <1>1, <1>2, <1>3, <1>4 DEF Launch

\* So does its end.
LEMMA EndsTypes ==
    ASSUME TypeOK, NEW r \in Runs, NEW how \in {"end", "killed"}, Ends(r, how)
    PROVE  /\ pc' \in [Runs -> Places]
           /\ todo' \in [Runs -> SUBSET Loaded] /\ batch' \in [Runs -> SUBSET Loaded]
           /\ run' \in [Runs -> Rows]
           /\ found' \in [Runs -> Texts \cup {None}]
           /\ hold' \in [Runs -> Holdings]
           /\ UNCHANGED <<arg, met>>
BY NoRowType, NothingType DEF TypeOK, Ends, Places, Holdings

\* Rows whose status or counters change are rows.
LEMMA RowUpdates ==
    ASSUME NEW c \in Rows, NEW n \in Nat
    PROVE  /\ [c EXCEPT !.status = "completed"] \in Rows
           /\ [c EXCEPT !.status = "failed"] \in Rows
           /\ [c EXCEPT !.seen = @ + 1] \in Rows
           /\ [c EXCEPT !.skipped = @ + 1] \in Rows
           /\ [c EXCEPT !.skipped = @ + n] \in Rows
           /\ [c EXCEPT !.failed = @ + 1] \in Rows
           /\ [c EXCEPT !.done = @ + 1] \in Rows
           /\ [c EXCEPT !.done = @ + n] \in Rows
BY DEF Rows

\* Taking up a paper of a fetch keeps the types.
LEMMA TakeUpTypes ==
    ASSUME TypeOK, CorpusOK', NEW r \in Runs, NEW x \in todo[r], NEW counter \in Rows,
           NEW kept \in Holdings, TakeUp(r, x, counter, kept),
           pc' \in [Runs -> Places], found' \in [Runs -> Texts \cup {None}]
    PROVE  TypeOK'
BY DEF TakeUp, TypeOK, CorpusOK, tables, Holdings, Places

\* Every step keeps the types.
LEMMA TypeStep ==
    ASSUME IInv, [Next]_vars
    PROVE  TypeOK'
<1> USE DEF Places
<1>a. TypeOK
  BY DEF IInv
<1>b. CorpusOK'
  BY <1>a, CorpusTypes
<1>0. TypeOK /\ CorpusOK'
  BY <1>a, <1>b
<1>1. ASSUME NEW r \in Runs, Launch(r)
      PROVE  TypeOK'
  BY <1>0, <1>1, LaunchTypes
<1>2. ASSUME NEW r \in Runs, OpenAfterReset(r)
      PROVE  TypeOK'
  BY <1>0, <1>2, OpensTypes DEF OpenAfterReset, TypeOK, CorpusOK
<1>3. ASSUME NEW r \in Runs, Select(r)
      PROVE  TypeOK'
  <2>1. Lacking(r) \subseteq Loaded
    BY <1>0, LackingType
  <2> QED
    BY <1>0, <1>3, <2>1 DEF Select, TypeOK, CorpusOK, tables
<1>4. ASSUME NEW r \in Runs, Finish(r)
      PROVE  TypeOK'
  <2>1. row' \in [Runs -> Rows]
    <3>1. run[r] \in Rows
      BY <1>0 DEF TypeOK, CorpusOK
    <3>2. [run[r] EXCEPT !.status = "completed"] \in Rows
      BY <3>1, RowUpdates
    <3> QED
      BY <1>0, <1>4, <3>2 DEF Finish, TypeOK, CorpusOK
  <2> QED
    BY <1>0, <1>4, <2>1, EndsTypes DEF Finish, TypeOK, CorpusOK, Holdings
<1>5. ASSUME NEW r \in Runs, Kill(r)
      PROVE  TypeOK'
  BY <1>0, <1>5, EndsTypes DEF Kill, TypeOK, CorpusOK, tables, Holdings
<1>6. ASSUME NEW r \in Runs, Skip(r)
      PROVE  TypeOK'
  <2>1. [run[r] EXCEPT !.skipped = @ + 1] \in Rows
    BY <1>0, RowUpdates DEF TypeOK, CorpusOK
  <2> QED
    <3>1. PICK x \in todo[r] :
            /\ TakeUp(r, x, [run[r] EXCEPT !.skipped = @ + 1], Nothing)
            /\ pc' = [pc EXCEPT ![r] = "save"]
            /\ UNCHANGED found
      BY <1>6 DEF Skip
    <3>2. pc' \in [Runs -> Places] /\ found' \in [Runs -> Texts \cup {None}]
      BY <1>0, <3>1 DEF TypeOK, CorpusOK
    <3> QED
      BY <1>0, <2>1, <3>1, <3>2, TakeUpTypes, NothingType
<1>7. ASSUME NEW r \in Runs, FetchFails(r)
      PROVE  TypeOK'
  <2>1. [run[r] EXCEPT !.failed = @ + 1] \in Rows
    BY <1>0, RowUpdates DEF TypeOK, CorpusOK
  <2>2. \A e \in {"fetch_error", "parse_error"} : [Nothing EXCEPT !.error = e] \in Holdings
    BY DEF Nothing, Holdings, Errors
  <2> QED
    <3>1. PICK x \in todo[r], e \in {"fetch_error", "parse_error"} :
            /\ TakeUp(r, x, [run[r] EXCEPT !.failed = @ + 1], [Nothing EXCEPT !.error = e])
            /\ pc' = [pc EXCEPT ![r] = "save"]
            /\ UNCHANGED found
      BY <1>7 DEF FetchFails
    <3>2. pc' \in [Runs -> Places] /\ found' \in [Runs -> Texts \cup {None}]
      BY <1>0, <3>1 DEF TypeOK, CorpusOK
    <3> QED
      BY <1>0, <2>1, <2>2, <3>1, <3>2, TakeUpTypes
<1>8. ASSUME NEW r \in Runs, Fetched(r)
      PROVE  TypeOK'
  <2>1. run[r] \in Rows
    BY <1>0 DEF TypeOK, CorpusOK
  <2>2. \A t \in Texts : [Nothing EXCEPT !.text = t] \in Holdings
    BY DEF Nothing, Holdings
  <2>3. PICK x \in todo[r], t \in Texts :
          /\ TakeUp(r, x, run[r], [Nothing EXCEPT !.text = t])
          /\ found' = [found EXCEPT ![r] = text[x.paper]]
          /\ pc' = [pc EXCEPT ![r] = "store"]
    BY <1>8 DEF Fetched
  <2>4. text[x.paper] \in Texts \cup {None}
    BY <1>0, <2>3 DEF TypeOK, CorpusOK, Loaded
  <2>5. /\ found' \in [Runs -> Texts \cup {None}]
        /\ pc' \in [Runs -> Places]
    BY <1>0, <2>3, <2>4 DEF TypeOK, CorpusOK
  <2> QED
    BY <1>0, <2>1, <2>2, <2>3, <2>5, TakeUpTypes
<1>9. ASSUME NEW r \in Runs, Store(r)
      PROVE  TypeOK'
  <2>1. run[r] \in Rows /\ hold[r] \in Holdings
    BY <1>0 DEF TypeOK, CorpusOK, Holdings
  <2>2. [run[r] EXCEPT !.done = @ + 1] \in Rows
    BY <2>1, RowUpdates
  <2> DEFINE kept == [hold[r] EXCEPT !.text = IF @ = found[r] THEN None ELSE @]
  <2>3. kept \in Holdings
    BY <2>1 DEF Holdings
  <2>4. hold' = [hold EXCEPT ![r] = kept]
    BY <1>9 DEF Store
  <2> HIDE DEF kept
  <2>5. run' \in [Runs -> Rows]
    BY <1>0, <1>9, <2>2 DEF Store, TypeOK, CorpusOK
  <2>6. hold' \in [Runs -> Holdings]
    BY <1>0, <2>3, <2>4 DEF TypeOK, CorpusOK, Holdings
  <2> QED
    BY <1>0, <1>9, <2>5, <2>6 DEF Store, TypeOK, CorpusOK, tables, Holdings
<1>10. ASSUME NEW r \in Runs, Refused(r)
       PROVE  TypeOK'
  <2>1. [row[r] EXCEPT !.failed = @ + 1] \in Rows
    BY <1>0, RowUpdates DEF TypeOK, CorpusOK
  <2>2. [Nothing EXCEPT !.error = "persist_error"] \in Holdings
    BY DEF Nothing, Holdings, Errors
  <2> QED
    BY <1>0, <1>10, <2>1, <2>2 DEF Refused, TypeOK, CorpusOK, tables, Holdings
<1>11. ASSUME NEW r \in Runs, Save(r)
       PROVE  TypeOK'
  <2>1. [run[r] EXCEPT !.seen = @ + 1] \in Rows
    BY <1>0, RowUpdates DEF TypeOK, CorpusOK
  <2>2. run' \in [Runs -> Rows] /\ row' \in [Runs -> Rows]
    BY <1>0, <1>11, <2>1 DEF Save, TypeOK, CorpusOK
  <2>3. hold[r] \in Holdings /\ PapersOf(batch[r]) \subseteq Papers
    BY <1>0, PapersOfLoaded DEF TypeOK, CorpusOK, Holdings
  <2>4. text' \in [Papers -> Texts \cup {None}]
    BY <1>0, <1>11, <2>3 DEF Save, TypeOK, CorpusOK, Holdings
  <2>5. Logged(r) \subseteq [by: Runs, paper: Papers, kind: Errors]
    BY <2>3 DEF Logged, Holdings
  <2>6. hold' \in [Runs -> Holdings]
    BY <1>0, <1>11, NothingType DEF Save, TypeOK, CorpusOK, Holdings
  <2> QED
    BY <1>0, <1>11, <2>2, <2>4, <2>5, <2>6 DEF Save, TypeOK, CorpusOK, Holdings
<1>12. ASSUME NEW r \in Runs, RollsBack(r)
       PROVE  TypeOK'
  <2>1. [row[r] EXCEPT !.status = "failed"] \in Rows
    BY <1>0, RowUpdates DEF TypeOK, CorpusOK
  <2>2. row' \in [Runs -> Rows]
    BY <1>0, <1>12, <2>1 DEF RollsBack, TypeOK, CorpusOK
  <2> QED
    BY <1>0, <1>12, <2>2, EndsTypes DEF RollsBack, TypeOK, CorpusOK, Holdings
<1>13. ASSUME NEW r \in Runs, TakeText(r)
       PROVE  TypeOK'
  BY <1>0, <1>13 DEF TakeText, TypeOK, CorpusOK, tables
<1>14. ASSUME NEW r \in Runs, AddPart(r)
       PROVE  TypeOK'
  <2> DEFINE kept == [hold[r] EXCEPT !.parts = @ + 1]
  <2>1. kept \in Holdings
    <3>1. hold[r] \in Holdings
      BY <1>0 DEF TypeOK, CorpusOK, Holdings
    <3> QED
      BY <3>1 DEF Holdings
  <2>2. hold' = [hold EXCEPT ![r] = kept]
    BY <1>14 DEF AddPart
  <2> HIDE DEF kept
  <2>3. hold' \in [Runs -> Holdings]
    BY <1>0, <2>1, <2>2 DEF TypeOK, Holdings
  <2> QED
    BY <1>0, <1>14, <2>3 DEF AddPart, TypeOK, CorpusOK, tables, Holdings
<1>15. ASSUME NEW r \in Runs, CutFails(r)
       PROVE  TypeOK'
  BY <1>0, <1>15, EndsTypes DEF CutFails, TypeOK, CorpusOK, tables, Holdings
<1>16. ASSUME NEW r \in Runs, SaveChunks(r)
       PROVE  TypeOK'
  <2>1. \A x \in batch[r] : x \in Loaded /\ x.text # None
    BY <1>0, <1>16 DEF SaveChunks, IInv, KindsFit, ChunkWorkIsFresh, InHand, TypeOK, CorpusOK
  <2>2. hold[r].parts \in Nat
    BY <1>0 DEF TypeOK, CorpusOK
  <2>3. Cut(r, hold[r].parts) \subseteq [paper: Papers, text: Texts, part: Nat, by: Runs]
    BY <2>1, <2>2 DEF Cut, Loaded
  <2>4. hold' \in [Runs -> Holdings]
    BY <1>0, <1>16, NothingType DEF SaveChunks, TypeOK, CorpusOK, Holdings
  <2> QED
    BY <1>0, <1>16, <2>3, <2>4 DEF SaveChunks, TypeOK, CorpusOK, Holdings
<1>17. ASSUME NEW r \in Runs, TakeBatch(r)
       PROVE  TypeOK'
  <2>1. PICK S \in SUBSET todo[r] :
          /\ todo' = [todo EXCEPT ![r] = @ \ S]
          /\ batch' = [batch EXCEPT ![r] = S]
          /\ run' = [run EXCEPT ![r].skipped = @ + Cardinality(PapersOf(S) \cap Untitled)]
    BY <1>17 DEF TakeBatch
  <2>2. S \in SUBSET Loaded
    BY <1>0, <2>1 DEF TypeOK, CorpusOK
  <2>3. Cardinality(PapersOf(S) \cap Untitled) \in Nat
    BY <2>2, PapersOfLoaded, PapersAreFinite
  <2> DEFINE counted == [run[r] EXCEPT !.skipped = @ + Cardinality(PapersOf(S) \cap Untitled)]
  <2>4. counted \in Rows
    BY <1>0, <2>3, RowUpdates DEF TypeOK, CorpusOK
  <2>5. run' = [run EXCEPT ![r] = counted]
    BY <2>1
  <2> HIDE DEF counted
  <2>6. run' \in [Runs -> Rows]
    BY <1>0, <2>4, <2>5 DEF TypeOK, CorpusOK
  <2>7. todo' \in [Runs -> SUBSET Loaded] /\ batch' \in [Runs -> SUBSET Loaded]
    BY <1>0, <2>1, <2>2 DEF TypeOK, CorpusOK
  <2> QED
    BY <1>0, <1>17, <2>6, <2>7 DEF TakeBatch, TypeOK, CorpusOK, tables
<1>18. ASSUME NEW r \in Runs, VectorsFail(r)
       PROVE  TypeOK'
  <2>1. [run[r] EXCEPT !.status = "failed"] \in Rows
    BY <1>0, RowUpdates DEF TypeOK, CorpusOK
  <2>2. row' \in [Runs -> Rows]
    BY <1>0, <1>18, <2>1 DEF VectorsFail, TypeOK, CorpusOK
  <2> QED
    BY <1>0, <1>18, <2>2, EndsTypes DEF VectorsFail, TypeOK, CorpusOK, Holdings
<1>19. ASSUME NEW r \in Runs, SaveVectors(r)
       PROVE  TypeOK'
  <2>1. Cardinality(Embeddable(r)) \in Nat
    BY <1>0, PapersOfLoaded, PapersAreFinite DEF Embeddable, TypeOK, CorpusOK
  <2> DEFINE counted == [run[r] EXCEPT !.done = @ + Cardinality(Embeddable(r))]
  <2>2. counted \in Rows
    BY <1>0, <2>1, RowUpdates DEF TypeOK, CorpusOK
  <2>3. run' = [run EXCEPT ![r] = counted] /\ row' = [row EXCEPT ![r] = run'[r]]
    BY <1>19 DEF SaveVectors
  <2> HIDE DEF counted
  <2>4. run' \in [Runs -> Rows] /\ row' \in [Runs -> Rows]
    BY <1>0, <2>2, <2>3 DEF TypeOK, CorpusOK
  <2> QED
    BY <1>0, <1>19, <2>4 DEF SaveVectors, TypeOK, CorpusOK
<1>20. ASSUME NEW r \in Runs, HandlerFails(r)
       PROVE  TypeOK'
  BY <1>0, <1>20, EndsTypes DEF HandlerFails, TypeOK, CorpusOK, tables, Holdings
<1>21. CASE Quiet
  BY <1>0, <1>21 DEF Quiet, tables, work, TypeOK, CorpusOK
<1> QED
  BY <1>1, <1>2, <1>3, <1>4, <1>5, <1>6, <1>7, <1>8, <1>9, <1>10, <1>11, <1>12, <1>13,
     <1>14, <1>15, <1>16, <1>17, <1>18, <1>19, <1>20, <1>21, NextIsLaunchOrMove DEF Move

-----------------------------------------------------------------------------
(* How runs move.                                                          *)

\* What a process was started with stays; what it met grows; a row stays.
Onward ==
    /\ \A r \in Runs : met[r] \subseteq met'[r]
    /\ \A r \in Runs : pc[r] # "off" => arg'[r] = arg[r] /\ pc'[r] # "off"
    /\ \A r \in Runs : row[r].status # "none" => row'[r].status # "none"

\* What every start does.
LEMMA LaunchFacts ==
    ASSUME NEW r \in Runs, Launch(r)
    PROVE  /\ pc[r] = "off"
           /\ met' = [q \in Runs |-> IF q = r THEN Alive
                                     ELSE IF q \in Alive THEN met[q] \cup {r} ELSE met[q]]
           /\ \E where \in {"open", "select"} : pc' = [pc EXCEPT ![r] = where]
           /\ \E a : arg' = [arg EXCEPT ![r] = a]
           /\ UNCHANGED <<text, errors, todo, batch, found, hold>>
BY DEF Launch, BeginFetch, BeginChunk, BeginEmbed, Reset, Starts

LEMMA OnwardStep ==
    ASSUME IInv, [Next]_vars
    PROVE  Onward
<1>0. TypeOK /\ KindsFit
  BY DEF IInv
<1>1. ASSUME NEW r \in Runs, Launch(r)
      PROVE  Onward
  <2>1. pc[r] = "off" /\ met[r] = {} /\ row[r] = NoRow
    BY <1>0, <1>1 DEF Launch, BeginFetch, BeginChunk, BeginEmbed, Reset, Starts, KindsFit
  <2>2. \A q \in Runs : row[q].status # "none" => row'[q] = row[q]
    BY <1>0, <1>1, <2>1, NoRowType
       DEF Launch, BeginFetch, BeginChunk, BeginEmbed, Reset, Opens, TypeOK
  <2>3. \A q \in Runs : q # r => arg'[q] = arg[q] /\ pc'[q] = pc[q]
    BY <1>0, <1>1 DEF Launch, BeginFetch, BeginChunk, BeginEmbed, Reset, Starts, TypeOK
  <2>4. \A q \in Runs : met[q] \subseteq met'[q]
    <3>1. met' = [q \in Runs |-> IF q = r THEN Alive
                                 ELSE IF q \in Alive THEN met[q] \cup {r} ELSE met[q]]
      BY <1>1, LaunchFacts
    <3> QED
      BY <2>1, <3>1
  <2> QED
    BY <2>1, <2>2, <2>3, <2>4 DEF Onward
<1>2. ASSUME NEW r \in Runs, OpenAfterReset(r)
      PROVE  Onward
  <2>1. row'[r].status = "running"
    BY <1>0, <1>2 DEF OpenAfterReset, Opens, TypeOK, Rows
  <2> QED
    BY <1>0, <1>2, <2>1 DEF OpenAfterReset, Opens, TypeOK, Onward
<1>3. ASSUME NEW r \in Runs, Select(r) \/ Kill(r) \/ Skip(r) \/ FetchFails(r) \/ Fetched(r)
                             \/ Store(r) \/ Refused(r) \/ TakeText(r) \/ AddPart(r)
                             \/ CutFails(r) \/ SaveChunks(r) \/ TakeBatch(r) \/ HandlerFails(r)
      PROVE  Onward
  <2>1. UNCHANGED <<row, arg, met>>
    BY <1>3 DEF Select, Kill, Skip, FetchFails, Fetched, TakeUp, Store, Refused, TakeText,
                AddPart, CutFails, SaveChunks, TakeBatch, HandlerFails, Ends, tables
  <2>2. \A q \in Runs : pc[q] # "off" => pc'[q] # "off"
    BY <1>0, <1>3 DEF Select, Kill, Skip, FetchFails, Fetched, TakeUp, Store, Refused, TakeText,
                AddPart, CutFails, SaveChunks, TakeBatch, HandlerFails, Ends, tables, TypeOK
  <2> QED
    BY <2>1, <2>2 DEF Onward
<1>4. ASSUME NEW r \in Runs, Finish(r) \/ RollsBack(r) \/ VectorsFail(r)
      PROVE  Onward
  <2>1. /\ UNCHANGED <<arg, met>>
        /\ \A q \in Runs : pc[q] # "off" => pc'[q] # "off"
    BY <1>0, <1>4 DEF Finish, RollsBack, VectorsFail, Ends, TypeOK
  <2>2. \A q \in Runs : row[q].status # "none" => row'[q].status # "none"
    <3>1. row[r] \in Rows /\ run[r] \in Rows
      BY <1>0 DEF TypeOK
    <3>2. CASE Finish(r)
      BY <1>0, <3>1, <3>2 DEF Finish, TypeOK, Rows
    <3>3. CASE RollsBack(r)
      BY <1>0, <3>1, <3>3 DEF RollsBack, TypeOK, Rows
    <3>4. CASE VectorsFail(r)
      BY <1>0, <3>1, <3>4 DEF VectorsFail, TypeOK, Rows
    <3> QED
      BY <1>4, <3>2, <3>3, <3>4
  <2> QED
    BY <2>1, <2>2 DEF Onward
<1>5. ASSUME NEW r \in Runs, Save(r) \/ SaveVectors(r)
      PROVE  Onward
  <2>1. /\ UNCHANGED <<arg, met>>
        /\ \A q \in Runs : pc[q] # "off" => pc'[q] # "off"
    BY <1>0, <1>5 DEF Save, SaveVectors, TypeOK
  <2>2. run[r].status = "running"
    BY <1>0, <1>5 DEF Save, SaveVectors, KindsFit, Alive, Is
  <2>3. row'[r].status = run[r].status /\ \A q \in Runs : q # r => row'[q] = row[q]
    <3>1. run[r] \in Rows
      BY <1>0 DEF TypeOK
    <3> QED
      BY <1>0, <1>5, <3>1 DEF Save, SaveVectors, TypeOK, Rows
  <2> QED
    BY <2>1, <2>2, <2>3 DEF Onward
<1>6. CASE Quiet
  BY <1>6 DEF Quiet, tables, work, Onward
<1> QED
  BY <1>1, <1>2, <1>3, <1>4, <1>5, <1>6, NextIsLaunchOrMove DEF Move

\* A process that moves is alive, and changes only what is its own.
LEMMA MoveFacts ==
    ASSUME TypeOK, NEW r \in Runs, Move(r)
    PROVE  /\ r \in Alive
           /\ UNCHANGED <<arg, met>>
           /\ \A q \in Runs \ {r} :
                 /\ pc'[q] = pc[q] /\ row'[q] = row[q] /\ run'[q] = run[q]
                 /\ todo'[q] = todo[q] /\ batch'[q] = batch[q]
                 /\ hold'[q] = hold[q] /\ found'[q] = found[q]
           /\ pc'[r] # "off"
           /\ Alive' \subseteq Alive
<1>1. /\ r \in Alive
      /\ UNCHANGED <<arg, met>>
      /\ pc'[r] # "off"
  BY DEF Move, OpenAfterReset, Select, Finish, Kill, Skip, FetchFails, Fetched, TakeUp, Store,
         Refused, Save, RollsBack, TakeText, AddPart, CutFails, SaveChunks, TakeBatch,
         VectorsFail, SaveVectors, HandlerFails, Ends, Alive, TypeOK
<1> DEFINE Rest == \A q \in Runs \ {r} :
                 /\ pc'[q] = pc[q] /\ row'[q] = row[q] /\ run'[q] = run[q]
                 /\ todo'[q] = todo[q] /\ batch'[q] = batch[q]
                 /\ hold'[q] = hold[q] /\ found'[q] = found[q]
<1>2. Rest
  <2>1. CASE OpenAfterReset(r) \/ Select(r) \/ Finish(r) \/ Kill(r)
    BY <2>1 DEF OpenAfterReset, Opens, Select, Finish, Ends, Kill, TypeOK, tables, work
  <2>2. CASE Skip(r) \/ FetchFails(r) \/ Fetched(r) \/ Store(r) \/ Refused(r)
    BY <2>2 DEF Skip, TakeUp, FetchFails, Fetched, Store, Refused, TypeOK, tables, work
  <2>3. CASE Save(r) \/ RollsBack(r)
    <3>1. CASE Save(r)
      BY <3>1 DEF Save, TypeOK
    <3>2. CASE RollsBack(r)
      BY <3>2 DEF RollsBack, Ends, TypeOK
    <3> QED
      BY <2>3, <3>1, <3>2
  <2>4. CASE TakeText(r) \/ AddPart(r) \/ CutFails(r) \/ SaveChunks(r)
    <3>1. CASE TakeText(r)
      BY <3>1 DEF TakeText, TypeOK, tables
    <3>3. CASE AddPart(r)
      BY <3>3 DEF AddPart, TypeOK, tables
    <3>2. CASE CutFails(r) \/ SaveChunks(r)
      BY <3>2 DEF CutFails, Ends, SaveChunks, TypeOK, tables
    <3> QED
      BY <2>4, <3>1, <3>2, <3>3
  <2>5. CASE TakeBatch(r) \/ VectorsFail(r) \/ SaveVectors(r) \/ HandlerFails(r)
    <3>1. CASE TakeBatch(r) \/ SaveVectors(r)
      BY <3>1 DEF TakeBatch, SaveVectors, TypeOK, tables
    <3>2. CASE VectorsFail(r) \/ HandlerFails(r)
      BY <3>2 DEF VectorsFail, Ends, HandlerFails, TypeOK, tables
    <3> QED
      BY <2>5, <3>1, <3>2
  <2> QED
    BY <2>1, <2>2, <2>3, <2>4, <2>5 DEF Move
<1>5. Alive' \subseteq Alive
  BY <1>1, <1>2 DEF Alive
<1> QED
  BY <1>1, <1>2, <1>5

\* Two runs that are alive have met, and meeting is mutual.
LEMMA MeetingStep ==
    ASSUME IInv, [Next]_vars
    PROVE  MeetingIsMutual'
<1>0. TypeOK /\ MeetingIsMutual
  BY DEF IInv
<1>1. ASSUME NEW r \in Runs, Launch(r)
      PROVE  MeetingIsMutual'
  <2>1. /\ pc[r] = "off"
        /\ met' = [q \in Runs |-> IF q = r THEN Alive
                                  ELSE IF q \in Alive THEN met[q] \cup {r} ELSE met[q]]
        /\ \A q \in Runs : q # r => pc'[q] = pc[q]
        /\ pc'[r] # "off"
    BY <1>0, <1>1, LaunchFacts DEF TypeOK
  <2>2. \A q \in Runs : r \notin met[q]
    BY <1>0, <2>1 DEF MeetingIsMutual
  <2>3. Alive' \subseteq Alive \cup {r} /\ r \notin Alive /\ Alive \subseteq Runs
    BY <2>1 DEF Alive
  <2>4. \A q, s \in Runs : q \in met'[s] => s \in met'[q] /\ q # s /\ pc'[q] # "off"
    <3> SUFFICES ASSUME NEW q \in Runs, NEW s \in Runs, q \in met'[s]
                 PROVE  s \in met'[q] /\ q # s /\ pc'[q] # "off"
      OBVIOUS
    <3>1. CASE s = r
      BY <2>1, <2>3, <3>1 DEF Alive
    <3>2. CASE s # r /\ q = r
      BY <2>1, <2>2, <2>3, <3>2
    <3>3. CASE s # r /\ q # r
      <4>1. q \in met[s]
        BY <2>1, <3>3
      <4> QED
        BY <1>0, <2>1, <3>3, <4>1 DEF MeetingIsMutual
    <3> QED
      BY <3>1, <3>2, <3>3
  <2>5. \A q, s \in Alive' : q # s => q \in met'[s]
    BY <1>0, <2>1, <2>3 DEF MeetingIsMutual
  <2> QED
    BY <2>4, <2>5 DEF MeetingIsMutual
<1>2. ASSUME NEW r \in Runs, Move(r)
      PROVE  MeetingIsMutual'
  BY <1>0, <1>2, MoveFacts DEF MeetingIsMutual
<1>3. CASE Quiet
  BY <1>0, <1>3 DEF Quiet, tables, MeetingIsMutual, Alive
<1> QED
  BY <1>1, <1>2, <1>3, NextIsLaunchOrMove

\* An end leaves nothing in hand.
LEMMA EndsFacts ==
    ASSUME TypeOK, NEW r \in Runs, NEW how \in {"end", "killed"}, Ends(r, how)
    PROVE  /\ pc'[r] = how /\ todo'[r] = {} /\ batch'[r] = {}
           /\ run'[r] = NoRow /\ found'[r] = None /\ hold'[r] = Nothing
BY DEF Ends, TypeOK

\* What the actions make of the run's own work.
LEMMA OwnWork ==
    ASSUME TypeOK, NEW r \in Runs
    PROVE  /\ Finish(r) \/ RollsBack(r) \/ CutFails(r) \/ VectorsFail(r) \/ HandlerFails(r)
                  => pc'[r] = "end" /\ todo'[r] = {} /\ batch'[r] = {} /\ hold'[r] = Nothing
                     /\ run'[r] = NoRow
           /\ Kill(r) => pc'[r] = "killed" /\ todo'[r] = {} /\ batch'[r] = {}
                         /\ hold'[r] = Nothing /\ run'[r] = NoRow
           /\ OpenAfterReset(r) => pc[r] = "open" /\ pc'[r] = "select"
                         /\ todo'[r] = todo[r] /\ batch'[r] = batch[r] /\ hold'[r] = hold[r]
           /\ Select(r) => pc[r] = "select" /\ pc'[r] = "next" /\ todo'[r] \subseteq Lacking(r)
                         /\ batch'[r] = batch[r] /\ hold'[r] = hold[r] /\ run'[r] = run[r]
           /\ Skip(r) \/ FetchFails(r) \/ Fetched(r) =>
                 /\ pc[r] = "next" /\ Is(r, "fetch") /\ pc'[r] \in {"save", "store"}
                 /\ \E x \in todo[r] : todo'[r] = todo[r] \ {x} /\ batch'[r] = {x}
           /\ Store(r) \/ Refused(r) => pc[r] = "store" /\ pc'[r] = "save"
                         /\ todo'[r] = todo[r] /\ batch'[r] = batch[r]
           /\ AddPart(r) => pc[r] = "cut" /\ pc'[r] = "cut" /\ run'[r] = run[r]
                         /\ todo'[r] = todo[r] /\ batch'[r] = batch[r]
                         /\ hold'[r].text = hold[r].text /\ hold'[r].error = hold[r].error
           /\ TakeText(r) =>
                 /\ pc[r] = "next" /\ Is(r, "chunk") /\ pc'[r] = "cut" /\ run'[r] = run[r]
                 /\ \E x \in todo[r] : todo'[r] = todo[r] \ {x} /\ batch'[r] = {x}
                 /\ hold'[r] = hold[r]
           /\ TakeBatch(r) =>
                 /\ pc[r] = "next" /\ Is(r, "embed") /\ pc'[r] = "vectors"
                 /\ \E S \in SUBSET todo[r] : todo'[r] = todo[r] \ S /\ batch'[r] = S
                 /\ hold'[r] = hold[r]
           /\ Save(r) => pc[r] = "save" /\ pc'[r] = "next" /\ todo'[r] = todo[r]
                         /\ batch'[r] = {} /\ hold'[r] = Nothing
           /\ SaveChunks(r) => pc[r] = "cut" /\ pc'[r] = "next" /\ todo'[r] = todo[r]
                         /\ batch'[r] = {} /\ hold'[r] = Nothing /\ run'[r] = run[r]
           /\ SaveVectors(r) => pc[r] = "vectors" /\ pc'[r] = "next" /\ todo'[r] = todo[r]
                         /\ batch'[r] = {} /\ hold'[r] = hold[r]
<1>1. /\ Finish(r) \/ RollsBack(r) \/ CutFails(r) \/ VectorsFail(r) \/ HandlerFails(r)
                  => pc'[r] = "end" /\ todo'[r] = {} /\ batch'[r] = {} /\ hold'[r] = Nothing
                     /\ run'[r] = NoRow
      /\ Kill(r) => pc'[r] = "killed" /\ todo'[r] = {} /\ batch'[r] = {}
                         /\ hold'[r] = Nothing /\ run'[r] = NoRow
  BY EndsFacts DEF Finish, RollsBack, CutFails, VectorsFail, HandlerFails, Kill
<1>2. OpenAfterReset(r) => pc[r] = "open" /\ pc'[r] = "select"
                         /\ todo'[r] = todo[r] /\ batch'[r] = batch[r] /\ hold'[r] = hold[r]
  BY DEF OpenAfterReset, TypeOK
<1>3. Select(r) => pc[r] = "select" /\ pc'[r] = "next" /\ todo'[r] \subseteq Lacking(r)
                         /\ batch'[r] = batch[r] /\ hold'[r] = hold[r] /\ run'[r] = run[r]
  BY DEF Select, TypeOK
<1>4. Skip(r) \/ FetchFails(r) \/ Fetched(r) =>
                 /\ pc[r] = "next" /\ Is(r, "fetch") /\ pc'[r] \in {"save", "store"}
                 /\ \E x \in todo[r] : todo'[r] = todo[r] \ {x} /\ batch'[r] = {x}
  <2>1. \A x, c, k : TakeUp(r, x, c, k) =>
          /\ pc[r] = "next" /\ Is(r, "fetch") /\ x \in todo[r]
          /\ todo'[r] = todo[r] \ {x} /\ batch'[r] = {x}
    BY DEF TakeUp, TypeOK
  <2>2. Skip(r) \/ FetchFails(r) \/ Fetched(r) => pc'[r] \in {"save", "store"}
    BY DEF Skip, FetchFails, Fetched, TypeOK
  <2>3. Skip(r) \/ FetchFails(r) \/ Fetched(r) => \E x, c, k : TakeUp(r, x, c, k)
    BY DEF Skip, FetchFails, Fetched
  <2> QED
    BY <2>1, <2>2, <2>3
<1>5. Store(r) \/ Refused(r) => pc[r] = "store" /\ pc'[r] = "save"
                         /\ todo'[r] = todo[r] /\ batch'[r] = batch[r]
  BY DEF Store, Refused, TypeOK
<1>6. AddPart(r) => pc[r] = "cut" /\ pc'[r] = "cut" /\ run'[r] = run[r]
                         /\ todo'[r] = todo[r] /\ batch'[r] = batch[r]
                         /\ hold'[r].text = hold[r].text /\ hold'[r].error = hold[r].error
  BY DEF AddPart, TypeOK
<1>7. TakeText(r) =>
                 /\ pc[r] = "next" /\ Is(r, "chunk") /\ pc'[r] = "cut" /\ run'[r] = run[r]
                 /\ \E x \in todo[r] : todo'[r] = todo[r] \ {x} /\ batch'[r] = {x}
                 /\ hold'[r] = hold[r]
  BY DEF TakeText, TypeOK
<1>8. TakeBatch(r) =>
                 /\ pc[r] = "next" /\ Is(r, "embed") /\ pc'[r] = "vectors"
                 /\ \E S \in SUBSET todo[r] : todo'[r] = todo[r] \ S /\ batch'[r] = S
                 /\ hold'[r] = hold[r]
  BY DEF TakeBatch, TypeOK
<1>9. /\ Save(r) => pc[r] = "save" /\ pc'[r] = "next" /\ todo'[r] = todo[r]
                         /\ batch'[r] = {} /\ hold'[r] = Nothing
      /\ SaveChunks(r) => pc[r] = "cut" /\ pc'[r] = "next" /\ todo'[r] = todo[r]
                         /\ batch'[r] = {} /\ hold'[r] = Nothing /\ run'[r] = run[r]
      /\ SaveVectors(r) => pc[r] = "vectors" /\ pc'[r] = "next" /\ todo'[r] = todo[r]
                         /\ batch'[r] = {} /\ hold'[r] = hold[r]
  BY DEF Save, SaveChunks, SaveVectors, TypeOK
<1> QED
  BY <1>1, <1>2, <1>3, <1>4, <1>5, <1>6, <1>7, <1>8, <1>9

LEMMA WorkStep ==
    ASSUME IInv, [Next]_vars
    PROVE  WorkIsApart'
<1>0. TypeOK /\ WorkIsApart /\ TypeOK' /\ KindsFit
  BY TypeStep DEF IInv
<1> DEFINE Apart(t, b, p, h) ==
        /\ \A x, y \in t \cup b : x.paper = y.paper => x = y
        /\ t \cap b = {}
        /\ p \notin {"next", "store", "save", "cut", "vectors"} => t = {}
        /\ p \notin {"store", "save", "cut", "vectors"} => b = {}
        /\ p \in {"store", "save", "cut"} => \E x \in Loaded : b = {x}
        /\ p \notin {"store", "save"} => h.text = None
        /\ p # "save" => h.error = None
<1>1. \A q \in Runs : Apart(todo[q], batch[q], pc[q], hold[q])
  BY <1>0 DEF WorkIsApart, InHand
<1>2. SUFFICES \A q \in Runs : Apart(todo'[q], batch'[q], pc'[q], hold'[q])
  BY DEF WorkIsApart, InHand
<1>3. ASSUME NEW r \in Runs, Launch(r)
      PROVE  \A q \in Runs : Apart(todo'[q], batch'[q], pc'[q], hold'[q])
  <2>1. /\ UNCHANGED <<todo, batch, hold>> /\ pc[r] = "off"
        /\ pc'[r] \in {"open", "select"} /\ \A q \in Runs \ {r} : pc'[q] = pc[q]
    BY <1>0, <1>3, LaunchFacts DEF TypeOK
  <2> QED
    BY <1>1, <2>1
<1>4. ASSUME NEW r \in Runs, Move(r)
      PROVE  \A q \in Runs : Apart(todo'[q], batch'[q], pc'[q], hold'[q])
  <2>1. \A q \in Runs \ {r} : Apart(todo'[q], batch'[q], pc'[q], hold'[q])
    BY <1>0, <1>1, <1>4, MoveFacts
  <2>2. Apart(todo[r], batch[r], pc[r], hold[r])
    BY <1>1
  <2>3. todo[r] \subseteq Loaded
    BY <1>0 DEF TypeOK
  <2>4. Apart(todo'[r], batch'[r], pc'[r], hold'[r])
    <3>1. CASE \/ Finish(r) \/ RollsBack(r) \/ CutFails(r) \/ VectorsFail(r) \/ HandlerFails(r)
               \/ Kill(r) \/ OpenAfterReset(r)
      BY <1>0, <2>2, <3>1, OwnWork, NoRowType
    <3>2. CASE Select(r)
      BY <1>0, <2>2, <3>2, OwnWork, LackingType
    <3>3. CASE Skip(r) \/ FetchFails(r) \/ Fetched(r)
      <4>1. pc'[r] # "save" => hold'[r].error = None
        <5>1. \A x, c, k : TakeUp(r, x, c, k) => hold'[r] = k
          BY <1>0 DEF TakeUp, TypeOK
        <5>2. CASE Skip(r) \/ FetchFails(r)
          BY <1>0, <5>2 DEF Skip, FetchFails, TypeOK
        <5>3. CASE Fetched(r)
          BY <5>1, <5>3, NothingType DEF Fetched, Nothing
        <5> QED
          BY <3>3, <5>2, <5>3
      <4> QED
        BY <1>0, <2>2, <2>3, <3>3, <4>1, OwnWork
    <3>4. CASE TakeText(r) \/ TakeBatch(r)
      BY <1>0, <2>2, <2>3, <3>4, OwnWork
    <3>5. CASE Store(r) \/ Refused(r) \/ AddPart(r)
      BY <1>0, <2>2, <3>5, OwnWork
    <3>6. CASE Save(r) \/ SaveChunks(r) \/ SaveVectors(r)
      BY <1>0, <2>2, <3>6, OwnWork, NoRowType
    <3> QED
      BY <1>4, <3>1, <3>2, <3>3, <3>4, <3>5, <3>6 DEF Move
  <2> QED
    BY <2>1, <2>4
<1>5. CASE Quiet
  BY <1>1, <1>5 DEF Quiet, tables, work
<1> QED
  BY <1>3, <1>4, <1>5, NextIsLaunchOrMove

-----------------------------------------------------------------------------
(* What appears after a selection.                                         *)

\* A launch leaves texts and may empty the other layers.
LEMMA LaunchTables ==
    ASSUME NEW r \in Runs, Launch(r)
    PROVE  /\ UNCHANGED <<text, errors>>
           /\ chunks' = chunks \/ chunks' = {}
           /\ vector' = vector \/ vector' = [p \in Papers |-> None]
BY DEF Launch, BeginFetch, BeginChunk, BeginEmbed, Reset, Starts

\* Every layer is written in one place.
LEMMA MoveTables ==
    ASSUME NEW r \in Runs, Move(r)
    PROVE  /\ Save(r) \/ UNCHANGED <<text, errors>>
           /\ SaveChunks(r) \/ UNCHANGED chunks
           /\ SaveVectors(r) \/ UNCHANGED vector
BY DEF Move, OpenAfterReset, Select, Finish, Kill, Skip, FetchFails, Fetched, TakeUp, Store,
       Refused, Save, RollsBack, TakeText, AddPart, CutFails, SaveChunks, TakeBatch,
       VectorsFail, SaveVectors, HandlerFails, tables

\* Work comes from the selection only, and only runs that are alive have any.
LEMMA HandFacts ==
    ASSUME IInv
    PROVE  /\ \A r \in Runs : InHand(r) # {} => r \in Alive
           /\ \A r \in Runs : InHand(r) \subseteq Loaded
           /\ \A r \in Runs : Launch(r) => \A q \in Runs : InHand(q)' = InHand(q)
           /\ \A r \in Runs : Launch(r) => InHand(r) = {}
           /\ \A r \in Runs : Move(r) =>
                 /\ \A q \in Runs \ {r} : InHand(q)' = InHand(q)
                 /\ \/ InHand(r)' \subseteq InHand(r)
                    \/ Select(r) /\ InHand(r)' \subseteq Lacking(r)
<1>0. TypeOK /\ WorkIsApart
  BY DEF IInv
<1>1. \A r \in Runs : InHand(r) # {} => r \in Alive
  BY <1>0 DEF WorkIsApart, InHand, Alive
<1>2. \A r \in Runs : InHand(r) \subseteq Loaded
  BY <1>0 DEF TypeOK, InHand
<1>3. \A r \in Runs : Launch(r) => \A q \in Runs : InHand(q)' = InHand(q)
  BY LaunchFacts DEF InHand
<1>4. \A r \in Runs : Launch(r) => InHand(r) = {}
  BY <1>0, LaunchFacts DEF InHand, WorkIsApart
<1>5. ASSUME NEW r \in Runs, Move(r)
      PROVE  /\ \A q \in Runs \ {r} : InHand(q)' = InHand(q)
             /\ \/ InHand(r)' \subseteq InHand(r)
                \/ Select(r) /\ InHand(r)' \subseteq Lacking(r)
  <2>1. \A q \in Runs \ {r} : InHand(q)' = InHand(q)
    BY <1>0, <1>5, MoveFacts DEF InHand
  <2>2. CASE Select(r)
    BY <1>0, <2>1, <2>2, OwnWork DEF InHand, WorkIsApart
  <2>3. CASE \/ Finish(r) \/ RollsBack(r) \/ CutFails(r) \/ VectorsFail(r) \/ HandlerFails(r)
             \/ Kill(r) \/ OpenAfterReset(r)
    BY <1>0, <2>1, <2>3, OwnWork DEF InHand
  <2>4. CASE \/ Skip(r) \/ FetchFails(r) \/ Fetched(r) \/ TakeText(r) \/ TakeBatch(r)
    BY <1>0, <2>1, <2>4, OwnWork DEF InHand
  <2>5. CASE \/ Store(r) \/ Refused(r) \/ AddPart(r) \/ Save(r) \/ SaveChunks(r) \/ SaveVectors(r)
    BY <1>0, <2>1, <2>5, OwnWork DEF InHand
  <2> QED
    BY <1>5, <2>1, <2>2, <2>3, <2>4, <2>5 DEF Move
<1> QED
  BY <1>1, <1>2, <1>3, <1>4, <1>5

\* What excuses a stale chunk does not go away.
LEMMA ExcuseStays ==
    ASSUME IInv, [Next]_vars, Excused
    PROVE  Excused'
<1>0. KindsFit /\ MeetingIsMutual /\ Onward /\ TypeOK
  BY OnwardStep DEF IInv
<1>1. CASE \E f \in Runs : Is(f, "fetch") /\ row[f].status # "none" /\ arg[f].force
  <2>1. PICK f \in Runs : Is(f, "fetch") /\ row[f].status # "none" /\ arg[f].force
    BY <1>1
  <2>2. pc[f] # "off"
    BY <1>0, <2>1, NoRowType DEF KindsFit
  <2>3. arg'[f] = arg[f] /\ row'[f].status # "none"
    BY <1>0, <2>1, <2>2 DEF Onward
  <2> QED
    BY <2>1, <2>3 DEF Excused, Is
<1>2. CASE \E f \in Runs : Is(f, "fetch") /\ \E g \in met[f] : Is(g, "fetch")
  <2>0. PICK f \in Runs : Is(f, "fetch") /\ \E g \in met[f] : Is(g, "fetch")
    BY <1>2
  <2>1. PICK g \in met[f] : Is(f, "fetch") /\ Is(g, "fetch")
    BY <2>0
  <2>2. g \in Runs
    BY <1>0, <2>1 DEF TypeOK
  <2>3. pc[f] # "off" /\ pc[g] # "off"
    BY <1>0, <2>1, <2>2 DEF MeetingIsMutual
  <2>4. arg'[f] = arg[f] /\ arg'[g] = arg[g] /\ g \in met'[f]
    BY <1>0, <2>1, <2>2, <2>3 DEF Onward
  <2> QED
    BY <2>1, <2>4 DEF Excused, Is
<1> QED
  BY <1>1, <1>2 DEF Excused

\* A fetch replaces a text only with an excuse.
LEMMA TextsChangeWithExcuse ==
    ASSUME IInv, NEW r \in Runs, Save(r), NEW p \in Papers,
           text'[p] # text[p], text[p] # None
    PROVE  Excused
<1>0. TypeOK /\ KindsFit /\ FetchWorkIsFresh
  BY DEF IInv
<1>1. pc[r] = "save" /\ Is(r, "fetch") /\ row[r].status # "none"
  BY <1>0 DEF Save, KindsFit
<1>2. PICK x \in batch[r] : x.paper = p
  BY DEF Save, PapersOf
<1>3. CASE arg[r].force
  BY <1>1, <1>3 DEF Excused
<1>4. CASE ~ arg[r].force
  BY <1>0, <1>1, <1>2, <1>4 DEF FetchWorkIsFresh, InHand, Excused, Met
<1> QED
  BY <1>3, <1>4

\* The work of chunking runs stays fresh.
LEMMA ChunkWorkStep ==
    ASSUME IInv, [Next]_vars
    PROVE  ChunkWorkIsFresh'
<1>0. /\ TypeOK /\ KindsFit /\ MeetingIsMutual /\ WorkIsApart /\ ChunkWorkIsFresh
      /\ Onward
  BY OnwardStep DEF IInv
<1>1. SUFFICES ASSUME NEW q \in Runs, Is(q, "chunk")', NEW x \in InHand(q)'
               PROVE  /\ x.text # None
                      /\ x.text = text'[x.paper] \/ Excused'
                      /\ \A c \in chunks' : c.paper = x.paper => c.by \in met'[q]
  BY DEF ChunkWorkIsFresh
<1>2. Excused => Excused'
  BY ExcuseStays
<1>3. ASSUME NEW r \in Runs, Launch(r)
      PROVE  /\ x.text # None
             /\ x.text = text'[x.paper] \/ Excused'
             /\ \A c \in chunks' : c.paper = x.paper => c.by \in met'[q]
  <2>1. x \in InHand(q) /\ q # r
    BY <1>3, HandFacts
  <2>2. pc[q] # "off" /\ arg'[q] = arg[q]
    BY <1>0, <2>1, HandFacts DEF Alive, Onward
  <2>3. text' = text /\ chunks' \subseteq chunks /\ met[q] \subseteq met'[q]
    BY <1>0, <1>3, LaunchTables DEF Onward
  <2> QED
    BY <1>0, <1>1, <1>2, <2>1, <2>2, <2>3 DEF ChunkWorkIsFresh, Is
<1>4. ASSUME NEW r \in Runs, Move(r)
      PROVE  /\ x.text # None
             /\ x.text = text'[x.paper] \/ Excused'
             /\ \A c \in chunks' : c.paper = x.paper => c.by \in met'[q]
  <2>1. arg' = arg /\ met' = met /\ Is(q, "chunk")
    BY <1>0, <1>1, <1>4, MoveFacts DEF Is
  <2>2. CASE x \notin InHand(q)
    <3>1. q = r /\ Select(r) /\ x \in Lacking(r)
      BY <1>1, <1>4, <2>2, HandFacts
    <3>2. text' = text /\ chunks' = chunks
      BY <3>1 DEF Select, tables
    <3>3. \A c \in chunks : c.paper # x.paper
      BY <1>0, <2>1, <3>1, LackingType DEF PapersOf
    <3> QED
      BY <1>0, <2>1, <3>1, <3>2, <3>3, LackingType
  <2>3. CASE x \in InHand(q)
    <3>1. x \in Loaded /\ q \in Alive
      BY <2>3, HandFacts
    <3>2. /\ x.text # None
          /\ x.text = text[x.paper] \/ Excused
          /\ \A c \in chunks : c.paper = x.paper => c.by \in met[q]
      BY <1>0, <2>1, <2>3 DEF ChunkWorkIsFresh
    <3>3. x.text = text'[x.paper] \/ Excused'
      <4>1. x.paper \in Papers
        BY <3>1 DEF Loaded
      <4>2. text' = text \/ Save(r)
        BY <1>4, MoveTables
      <4> QED
        BY <1>2, <3>2, <4>1, <4>2, TextsChangeWithExcuse
    <3>4. ASSUME NEW c \in chunks', c.paper = x.paper
          PROVE  c.by \in met'[q]
      <4>1. CASE c \in chunks
        BY <2>1, <3>2, <3>4, <4>1
      <4>2. CASE c \notin chunks
        <5>1. SaveChunks(r) /\ c \in Cut(r, hold[r].parts)
          BY <1>4, <4>2, MoveTables DEF SaveChunks
        <5>2. PICK y \in batch[r] : c.paper = y.paper /\ c.by = r
          BY <5>1 DEF Cut
        <5>3. r \in Alive
          BY <1>0, <1>4, MoveFacts
        <5>4. CASE q = r
          <6>1. x \in todo[r]
            BY <1>0, <1>1, <5>1, <5>4, OwnWork DEF InHand
          <6>2. x.paper = y.paper
            BY <3>4, <5>2
          <6>3. x = y
            BY <1>0, <6>1, <6>2 DEF WorkIsApart, InHand
          <6>4. x \notin todo[r] \cap batch[r]
            BY <1>0 DEF WorkIsApart
          <6> QED
            BY <6>1, <6>3, <6>4
        <5>5. CASE q # r
          BY <1>0, <2>1, <3>1, <5>2, <5>3, <5>5 DEF MeetingIsMutual
        <5> QED
          BY <5>4, <5>5
      <4> QED
        BY <4>1, <4>2
    <3> QED
      BY <3>2, <3>3, <3>4
  <2> QED
    BY <2>2, <2>3
<1>5. CASE Quiet
  <2>1. x \in InHand(q) /\ Is(q, "chunk")
    BY <1>1, <1>5 DEF Quiet, work, InHand, Is
  <2> QED
    BY <1>0, <1>2, <1>5, <2>1 DEF Quiet, tables, ChunkWorkIsFresh
<1> QED
  BY <1>3, <1>4, <1>5, NextIsLaunchOrMove

\* A fetch that is not forced finds a text only where another fetch put it.
LEMMA FetchWorkStep ==
    ASSUME IInv, [Next]_vars
    PROVE  FetchWorkIsFresh'
<1>0. /\ TypeOK /\ KindsFit /\ MeetingIsMutual /\ WorkIsApart /\ FetchWorkIsFresh
      /\ Onward
  BY OnwardStep DEF IInv
<1>1. SUFFICES ASSUME NEW q \in Runs, Is(q, "fetch")', ~ arg'[q].force, NEW x \in InHand(q)',
                      text'[x.paper] # None
               PROVE  Met(q, "fetch")' # {}
  BY DEF FetchWorkIsFresh
<1>2. Met(q, "fetch") \subseteq Met(q, "fetch")'
  <2>1. \A g \in met[q] : g \in Runs /\ pc[g] # "off"
    BY <1>0 DEF MeetingIsMutual, TypeOK
  <2> QED
    BY <1>0, <2>1 DEF Onward, Is, Met
<1>3. ASSUME NEW r \in Runs, Launch(r)
      PROVE  Met(q, "fetch")' # {}
  <2>1. x \in InHand(q) /\ q # r
    BY <1>3, HandFacts
  <2>2. pc[q] # "off" /\ arg'[q] = arg[q]
    BY <1>0, <2>1, HandFacts DEF Alive, Onward
  <2>3. text' = text
    BY <1>3, LaunchTables
  <2> QED
    BY <1>0, <1>1, <1>2, <2>1, <2>2, <2>3 DEF FetchWorkIsFresh, Is
<1>4. ASSUME NEW r \in Runs, Move(r)
      PROVE  Met(q, "fetch")' # {}
  <2>1. arg' = arg /\ met' = met /\ Is(q, "fetch") /\ ~ arg[q].force
    BY <1>0, <1>1, <1>4, MoveFacts DEF Is
  <2>2. x \in InHand(q)
    <3> SUFFICES ASSUME x \notin InHand(q) PROVE FALSE
      OBVIOUS
    <3>1. q = r /\ Select(r) /\ x \in Lacking(r)
      BY <1>1, <1>4, HandFacts
    <3>2. text' = text
      BY <3>1 DEF Select, tables
    <3> QED
      BY <1>0, <1>1, <2>1, <3>1, <3>2, LackingType
  <2>3. x \in Loaded /\ q \in Alive
    BY <2>2, HandFacts
  <2>4. CASE text[x.paper] # None
    BY <1>0, <1>2, <2>1, <2>2, <2>4 DEF FetchWorkIsFresh
  <2>5. CASE text[x.paper] = None
    <3>1. Save(r)
      BY <1>1, <1>4, <2>5, MoveTables
    <3>2. pc[r] = "save" /\ Is(r, "fetch") /\ r \in Alive
      BY <1>0, <3>1 DEF Save, KindsFit, Alive
    <3>3. PICK y \in batch[r] : y.paper = x.paper
      BY <1>1, <2>3, <2>5, <3>1 DEF Save, PapersOf, Loaded
    <3>4. q # r
      <4> SUFFICES ASSUME q = r PROVE FALSE
        OBVIOUS
      <4>1. x \in todo[r]
        BY <1>0, <1>1, <3>1, OwnWork DEF InHand
      <4> QED
        BY <1>0, <3>3, <4>1 DEF WorkIsApart, InHand
    <3>5. r \in met[q]
      BY <1>0, <2>3, <3>2, <3>4 DEF MeetingIsMutual
    <3> QED
      BY <1>2, <3>2, <3>5 DEF Met
  <2> QED
    BY <2>4, <2>5
<1>5. CASE Quiet
  <2>1. x \in InHand(q) /\ Is(q, "fetch") /\ ~ arg[q].force /\ text[x.paper] # None
    BY <1>1, <1>5 DEF Quiet, tables, work, InHand, Is
  <2> QED
    BY <1>0, <1>2, <2>1 DEF FetchWorkIsFresh
<1> QED
  BY <1>3, <1>4, <1>5, NextIsLaunchOrMove

\* A run of vectors finds one only where another such run put it.
LEMMA VectorWorkStep ==
    ASSUME IInv, [Next]_vars
    PROVE  VectorWorkIsFresh'
<1>0. /\ TypeOK /\ KindsFit /\ MeetingIsMutual /\ WorkIsApart /\ VectorWorkIsFresh
      /\ Onward
  BY OnwardStep DEF IInv
<1>1. SUFFICES ASSUME NEW q \in Runs, Is(q, "embed")', NEW x \in InHand(q)',
                      vector'[x.paper] # None
               PROVE  vector'[x.paper] \in Met(q, "embed")'
  BY DEF VectorWorkIsFresh
<1>2. Met(q, "embed") \subseteq Met(q, "embed")'
  <2>1. \A g \in met[q] : g \in Runs /\ pc[g] # "off"
    BY <1>0 DEF MeetingIsMutual, TypeOK
  <2> QED
    BY <1>0, <2>1 DEF Onward, Is, Met
<1>3. ASSUME NEW r \in Runs, Launch(r)
      PROVE  vector'[x.paper] \in Met(q, "embed")'
  <2>1. x \in InHand(q) /\ q # r
    BY <1>3, HandFacts
  <2>2. pc[q] # "off" /\ arg'[q] = arg[q] /\ x.paper \in Papers
    BY <1>0, <2>1, HandFacts DEF Alive, Onward, Loaded
  <2>3. vector' = vector
    BY <1>1, <1>3, <2>2, LaunchTables
  <2> QED
    BY <1>0, <1>1, <1>2, <2>1, <2>2, <2>3 DEF VectorWorkIsFresh, Is
<1>4. ASSUME NEW r \in Runs, Move(r)
      PROVE  vector'[x.paper] \in Met(q, "embed")'
  <2>1. arg' = arg /\ met' = met /\ Is(q, "embed")
    BY <1>0, <1>1, <1>4, MoveFacts DEF Is
  <2>2. x \in InHand(q)
    <3> SUFFICES ASSUME x \notin InHand(q) PROVE FALSE
      OBVIOUS
    <3>1. q = r /\ Select(r) /\ x \in Lacking(r)
      BY <1>1, <1>4, HandFacts
    <3>2. vector' = vector
      BY <3>1 DEF Select, tables
    <3> QED
      BY <1>0, <1>1, <2>1, <3>1, <3>2, LackingType
  <2>3. x \in Loaded /\ x.paper \in Papers /\ q \in Alive
    BY <2>2, HandFacts DEF Loaded
  <2>4. CASE vector'[x.paper] = vector[x.paper]
    BY <1>0, <1>1, <1>2, <2>1, <2>2, <2>4 DEF VectorWorkIsFresh
  <2>5. CASE vector'[x.paper] # vector[x.paper]
    <3>1. SaveVectors(r)
      BY <1>4, <2>5, MoveTables
    <3>2. pc[r] = "vectors" /\ Is(r, "embed") /\ r \in Alive
      BY <1>0, <3>1 DEF SaveVectors, KindsFit, Alive
    <3>3. x.paper \in Embeddable(r) /\ vector'[x.paper] = r
      BY <2>3, <2>5, <3>1 DEF SaveVectors
    <3>4. PICK y \in batch[r] : y.paper = x.paper
      BY <3>3 DEF Embeddable, PapersOf
    <3>5. q # r
      <4> SUFFICES ASSUME q = r PROVE FALSE
        OBVIOUS
      <4>1. x \in todo[r]
        BY <1>0, <1>1, <3>1, OwnWork DEF InHand
      <4> QED
        BY <1>0, <3>4, <4>1 DEF WorkIsApart, InHand
    <3>6. r \in met[q]
      BY <1>0, <2>3, <3>2, <3>5 DEF MeetingIsMutual
    <3> QED
      BY <1>2, <3>2, <3>3, <3>6 DEF Met
  <2> QED
    BY <2>4, <2>5
<1>5. CASE Quiet
  <2>1. x \in InHand(q) /\ Is(q, "embed") /\ vector' = vector
    BY <1>1, <1>5 DEF Quiet, tables, work, InHand, Is
  <2> QED
    BY <1>0, <1>1, <1>2, <2>1 DEF VectorWorkIsFresh
<1> QED
  BY <1>3, <1>4, <1>5, NextIsLaunchOrMove

-----------------------------------------------------------------------------
(* Rows.                                                                   *)

\* What an action does to the row and the counters of its run.
LEMMA RowFacts ==
    ASSUME TypeOK, NEW r \in Runs
    PROVE  /\ OpenAfterReset(r) =>
                 /\ row'[r].status = "running" /\ run'[r] = row'[r]
                 /\ row'[r].done = row[r].done
           /\ Select(r) \/ TakeText(r) \/ AddPart(r) \/ SaveChunks(r) =>
                 row'[r] = row[r] /\ run'[r] = run[r]
           /\ Skip(r) => row'[r] = row[r] /\ run'[r] = [run[r] EXCEPT !.skipped = @ + 1]
           /\ FetchFails(r) => row'[r] = row[r] /\ run'[r] = [run[r] EXCEPT !.failed = @ + 1]
           /\ Fetched(r) => row'[r] = row[r] /\ run'[r] = run[r]
           /\ TakeBatch(r) => /\ row'[r] = row[r] /\ run'[r].status = run[r].status
                              /\ run'[r].done = run[r].done
           /\ Store(r) => row'[r] = row[r] /\ run'[r] = [run[r] EXCEPT !.done = @ + 1]
           /\ Refused(r) => row'[r] = row[r] /\ run'[r] = [row[r] EXCEPT !.failed = @ + 1]
           /\ Save(r) => row'[r] = run'[r] /\ run'[r] = [run[r] EXCEPT !.seen = @ + 1]
           /\ SaveVectors(r) => /\ row'[r] = run'[r] /\ run'[r].status = run[r].status
                                /\ run'[r].done = run[r].done + Cardinality(Embeddable(r))
           /\ Finish(r) => /\ Is(r, "chunk") => row'[r] = row[r]
                           /\ ~ Is(r, "chunk") => row'[r] = [run[r] EXCEPT !.status = "completed"]
           /\ RollsBack(r) => row'[r] = [row[r] EXCEPT !.status = "failed"]
           /\ VectorsFail(r) => row'[r] = [run[r] EXCEPT !.status = "failed"]
           /\ Kill(r) \/ CutFails(r) \/ HandlerFails(r) => row'[r] = row[r]
<1>0. row[r] \in Rows /\ run[r] \in Rows
  BY DEF TypeOK
<1>1. OpenAfterReset(r) => /\ row'[r].status = "running" /\ run'[r] = row'[r]
                           /\ row'[r].done = row[r].done
  BY <1>0 DEF OpenAfterReset, Opens, TypeOK, Rows
<1>2. /\ Select(r) \/ TakeText(r) \/ AddPart(r) \/ SaveChunks(r) =>
            row'[r] = row[r] /\ run'[r] = run[r]
      /\ Kill(r) \/ CutFails(r) \/ HandlerFails(r) => row'[r] = row[r]
  BY DEF Select, TakeText, AddPart, SaveChunks, Kill, CutFails, HandlerFails, tables
<1>3. /\ Skip(r) => row'[r] = row[r] /\ run'[r] = [run[r] EXCEPT !.skipped = @ + 1]
      /\ FetchFails(r) => row'[r] = row[r] /\ run'[r] = [run[r] EXCEPT !.failed = @ + 1]
      /\ Fetched(r) => row'[r] = row[r] /\ run'[r] = run[r]
  <2>1. \A x, c, k : TakeUp(r, x, c, k) => row' = row /\ run'[r] = c
    BY DEF TakeUp, tables, TypeOK
  <2> QED
    BY <2>1 DEF Skip, FetchFails, Fetched
<1>4. TakeBatch(r) => /\ row'[r] = row[r] /\ run'[r].status = run[r].status
                      /\ run'[r].done = run[r].done
  BY <1>0 DEF TakeBatch, tables, TypeOK, Rows
<1>5. Store(r) => row'[r] = row[r] /\ run'[r] = [run[r] EXCEPT !.done = @ + 1]
  BY <1>0 DEF Store, tables, TypeOK
<1>6. Refused(r) => row'[r] = row[r] /\ run'[r] = [row[r] EXCEPT !.failed = @ + 1]
  BY <1>0 DEF Refused, tables, TypeOK
<1>7. Save(r) => row'[r] = run'[r] /\ run'[r] = [run[r] EXCEPT !.seen = @ + 1]
  BY <1>0 DEF Save, TypeOK
<1>8. SaveVectors(r) => /\ row'[r] = run'[r] /\ run'[r].status = run[r].status
                        /\ run'[r].done = run[r].done + Cardinality(Embeddable(r))
  BY <1>0 DEF SaveVectors, TypeOK, Rows
<1>9. Finish(r) => /\ Is(r, "chunk") => row'[r] = row[r]
                   /\ ~ Is(r, "chunk") => row'[r] = [run[r] EXCEPT !.status = "completed"]
  BY DEF Finish, TypeOK
<1>10. /\ RollsBack(r) => row'[r] = [row[r] EXCEPT !.status = "failed"]
       /\ VectorsFail(r) => row'[r] = [run[r] EXCEPT !.status = "failed"]
  BY DEF RollsBack, VectorsFail, TypeOK
<1> QED
  BY <1>1, <1>2, <1>3, <1>4, <1>5, <1>6, <1>7, <1>8, <1>9, <1>10

\* What a start makes of the row and the counters.
LEMMA LaunchRows ==
    ASSUME TypeOK, NEW r \in Runs, Launch(r), row[r] = NoRow, run[r] = NoRow
    PROVE  /\ \A q \in Runs \ {r} : /\ row'[q] = row[q] /\ run'[q] = run[q]
                                    /\ pc'[q] = pc[q] /\ arg'[q] = arg[q]
           /\ \/ /\ pc'[r] = "select" /\ arg'[r].kind \in {"fetch", "embed"}
                 /\ row'[r] = [NoRow EXCEPT !.status = "running"] /\ run'[r] = row'[r]
              \/ pc'[r] = "select" /\ arg'[r].kind = "chunk" /\ row'[r] = NoRow /\ run'[r] = NoRow
              \/ pc'[r] = "open" /\ arg'[r].kind = "embed" /\ row'[r] = NoRow /\ run'[r] = NoRow
<1>1. CASE \E force \in BOOLEAN : BeginFetch(r, force)
  BY <1>1 DEF BeginFetch, Starts, Opens, TypeOK
<1>2. CASE \E force \in BOOLEAN : BeginChunk(r, force)
  BY <1>2 DEF BeginChunk, Starts, TypeOK
<1>3. CASE BeginEmbed(r)
  BY <1>3 DEF BeginEmbed, Starts, Opens, TypeOK
<1>4. CASE Reset(r)
  BY <1>4 DEF Reset, Starts, TypeOK
<1> QED
  BY <1>1, <1>2, <1>3, <1>4 DEF Launch

\* Kinds, places and rows keep fitting.
LEMMA KindsStep ==
    ASSUME IInv, [Next]_vars
    PROVE  KindsFit'
<1>0. TypeOK /\ KindsFit /\ TypeOK'
  BY TypeStep DEF IInv
<1> DEFINE Fit(k, force, p, rw, rn, m) ==
        /\ p = "cut" => k = "chunk"
        /\ p \in {"store", "save"} => k = "fetch"
        /\ p \in {"open", "vectors"} => k = "embed"
        /\ p = "off" => /\ rw = NoRow /\ rn = NoRow /\ m = {}
                        /\ k = "fetch" /\ ~ force
        /\ k = "chunk" => rw.status = "none"
        /\ k = "fetch" /\ p # "off" => rw.status # "none"
        /\ rn.status \in {"none", rw.status}
        /\ p \notin {"off", "end", "killed"} /\ k # "chunk" /\ p # "open" => rn.status = "running"
<1>1. \A q \in Runs : Fit(arg[q].kind, arg[q].force, pc[q], row[q], run[q], met[q])
  BY <1>0 DEF KindsFit, Alive, Is
<1>2. SUFFICES \A q \in Runs : Fit(arg'[q].kind, arg'[q].force, pc'[q], row'[q], run'[q], met'[q])
  BY DEF KindsFit, Alive, Is
<1>3. ASSUME NEW r \in Runs, Launch(r)
      PROVE  \A q \in Runs : Fit(arg'[q].kind, arg'[q].force, pc'[q], row'[q], run'[q], met'[q])
  <2>1. pc[r] = "off" /\ row[r] = NoRow /\ run[r] = NoRow
    BY <1>0, <1>3, LaunchFacts DEF KindsFit
  <2>2. \A q \in Runs \ {r} : pc[q] = "off" => met'[q] = met[q]
    BY <1>0, <1>3, LaunchFacts DEF Alive
  <2>3. \A q \in Runs \ {r} : Fit(arg'[q].kind, arg'[q].force, pc'[q], row'[q], run'[q], met'[q])
    BY <1>0, <1>1, <1>3, <2>1, <2>2, LaunchRows
  <2>4. Fit(arg'[r].kind, arg'[r].force, pc'[r], row'[r], run'[r], met'[r])
    <3>1. [NoRow EXCEPT !.status = "running"].status = "running"
      BY DEF NoRow
    <3> QED
      BY <1>0, <1>3, <2>1, <3>1, LaunchRows, NoRowType
  <2> QED
    BY <2>3, <2>4
<1>4. ASSUME NEW r \in Runs, Move(r)
      PROVE  \A q \in Runs : Fit(arg'[q].kind, arg'[q].force, pc'[q], row'[q], run'[q], met'[q])
  <2>1. arg' = arg /\ met' = met
    BY <1>0, <1>4, MoveFacts
  <2>2. \A q \in Runs \ {r} : Fit(arg'[q].kind, arg'[q].force, pc'[q], row'[q], run'[q], met'[q])
    BY <1>0, <1>1, <1>4, <2>1, MoveFacts
  <2>3. Fit(arg[r].kind, arg[r].force, pc[r], row[r], run[r], met[r])
    BY <1>1
  <2>4. row[r] \in Rows /\ run[r] \in Rows
    BY <1>0 DEF TypeOK
  <2>5. Fit(arg[r].kind, arg[r].force, pc'[r], row'[r], run'[r], met[r])
    <3>1. CASE OpenAfterReset(r)
      BY <1>0, <2>3, <3>1, OwnWork, RowFacts
    <3>2. CASE Select(r) \/ AddPart(r) \/ SaveChunks(r) \/ TakeText(r)
      BY <1>0, <2>3, <3>2, OwnWork, RowFacts DEF Is
    <3>3. CASE Skip(r) \/ FetchFails(r) \/ Fetched(r)
      <4>1. run'[r].status = run[r].status /\ row'[r] = row[r]
        BY <1>0, <2>4, <3>3, RowFacts DEF Rows
      <4>2. pc[r] = "next" /\ arg[r].kind = "fetch" /\ pc'[r] \in {"save", "store"}
        BY <1>0, <3>3, OwnWork DEF Is
      <4> QED
        BY <2>3, <4>1, <4>2
    <3>4. CASE TakeBatch(r)
      BY <1>0, <2>3, <3>4, OwnWork, RowFacts DEF Is
    <3>5. CASE Store(r) \/ Refused(r)
      <4>1. pc[r] = "store" /\ pc'[r] = "save"
        BY <1>0, <3>5, OwnWork
      <4>2. run[r].status = "running" /\ row[r].status = "running"
        BY <2>3, <4>1
      <4>3. row'[r] = row[r] /\ run'[r].status = "running"
        BY <1>0, <2>4, <3>5, <4>2, RowFacts DEF Rows
      <4> QED
        BY <2>3, <4>1, <4>2, <4>3
    <3>6. CASE Save(r) \/ SaveVectors(r)
      <4>1. pc[r] \in {"save", "vectors"} /\ pc'[r] = "next"
        BY <1>0, <3>6, OwnWork
      <4>2. run[r].status = "running"
        BY <2>3, <4>1
      <4>3. row'[r].status = "running" /\ run'[r].status = "running"
        BY <1>0, <2>4, <3>6, <4>2, RowFacts DEF Rows
      <4> QED
        BY <2>3, <4>1, <4>2, <4>3
    <3>7. CASE \/ Finish(r) \/ RollsBack(r) \/ CutFails(r) \/ VectorsFail(r) \/ HandlerFails(r)
               \/ Kill(r)
      <4>1. pc'[r] \in {"end", "killed"} /\ run'[r] = NoRow /\ r \in Alive
        BY <1>0, <1>4, <3>7, OwnWork, MoveFacts
      <4>2. pc[r] # "off"
        BY <4>1 DEF Alive
      <4>3. \/ row'[r] = row[r]
            \/ arg[r].kind # "chunk" /\ row'[r].status # "none"
        <5>1. CASE Finish(r)
          BY <1>0, <2>4, <5>1, RowFacts DEF Is, Rows
        <5>2. CASE RollsBack(r)
          <6>1. arg[r].kind # "chunk"
            BY <5>2 DEF RollsBack, Is
          <6> QED
            BY <1>0, <2>4, <5>2, <6>1, RowFacts DEF Rows
        <5>3. CASE VectorsFail(r)
          <6>1. arg[r].kind # "chunk"
            BY <2>3, <5>3 DEF VectorsFail
          <6> QED
            BY <1>0, <2>4, <5>3, <6>1, RowFacts DEF Rows
        <5>4. CASE Kill(r) \/ CutFails(r) \/ HandlerFails(r)
          BY <1>0, <5>4, RowFacts
        <5> QED
          BY <3>7, <5>1, <5>2, <5>3, <5>4
      <4> QED
        BY <2>3, <4>1, <4>2, <4>3, NoRowType
    <3> QED
      BY <1>4, <3>1, <3>2, <3>3, <3>4, <3>5, <3>6, <3>7 DEF Move
  <2> QED
    BY <2>1, <2>2, <2>5
<1>5. CASE Quiet
  BY <1>1, <1>5 DEF Quiet, tables, work
<1> QED
  BY <1>3, <1>4, <1>5, NextIsLaunchOrMove

\* Runs of a kind once met stay met.
LEMMA MetGrows ==
    ASSUME IInv, [Next]_vars, NEW q \in Runs, NEW kind \in Kinds
    PROVE  Met(q, kind) \subseteq Met(q, kind)'
<1>1. TypeOK /\ MeetingIsMutual /\ Onward
  BY OnwardStep DEF IInv
<1>2. \A g \in met[q] : g \in Runs /\ pc[g] # "off"
  BY <1>1 DEF MeetingIsMutual, TypeOK
<1> QED
  BY <1>1, <1>2 DEF Onward, Is, Met

-----------------------------------------------------------------------------
(* Counters.                                                               *)

\* The errors of one run.
ErrorsOf(r) == {e \in errors : e.by = r}

\* Between two commits the session is ahead by at most one paper.
LEMMA CountersStep ==
    ASSUME IInv, [Next]_vars
    PROVE  /\ CountersFollow'
           /\ \A r \in Runs : Is(r, "fetch")' => Seen(row'[r]) = row'[r].seen
<1>0. /\ TypeOK /\ TypeOK' /\ KindsFit /\ WorkIsApart /\ CountersFollow /\ CountsAddUp
  BY TypeStep DEF IInv
<1> DEFINE Ahead(k, p, rw, rn, h) ==
        /\ p \in {"select", "next", "store"} /\ k = "fetch" => rn = rw
        /\ p = "select" /\ k = "fetch" => rw.failed = 0
        /\ p = "save" => /\ rn.seen = rw.seen
                         /\ Seen(rn) = Seen(rw) + 1
                         /\ rn.failed = rw.failed + (IF h.error = None THEN 0 ELSE 1)
        /\ k = "embed" /\ p \notin {"off", "end", "killed"} => rn.done = rw.done
        /\ k = "fetch" => Seen(rw) = rw.seen
<1>1. \A q \in Runs : Ahead(arg[q].kind, pc[q], row[q], run[q], hold[q])
  BY <1>0 DEF CountersFollow, CountsAddUp, Alive, Is, Seen
<1>2. \A q \in Runs : Ahead(arg'[q].kind, pc'[q], row'[q], run'[q], hold'[q])
  <2>1. ASSUME NEW r \in Runs, Launch(r)
        PROVE  \A q \in Runs : Ahead(arg'[q].kind, pc'[q], row'[q], run'[q], hold'[q])
    <3>1. pc[r] = "off" /\ row[r] = NoRow /\ run[r] = NoRow /\ hold' = hold
      BY <1>0, <2>1, LaunchFacts DEF KindsFit
    <3>2. \A q \in Runs \ {r} : Ahead(arg'[q].kind, pc'[q], row'[q], run'[q], hold'[q])
      BY <1>0, <1>1, <2>1, <3>1, LaunchRows
    <3>3. /\ Seen(NoRow) = NoRow.seen
          /\ LET fresh == [NoRow EXCEPT !.status = "running"]
             IN  Seen(fresh) = fresh.seen /\ fresh.failed = 0
      BY DEF Seen, NoRow
    <3>4. Ahead(arg'[r].kind, pc'[r], row'[r], run'[r], hold'[r])
      BY <1>0, <2>1, <3>1, <3>3, LaunchRows
    <3> QED
      BY <3>2, <3>4
  <2>2. ASSUME NEW r \in Runs, Move(r)
        PROVE  \A q \in Runs : Ahead(arg'[q].kind, pc'[q], row'[q], run'[q], hold'[q])
    <3>1. \A q \in Runs \ {r} : Ahead(arg'[q].kind, pc'[q], row'[q], run'[q], hold'[q])
      BY <1>0, <1>1, <2>2, MoveFacts
    <3>2. Ahead(arg[r].kind, pc[r], row[r], run[r], hold[r]) /\ arg' = arg /\ pc[r] # "off"
      BY <1>0, <1>1, <2>2, MoveFacts DEF Alive
    <3>3. row[r] \in Rows /\ run[r] \in Rows
      BY <1>0 DEF TypeOK
    <3>4. Ahead(arg[r].kind, pc'[r], row'[r], run'[r], hold'[r])
      <4>1. CASE OpenAfterReset(r)
        BY <1>0, <3>2, <4>1, OwnWork, RowFacts DEF KindsFit, OpenAfterReset, Is
      <4>2. CASE Select(r) \/ TakeText(r) \/ AddPart(r) \/ SaveChunks(r) \/ TakeBatch(r)
        BY <1>0, <3>2, <4>2, OwnWork, RowFacts DEF KindsFit, AddPart, SaveChunks, Is
      <4>3. CASE Skip(r) \/ FetchFails(r) \/ Fetched(r)
        <5>1. pc[r] = "next" /\ arg[r].kind = "fetch" /\ run[r] = row[r] /\ row'[r] = row[r]
          BY <1>0, <3>2, <4>3, OwnWork, RowFacts DEF Is
        <5>2. CASE Skip(r)
          <6>1. pc'[r] = "save" /\ hold'[r].error = None
            BY <1>0, <5>2, NoRowType DEF Skip, TakeUp, TypeOK
          <6>2. run'[r] = [row[r] EXCEPT !.skipped = @ + 1]
            BY <1>0, <5>1, <5>2, RowFacts
          <6> QED
            BY <3>2, <3>3, <5>1, <6>1, <6>2 DEF Seen, Rows
        <5>3. CASE FetchFails(r)
          <6>1. pc'[r] = "save" /\ hold'[r].error # None
            BY <1>0, <5>3, NothingType, NoneAssumption DEF FetchFails, TakeUp, TypeOK, Holdings, Errors
          <6>2. run'[r] = [row[r] EXCEPT !.failed = @ + 1]
            BY <1>0, <5>1, <5>3, RowFacts
          <6> QED
            BY <3>2, <3>3, <5>1, <6>1, <6>2 DEF Seen, Rows
        <5>4. CASE Fetched(r)
          <6>1. pc'[r] = "store"
            BY <1>0, <5>4 DEF Fetched, TypeOK
          <6>2. run'[r] = row[r]
            BY <1>0, <5>1, <5>4, RowFacts
          <6> QED
            BY <3>2, <5>1, <6>1, <6>2
        <5> QED
          BY <4>3, <5>2, <5>3, <5>4
      <4>4. CASE Store(r) \/ Refused(r)
        <5>1. /\ pc[r] = "store" /\ arg[r].kind = "fetch" /\ run[r] = row[r]
              /\ row'[r] = row[r] /\ pc'[r] = "save"
          BY <1>0, <3>2, <4>4, OwnWork, RowFacts DEF KindsFit, Is
        <5>2. CASE Store(r)
          <6>1. hold'[r].error = hold[r].error
            BY <1>0, <5>2 DEF Store, TypeOK
          <6>2. hold[r].error = None
            BY <1>0, <5>1 DEF WorkIsApart
          <6>3. run'[r] = [row[r] EXCEPT !.done = @ + 1]
            BY <1>0, <5>1, <5>2, RowFacts
          <6> QED
            BY <3>2, <3>3, <5>1, <6>1, <6>2, <6>3 DEF Seen, Rows
        <5>3. CASE Refused(r)
          <6>1. hold'[r].error # None
            BY <1>0, <5>3, NothingType, NoneAssumption DEF Refused, TypeOK, Holdings, Errors
          <6>2. run'[r] = [row[r] EXCEPT !.failed = @ + 1]
            BY <1>0, <5>3, RowFacts
          <6> QED
            BY <3>2, <3>3, <5>1, <6>1, <6>2 DEF Seen, Rows
        <5> QED
          BY <4>4, <5>2, <5>3
      <4>5. CASE Save(r)
        <5>1. /\ pc[r] = "save" /\ pc'[r] = "next" /\ arg[r].kind = "fetch"
              /\ row'[r] = run'[r] /\ run'[r] = [run[r] EXCEPT !.seen = @ + 1]
          BY <1>0, <4>5, OwnWork, RowFacts DEF KindsFit, Is
        <5> QED
          BY <3>2, <3>3, <5>1 DEF Seen, Rows
      <4>6. CASE SaveVectors(r)
        <5>1. pc'[r] = "next" /\ arg[r].kind = "embed" /\ row'[r] = run'[r]
          BY <1>0, <4>6, OwnWork, RowFacts DEF KindsFit, SaveVectors, Is
        <5> QED
          BY <5>1
      <4>7. CASE \/ Finish(r) \/ RollsBack(r) \/ CutFails(r) \/ VectorsFail(r) \/ HandlerFails(r)
                 \/ Kill(r)
        <5>1. pc'[r] \in {"end", "killed"}
          BY <1>0, <4>7, OwnWork
        <5>2. arg[r].kind = "fetch" => Seen(row'[r]) = row'[r].seen
          <6> SUFFICES ASSUME arg[r].kind = "fetch"
                       PROVE  Seen(row'[r]) = row'[r].seen
            OBVIOUS
          <6>1. CASE Finish(r)
            <7>1. run[r] = row[r]
              BY <3>2, <6>1 DEF Finish
            <7>2. row'[r] = [run[r] EXCEPT !.status = "completed"]
              BY <1>0, <6>1, RowFacts DEF Is
            <7> QED
              BY <3>2, <3>3, <7>1, <7>2 DEF Seen, Rows
          <6>2. CASE RollsBack(r)
            <7>1. row'[r] = [row[r] EXCEPT !.status = "failed"]
              BY <1>0, <6>2, RowFacts
            <7> QED
              BY <3>2, <3>3, <7>1 DEF Seen, Rows
          <6>3. ~ VectorsFail(r)
            BY <1>0 DEF VectorsFail, KindsFit, Is
          <6>4. CASE CutFails(r) \/ HandlerFails(r) \/ Kill(r)
            BY <1>0, <3>2, <6>4, RowFacts
          <6> QED
            BY <4>7, <6>1, <6>2, <6>3, <6>4
        <5> QED
          BY <5>1, <5>2
      <4> QED
        BY <2>2, <4>1, <4>2, <4>3, <4>4, <4>5, <4>6, <4>7 DEF Move
    <3> QED
      BY <3>1, <3>2, <3>4
  <2>3. CASE Quiet
    BY <1>1, <2>3 DEF Quiet, tables, work
  <2> QED
    BY <2>1, <2>2, <2>3, NextIsLaunchOrMove
<1> HIDE DEF Ahead
<1>3. CountersFollow'
  <2>1. Alive' = {q \in Runs : pc'[q] \notin {"off", "end", "killed"}}
    BY DEF Alive
  <2> QED
    BY <1>2, <2>1 DEF Ahead, CountersFollow, Is
<1>4. \A r \in Runs : Is(r, "fetch")' => Seen(row'[r]) = row'[r].seen
  BY <1>2 DEF Ahead, Is
<1> QED
  BY <1>3, <1>4

\* Only a commit changes how many failures a fetch has on record.
LEMMA FailuresStay ==
    ASSUME IInv, NEW r \in Runs, Move(r), ~ Save(r), Is(r, "fetch")
    PROVE  row'[r].failed = row[r].failed
<1>0. TypeOK /\ KindsFit /\ CountersFollow /\ row[r] \in Rows /\ run[r] \in Rows
  BY DEF IInv, TypeOK
<1>1. CASE Finish(r)
  <2>1. run[r] = row[r]
    BY <1>0, <1>1 DEF Finish, CountersFollow
  <2>2. row'[r] = [run[r] EXCEPT !.status = "completed"]
    BY <1>0, <1>1, RowFacts DEF Is
  <2> QED
    BY <1>0, <2>1, <2>2 DEF Rows
<1>2. CASE RollsBack(r)
  BY <1>0, <1>2, RowFacts DEF Rows
<1>3. ~ OpenAfterReset(r) /\ ~ SaveVectors(r) /\ ~ VectorsFail(r)
  BY <1>0 DEF OpenAfterReset, SaveVectors, VectorsFail, KindsFit, Is
<1>4. CASE Select(r) \/ TakeText(r) \/ AddPart(r) \/ SaveChunks(r) \/ Skip(r) \/ FetchFails(r)
           \/ Fetched(r) \/ TakeBatch(r) \/ Store(r) \/ Refused(r)
  BY <1>0, <1>4, RowFacts
<1>5. CASE Kill(r) \/ CutFails(r) \/ HandlerFails(r)
  BY <1>0, <1>5, RowFacts
<1> QED
  BY <1>1, <1>2, <1>3, <1>4, <1>5 DEF Move

\* A commit adds the error of its paper, if it has one, and no other.
LEMMA SaveErrors ==
    ASSUME IInv, NEW r \in Runs, Save(r)
    PROVE  /\ Is(r, "fetch") /\ IsFiniteSet(errors')
           /\ \A e \in errors' : e \in errors \/ (e.by = r /\ e.paper \notin PapersOf(InHand(r)'))
           /\ \A q \in Runs \ {r} : ErrorsOf(q)' = ErrorsOf(q)
           /\ Cardinality(ErrorsOf(r)') = row'[r].failed
<1>0. /\ TypeOK /\ KindsFit /\ WorkIsApart /\ CountersFollow /\ ErrorsAreSeen /\ CountsAddUp
  BY DEF IInv
<1>1. /\ pc[r] = "save" /\ Is(r, "fetch")
      /\ todo'[r] = todo[r] /\ batch'[r] = {}
      /\ errors' = errors \cup Logged(r)
  BY <1>0, OwnWork DEF KindsFit, Save
<1>2. PICK x \in Loaded : batch[r] = {x}
  BY <1>0, <1>1 DEF WorkIsApart
<1>3. x.paper \notin PapersOf(InHand(r)')
  BY <1>0, <1>1, <1>2 DEF WorkIsApart, InHand, PapersOf
<1> DEFINE new == [by |-> r, paper |-> x.paper, kind |-> hold[r].error]
<1>4. new.by = r /\ new.paper = x.paper
  OBVIOUS
<1>5. Logged(r) = IF hold[r].error = None THEN {} ELSE {new}
  BY <1>2 DEF Logged, PapersOf
<1> HIDE DEF new
<1>6. x.paper \in PapersOf(InHand(r))
  BY <1>2 DEF InHand, PapersOf
<1>7. new \notin ErrorsOf(r)
  BY <1>0, <1>1, <1>4, <1>6 DEF ErrorsAreSeen, ErrorsOf
<1>8. IsFiniteSet(errors) /\ IsFiniteSet(ErrorsOf(r))
  BY <1>0, FS_Subset DEF ErrorsAreSeen, ErrorsOf
<1>9. IsFiniteSet(errors')
  BY <1>1, <1>5, <1>8, FS_AddElement
<1>10. \A e \in errors' : e \in errors \/ (e.by = r /\ e.paper \notin PapersOf(InHand(r)'))
  BY <1>1, <1>3, <1>4, <1>5
<1>11. \A q \in Runs \ {r} : ErrorsOf(q)' = ErrorsOf(q)
  BY <1>1, <1>4, <1>5 DEF ErrorsOf
<1>12. Cardinality(ErrorsOf(r)) = row[r].failed
  BY <1>0, <1>1 DEF CountsAddUp, ErrorsOf
<1>13. /\ row[r] \in Rows /\ run[r] \in Rows
       /\ row'[r] = [run[r] EXCEPT !.seen = @ + 1]
  BY <1>0, RowFacts DEF TypeOK
<1>14. row'[r].failed = row[r].failed + (IF hold[r].error = None THEN 0 ELSE 1)
  BY <1>0, <1>1, <1>13 DEF CountersFollow, Rows
<1>15. CASE hold[r].error = None
  <2>1. ErrorsOf(r)' = ErrorsOf(r)
    BY <1>1, <1>5, <1>15 DEF ErrorsOf
  <2> QED
    BY <1>1, <1>9, <1>10, <1>11, <1>12, <1>13, <1>14, <1>15, <2>1 DEF Rows
<1>16. CASE hold[r].error # None
  <2>1. ErrorsOf(r)' = ErrorsOf(r) \cup {new}
    BY <1>1, <1>4, <1>5, <1>16 DEF ErrorsOf
  <2>2. Cardinality(ErrorsOf(r) \cup {new}) = Cardinality(ErrorsOf(r)) + 1
    BY <1>7, <1>8, FS_AddElement
  <2> QED
    BY <1>1, <1>9, <1>10, <1>11, <1>12, <1>13, <1>14, <1>16, <2>1, <2>2
<1> QED
  BY <1>15, <1>16

\* Errors and failures keep step.
LEMMA ErrorsStep ==
    ASSUME IInv, [Next]_vars
    PROVE  ErrorsAreSeen' /\ CountsAddUp'
<1>0. /\ TypeOK /\ KindsFit /\ ErrorsAreSeen /\ CountsAddUp /\ CountersFollow
  BY DEF IInv
<1> DEFINE Agree(q) == /\ \A e \in errors : e.by = q => e.paper \notin PapersOf(InHand(q))
                       /\ row[q].failed = Cardinality(ErrorsOf(q))
<1>1. \A q \in Runs : Is(q, "fetch") => Agree(q)
  BY <1>0 DEF ErrorsAreSeen, CountsAddUp, ErrorsOf
<1>2. SUFFICES /\ IsFiniteSet(errors')
               /\ \A q \in Runs : Is(q, "fetch")' => Agree(q)'
  BY CountersStep DEF ErrorsAreSeen, CountsAddUp, ErrorsOf, Seen
<1>3. ASSUME NEW r \in Runs, Launch(r)
      PROVE  IsFiniteSet(errors') /\ \A q \in Runs : Is(q, "fetch")' => Agree(q)'
  <2>1. /\ pc[r] = "off" /\ row[r] = NoRow /\ run[r] = NoRow /\ Is(r, "fetch")
        /\ errors' = errors
    BY <1>0, <1>3, LaunchFacts DEF KindsFit
  <2>2. \A q \in Runs : InHand(q)' = InHand(q) /\ ErrorsOf(q)' = ErrorsOf(q)
    BY <1>3, <2>1, HandFacts DEF ErrorsOf
  <2>3. \A q \in Runs \ {r} : Is(q, "fetch")' => Is(q, "fetch") /\ row'[q] = row[q]
    BY <1>0, <1>3, <2>1, LaunchRows DEF Is
  <2>4. row'[r].failed = row[r].failed
    BY <1>0, <1>3, <2>1, LaunchRows DEF NoRow
  <2> QED
    BY <1>0, <1>1, <2>1, <2>2, <2>3, <2>4 DEF ErrorsAreSeen
<1>4. ASSUME NEW r \in Runs, Move(r)
      PROVE  IsFiniteSet(errors') /\ \A q \in Runs : Is(q, "fetch")' => Agree(q)'
  <2>1. /\ \A q \in Runs : Is(q, "fetch")' => Is(q, "fetch")
        /\ \A q \in Runs \ {r} : row'[q] = row[q] /\ InHand(q)' = InHand(q)
    BY <1>0, <1>4, MoveFacts, HandFacts DEF Is
  <2>2. CASE Save(r)
    <3>1. \A q \in Runs \ {r} : Is(q, "fetch")' => Agree(q)'
      BY <1>0, <1>1, <2>1, <2>2, SaveErrors
    <3>2. InHand(r)' \subseteq InHand(r)
      BY <1>4, <2>2, HandFacts, OwnWork, <1>0 DEF InHand
    <3>3. Agree(r)'
      BY <1>0, <1>1, <2>2, <3>2, SaveErrors DEF PapersOf
    <3> QED
      BY <2>2, <3>1, <3>3, SaveErrors
  <2>3. CASE ~ Save(r)
    <3>1. errors' = errors /\ \A q \in Runs : ErrorsOf(q)' = ErrorsOf(q)
      BY <1>4, <2>3, MoveTables DEF ErrorsOf
    <3>2. \A q \in Runs \ {r} : Is(q, "fetch")' => Agree(q)'
      BY <1>1, <2>1, <3>1
    <3>3. ASSUME Is(r, "fetch")
          PROVE  Agree(r)'
      <4>1. row'[r].failed = row[r].failed
        BY <1>4, <2>3, <3>3, FailuresStay
      <4>2. CASE InHand(r)' \subseteq InHand(r)
        BY <1>1, <3>1, <3>3, <4>1, <4>2 DEF PapersOf
      <4>3. CASE Select(r)
        <5>1. row[r].failed = 0
          BY <1>0, <3>3, <4>3 DEF Select, CountersFollow
        <5>2. IsFiniteSet(ErrorsOf(r))
          BY <1>0, FS_Subset DEF ErrorsAreSeen, ErrorsOf
        <5>3. ErrorsOf(r) = {}
          BY <1>1, <3>3, <5>1, <5>2, FS_EmptySet
        <5> QED
          BY <1>1, <3>1, <3>3, <4>1, <5>3 DEF ErrorsOf
      <4> QED
        BY <1>4, <4>2, <4>3, HandFacts
    <3> QED
      BY <1>0, <2>1, <3>1, <3>2, <3>3 DEF ErrorsAreSeen
  <2> QED
    BY <2>2, <2>3
<1>5. CASE Quiet
  <2>1. errors' = errors /\ \A q \in Runs : (Is(q, "fetch")' => Is(q, "fetch")) /\ Agree(q)' = Agree(q)
    BY <1>5 DEF Quiet, tables, work, Is, InHand, ErrorsOf, PapersOf
  <2> QED
    BY <1>0, <1>1, <2>1 DEF ErrorsAreSeen
<1> QED
  BY <1>3, <1>4, <1>5, NextIsLaunchOrMove

\* What a run starts by deleting vectors is known for good.
StartedOver == \E q \in Runs : Is(q, "embed") /\ arg[q].force

\* The vectors a run wrote.
VectorsOf(r) == {p \in Papers : vector[p] = r}

LEMMA StartedOverStays ==
    ASSUME IInv, [Next]_vars, StartedOver
    PROVE  StartedOver'
<1>0. KindsFit /\ Onward
  BY OnwardStep DEF IInv
<1>1. PICK q \in Runs : Is(q, "embed") /\ arg[q].force
  BY DEF StartedOver
<1>2. arg'[q] = arg[q]
  BY <1>0, <1>1 DEF KindsFit, Onward
<1> QED
  BY <1>1, <1>2 DEF StartedOver, Is

\* A vector is written by the run that counts it.
LEMMA VectorsStep ==
    ASSUME IInv, [Next]_vars
    PROVE  VectorsHaveAuthors' /\ VectorsAreCounted'
<1>0. /\ TypeOK /\ KindsFit /\ VectorsHaveAuthors /\ VectorsAreCounted /\ CountersFollow
      /\ Onward
  BY OnwardStep DEF IInv
<1>1. \A p \in Papers : vector[p] # None =>
         vector[p] \in Runs /\ Is(vector[p], "embed") /\ arg'[vector[p]] = arg[vector[p]]
  BY <1>0 DEF VectorsHaveAuthors, TypeOK, KindsFit, Is, Onward
<1>2. VectorsHaveAuthors'
  <2>1. ASSUME NEW r \in Runs, Launch(r)
        PROVE  VectorsHaveAuthors'
    BY <1>1, <2>1, LaunchTables DEF VectorsHaveAuthors, Is
  <2>2. ASSUME NEW r \in Runs, Move(r)
        PROVE  VectorsHaveAuthors'
    <3>1. CASE vector' = vector
      BY <1>1, <3>1 DEF VectorsHaveAuthors, Is
    <3>2. CASE SaveVectors(r)
      <4>1. Is(r, "embed") /\ arg' = arg
        BY <1>0, <3>2 DEF SaveVectors, KindsFit
      <4>2. \A p \in Papers : vector'[p] = r \/ vector'[p] = vector[p]
        BY <3>2 DEF SaveVectors
      <4> QED
        BY <1>1, <4>1, <4>2 DEF VectorsHaveAuthors, Is
    <3> QED
      BY <2>2, <3>1, <3>2, MoveTables
  <2>3. CASE Quiet
    BY <1>1, <2>3 DEF Quiet, tables, VectorsHaveAuthors, Is
  <2> QED
    BY <2>1, <2>2, <2>3, NextIsLaunchOrMove
<1>3. VectorsAreCounted'
  <2>0. SUFFICES ASSUME ~ StartedOver', NEW q \in Runs, Is(q, "embed")'
                 PROVE  row'[q].done = Cardinality(VectorsOf(q)')
    BY DEF VectorsAreCounted, StartedOver, VectorsOf
  <2>1. ~ StartedOver
    BY <2>0, StartedOverStays
  <2>2. \A s \in Runs : Is(s, "embed") => row[s].done = Cardinality(VectorsOf(s))
    BY <1>0, <2>1 DEF VectorsAreCounted, StartedOver, VectorsOf
  <2>3. ASSUME NEW r \in Runs, Launch(r)
        PROVE  row'[q].done = Cardinality(VectorsOf(q)')
    <3>1. row[r] = NoRow /\ run[r] = NoRow /\ Is(r, "fetch")
      BY <1>0, <2>3, LaunchFacts DEF KindsFit
    <3>2. vector' = vector
      <4>1. ~ Reset(r)
        <5>1. Reset(r) => \E a : arg' = [arg EXCEPT ![r] = a] /\ a.kind = "embed" /\ a.force
          <6>1. \A limit : LET a == [kind |-> "embed", force |-> TRUE, limit |-> limit]
                            IN  a.kind = "embed" /\ a.force
            OBVIOUS
          <6> QED
            BY <6>1 DEF Reset, Starts
        <5>2. arg \in [Runs -> [kind: Kinds, force: BOOLEAN, limit: Nat]]
          BY <1>0 DEF TypeOK
        <5> QED
          BY <2>0, <5>1, <5>2 DEF StartedOver, Is
      <4> QED
        BY <2>3, <4>1 DEF Launch, BeginFetch, BeginChunk, BeginEmbed
    <3>3. VectorsOf(q)' = VectorsOf(q)
      BY <3>2 DEF VectorsOf
    <3>4. CASE q = r
      <4>1. VectorsOf(r) = {}
        BY <1>0, <1>1, <3>1, NoneAssumption DEF VectorsOf, Is
      <4>2. row'[r].done = 0
        BY <1>0, <2>3, <3>1, LaunchRows DEF NoRow
      <4> QED
        BY <3>3, <3>4, <4>1, <4>2, FS_EmptySet
    <3>5. CASE q # r
      BY <1>0, <2>0, <2>2, <2>3, <3>1, <3>3, <3>5, LaunchRows DEF Is
    <3> QED
      BY <3>4, <3>5
  <2>4. ASSUME NEW r \in Runs, Move(r)
        PROVE  row'[q].done = Cardinality(VectorsOf(q)')
    <3>1. Is(q, "embed") /\ \A s \in Runs \ {r} : row'[s] = row[s]
      BY <1>0, <2>0, <2>4, MoveFacts DEF Is
    <3>2. CASE SaveVectors(r)
      <4>1. Embeddable(r) \subseteq Papers
        BY <1>0, PapersOfLoaded DEF TypeOK, Embeddable
      <4>2. \A p \in Papers : vector'[p] = IF p \in Embeddable(r) THEN r ELSE vector[p]
        BY <3>2 DEF SaveVectors
      <4>3. \A p \in Embeddable(r) : vector[p] = None
        BY <3>2 DEF SaveVectors
      <4>4. CASE q = r
        <5>1. VectorsOf(r)' = VectorsOf(r) \cup Embeddable(r)
          BY <4>1, <4>2 DEF VectorsOf
        <5>2. VectorsOf(r) \cap Embeddable(r) = {}
          BY <4>3, NoneAssumption DEF VectorsOf
        <5>3. /\ IsFiniteSet(VectorsOf(r)) /\ IsFiniteSet(Embeddable(r))
              /\ Cardinality(VectorsOf(r)) \in Nat /\ Cardinality(Embeddable(r)) \in Nat
          BY <4>1, PapersAreFinite DEF VectorsOf
        <5>4. Cardinality(VectorsOf(r) \cup Embeddable(r))
                = Cardinality(VectorsOf(r)) + Cardinality(Embeddable(r))
          <6>1. Cardinality(VectorsOf(r) \cup Embeddable(r))
                  = Cardinality(VectorsOf(r)) + Cardinality(Embeddable(r))
                      - Cardinality(VectorsOf(r) \cap Embeddable(r))
            BY <5>3, FS_Union
          <6>2. Cardinality(VectorsOf(r) \cap Embeddable(r)) = 0
            BY <5>2, FS_EmptySet
          <6> QED
            BY <5>3, <6>1, <6>2
        <5>5. row'[r].done = row[r].done + Cardinality(Embeddable(r))
          <6>1. r \in Alive
            BY <1>0, <2>4, MoveFacts
          <6>2. row'[r].done = run[r].done + Cardinality(Embeddable(r))
            BY <1>0, <3>2, RowFacts
          <6> QED
            BY <1>0, <3>1, <4>4, <6>1, <6>2 DEF CountersFollow
        <5> QED
          BY <2>2, <3>1, <4>4, <5>1, <5>4, <5>5
      <4>5. CASE q # r
        <5>1. VectorsOf(q)' = VectorsOf(q)
          BY <4>2, <4>3, <4>5, NoneAssumption DEF VectorsOf
        <5> QED
          BY <2>2, <3>1, <4>5, <5>1
      <4> QED
        BY <4>4, <4>5
    <3>3. CASE ~ SaveVectors(r)
      <4>1. VectorsOf(q)' = VectorsOf(q)
        BY <2>4, <3>3, MoveTables DEF VectorsOf
      <4>2. row'[q].done = row[q].done
        <5>1. CASE q # r
          BY <3>1, <5>1
        <5>2. CASE q = r
          <6>0. row[r] \in Rows /\ run[r] \in Rows /\ r \in Alive /\ run[r].done = row[r].done
            BY <1>0, <2>4, <3>1, <5>2, MoveFacts DEF TypeOK, CountersFollow
          <6>1. ~ Save(r) /\ ~ RollsBack(r)
            BY <1>0, <3>1, <5>2 DEF Save, RollsBack, KindsFit, Is
          <6>2. CASE Finish(r) \/ VectorsFail(r)
            BY <1>0, <3>1, <5>2, <6>0, <6>2, RowFacts DEF Is, Rows
          <6>3. CASE OpenAfterReset(r) \/ Kill(r) \/ CutFails(r) \/ HandlerFails(r)
            BY <1>0, <5>2, <6>3, RowFacts
          <6>4. CASE Select(r) \/ TakeText(r) \/ AddPart(r) \/ SaveChunks(r) \/ Skip(r)
                     \/ FetchFails(r) \/ Fetched(r) \/ TakeBatch(r) \/ Store(r) \/ Refused(r)
            BY <1>0, <5>2, <6>4, RowFacts
          <6> QED
            BY <2>4, <3>3, <6>1, <6>2, <6>3, <6>4 DEF Move
        <5> QED
          BY <5>1, <5>2
      <4> QED
        BY <2>2, <3>1, <4>1, <4>2
    <3> QED
      BY <3>2, <3>3
  <2>5. CASE Quiet
    <3>1. row' = row /\ VectorsOf(q)' = VectorsOf(q) /\ Is(q, "embed")
      BY <2>0, <2>5 DEF Quiet, tables, work, VectorsOf, Is
    <3> QED
      BY <2>2, <3>1
  <2> QED
    BY <2>3, <2>4, <2>5, NextIsLaunchOrMove
<1> QED
  BY <1>2, <1>3

-----------------------------------------------------------------------------
(* Chunks.                                                                 *)

\* The chunks a commit adds: all of one text, for one paper in hand.
LEMMA NewChunks ==
    ASSUME IInv, NEW r \in Runs, SaveChunks(r)
    PROVE  \E x \in InHand(r) :
              /\ Is(r, "chunk") /\ x \in Loaded /\ x.text \in Texts
              /\ hold[r].parts \in Nat /\ Batches[x.text] \in Nat
              /\ Batches[x.text] <= hold[r].parts
              /\ chunks' = chunks \cup
                     {[paper |-> x.paper, text |-> x.text, part |-> i, by |-> r] :
                         i \in 1..hold[r].parts}
<1>0. TypeOK /\ KindsFit /\ WorkIsApart /\ ChunkWorkIsFresh
  BY DEF IInv
<1>1. /\ pc[r] = "cut" /\ Is(r, "chunk") /\ ~ Remaining(r)
      /\ chunks' = chunks \cup Cut(r, hold[r].parts)
  BY <1>0 DEF SaveChunks, KindsFit
<1>2. PICK x \in Loaded : batch[r] = {x}
  BY <1>0, <1>1 DEF WorkIsApart
<1>3. x \in InHand(r) /\ x.text \in Texts
  BY <1>0, <1>1, <1>2 DEF InHand, ChunkWorkIsFresh, Loaded
<1>4. hold[r].parts \in Nat /\ Batches[x.text] \in Nat
  BY <1>0, <1>3, TextsAssumption DEF TypeOK
<1>5. Batches[x.text] <= hold[r].parts
  BY <1>1, <1>2, <1>4 DEF Remaining
<1>6. Cut(r, hold[r].parts) = {[paper |-> x.paper, text |-> x.text, part |-> i, by |-> r] :
                                  i \in 1..hold[r].parts}
  BY <1>2 DEF Cut
<1> QED
  BY <1>1, <1>3, <1>4, <1>5, <1>6

\* Chunks are whole, of the paper's text, and twice only of runs that met.
LEMMA ChunksStep ==
    ASSUME IInv, [Next]_vars
    PROVE  ChunksAreWhole' /\ TwiceCutNeedsOverlap' /\ StaleNeedsRefetch'
<1>0. /\ TypeOK /\ KindsFit /\ MeetingIsMutual /\ ChunkWorkIsFresh /\ Onward
      /\ ChunksAreWhole /\ TwiceCutNeedsOverlap /\ StaleNeedsRefetch
  BY OnwardStep DEF IInv
<1>1. Excused => Excused'
  BY ExcuseStays
<1>2. \A c \in chunks : c.text = text[c.paper] \/ Excused
  BY <1>0 DEF StaleNeedsRefetch, Excused
<1>3. \A q \in Runs : met[q] \subseteq met'[q]
  BY <1>0 DEF Onward
<1>4. \A c \in chunks : /\ c \in [paper: Papers, text: Texts, part: Nat, by: Runs]
                        /\ c.paper \in Papers /\ c.text # None /\ c.by \in Runs
  BY <1>0, NoneAssumption DEF TypeOK
<1>5. CASE chunks' \subseteq chunks /\ (chunks' = chunks \/ chunks' = {})
  <2>1. ChunksAreWhole'
    BY <1>0, <1>5 DEF ChunksAreWhole
  <2>2. TwiceCutNeedsOverlap'
    BY <1>0, <1>3, <1>4, <1>5 DEF TwiceCutNeedsOverlap
  <2>3. \A c \in chunks : c.text = text'[c.paper] \/ Excused'
    <3>1. CASE text' = text
      BY <1>1, <1>2, <3>1
    <3>2. ASSUME NEW r \in Runs, Save(r), NEW c \in chunks
          PROVE  c.text = text'[c.paper] \/ Excused'
      BY <1>1, <1>2, <1>4, <3>2, TextsChangeWithExcuse
    <3> QED
      BY <3>1, <3>2, NextIsLaunchOrMove, LaunchTables, MoveTables DEF Quiet, tables
  <2>4. StaleNeedsRefetch'
    BY <1>5, <2>3 DEF StaleNeedsRefetch, Excused
  <2> QED
    BY <2>1, <2>2, <2>4
<1>6. ASSUME NEW r \in Runs, SaveChunks(r)
      PROVE  ChunksAreWhole' /\ TwiceCutNeedsOverlap' /\ StaleNeedsRefetch'
  <2>1. text' = text /\ met' = met
    BY <1>6 DEF SaveChunks
  <2>2. PICK x \in InHand(r) :
              /\ Is(r, "chunk") /\ x \in Loaded /\ x.text \in Texts
              /\ hold[r].parts \in Nat /\ Batches[x.text] \in Nat
              /\ Batches[x.text] <= hold[r].parts
              /\ chunks' = chunks \cup
                     {[paper |-> x.paper, text |-> x.text, part |-> i, by |-> r] :
                         i \in 1..hold[r].parts}
    BY <1>6, NewChunks
  <2> DEFINE part(i) == [paper |-> x.paper, text |-> x.text, part |-> i, by |-> r]
             added == {part(i) : i \in 1..hold[r].parts}
  <2>3. /\ \A i : /\ part(i).paper = x.paper /\ part(i).text = x.text /\ part(i).by = r
        /\ \A i, j : [part(i) EXCEPT !.part = j] = part(j)
    OBVIOUS
  <2>4. /\ x.text = text[x.paper] \/ Excused
        /\ \A c \in chunks : c.paper = x.paper => c.by \in met[r]
    BY <1>0, <2>2 DEF ChunkWorkIsFresh
  <2>5. chunks' = chunks \cup added
    BY <2>2
  <2> HIDE DEF part
  <2>6. \A c \in added : c.paper = x.paper /\ c.text = x.text /\ c.by = r
    BY <2>3
  <2>7. \A c \in added : \A j \in 1..Batches[c.text] : [c EXCEPT !.part = j] \in added
    BY <2>2, <2>3, <2>6
  <2> HIDE DEF added
  <2>8. ChunksAreWhole'
    BY <1>0, <2>5, <2>7 DEF ChunksAreWhole
  <2>9. \A c, d \in chunks' : c.paper = d.paper /\ c.by # d.by => c.by \in met'[d.by]
    <3> SUFFICES ASSUME NEW c \in chunks', NEW d \in chunks', c.paper = d.paper, c.by # d.by
                 PROVE  c.by \in met[d.by]
      BY <2>1
    <3>1. CASE c \in chunks /\ d \in chunks
      BY <1>0, <3>1 DEF TwiceCutNeedsOverlap
    <3>2. CASE c \in chunks /\ d \in added
      BY <2>4, <2>6, <3>2
    <3>3. CASE c \in added /\ d \in chunks
      BY <1>0, <1>4, <2>4, <2>6, <3>3 DEF MeetingIsMutual
    <3>4. CASE c \in added /\ d \in added
      BY <2>6, <3>4
    <3> QED
      BY <2>5, <3>1, <3>2, <3>3, <3>4
  <2>10. TwiceCutNeedsOverlap'
    BY <2>9 DEF TwiceCutNeedsOverlap
  <2>11. \A c \in chunks' : c.text = text'[c.paper] \/ Excused'
    BY <1>1, <1>2, <2>1, <2>4, <2>5, <2>6
  <2>12. StaleNeedsRefetch'
    BY <2>11 DEF StaleNeedsRefetch, Excused
  <2> QED
    BY <2>8, <2>10, <2>12
<1> QED
  BY <1>5, <1>6, NextIsLaunchOrMove, LaunchTables, MoveTables DEF Quiet, tables

-----------------------------------------------------------------------------
(* Runs without a limit.                                                   *)

\* Such a run selects all there is.
LEMMA SelectsAll ==
    ASSUME TypeOK, NEW r \in Runs, Select(r), Unlimited(r)
    PROVE  todo'[r] = Lacking(r)
<1> DEFINE L == Lacking(r)
           f == [x \in L |-> x.paper]
<1>1. L \subseteq Loaded /\ \A x, y \in L : x.paper = y.paper => x = y
  BY LackingType
<1>2. f \in [L -> Papers]
  BY <1>1 DEF Loaded
<1>3. \A a, b \in L : f[a] = f[b] => a = b
  BY <1>1
<1> HIDE DEF f, L
<1>4. f \in Injection(L, Papers)
  BY <1>2, <1>3, Fun_IsInj
<1>5. IsFiniteSet(L) /\ Cardinality(L) <= Cardinality(Papers)
  BY <1>4, PapersAssumption, FS_Injection
<1>6. Cardinality(L) \in Nat /\ Cardinality(Papers) \in Nat /\ arg[r].limit \in Nat
  BY <1>5, PapersAssumption, FS_CardinalityType DEF TypeOK
<1>7. Cardinality(L) <= arg[r].limit
  BY <1>5, <1>6 DEF Unlimited
<1>8. Min({arg[r].limit, Cardinality(L)}) = Cardinality(L)
  BY <1>6, <1>7 DEF Min
<1>9. PICK S \in SUBSET L : /\ Cardinality(S) = Min({arg[r].limit, Cardinality(L)})
                            /\ todo'[r] = S
  BY DEF Select, TypeOK, L
<1>10. S = L
  BY <1>5, <1>8, <1>9, FS_Subset
<1> QED
  BY <1>9, <1>10 DEF L

\* A run of vectors leaves out no paper.
LEMMA CoversStep ==
    ASSUME IInv, [Next]_vars
    PROVE  Covers'
<1>0. TypeOK /\ KindsFit /\ MeetingIsMutual /\ WorkIsApart /\ Covers /\ Onward
  BY OnwardStep DEF IInv
<1>1. SUFFICES ASSUME NEW q \in Runs, Is(q, "embed")', Unlimited(q)', pc'[q] \in {"next", "vectors"},
                      \A s \in met'[q] : ~ (arg'[s].kind = "embed" /\ arg'[s].force),
                      NEW p \in sight'[q] \ Untitled
               PROVE  vector'[p] # None \/ p \in PapersOf(InHand(q)')
  BY DEF Covers, Is, PapersOf
<1>6. CorpusOK'
  BY <1>0, CorpusTypes
<1>7. p \in Papers
  BY <1>1, <1>6 DEF CorpusOK
<1>2. ASSUME pc[q] \in {"next", "vectors"}, arg'[q] = arg[q]
      PROVE  vector[p] # None \/ p \in PapersOf(InHand(q))
  <2>1. \A s \in met[q] : s \in Runs /\ pc[s] # "off"
    BY <1>0 DEF MeetingIsMutual, TypeOK
  <2>2. \A s \in met[q] : ~ (Is(s, "embed") /\ arg[s].force)
    BY <1>0, <1>1, <2>1 DEF Onward, Is
  <2>3. p \in sight[q]
    <3>1. ~ Select(q)
      BY <1>2 DEF Select
    <3> QED
      BY <1>0, <1>1, <3>1, SightFacts
  <2> QED
    BY <1>0, <1>1, <1>2, <2>2, <2>3 DEF Covers, Is, Unlimited
<1>3. ASSUME NEW r \in Runs, Launch(r)
      PROVE  vector'[p] # None \/ p \in PapersOf(InHand(q)')
  <2>1. q # r /\ pc'[q] = pc[q] /\ arg'[q] = arg[q]
    <3>1. row[r] = NoRow /\ run[r] = NoRow
      BY <1>0, <1>3, LaunchFacts DEF KindsFit
    <3> QED
      BY <1>0, <1>1, <1>3, <3>1, LaunchRows
  <2>2. ~ Reset(r)
    <3>1. r \in met'[q]
      BY <1>0, <1>1, <1>3, <2>1, LaunchFacts DEF Alive
    <3>2. ~ (arg'[r].kind = "embed" /\ arg'[r].force)
      BY <1>1, <3>1
    <3> QED
      BY <1>0, <3>2 DEF Reset, Starts, TypeOK
  <2>3. vector' = vector /\ InHand(q)' = InHand(q)
    BY <1>3, <2>2, HandFacts DEF Launch, BeginFetch, BeginChunk, BeginEmbed
  <2> QED
    BY <1>1, <1>2, <2>1, <2>3
<1>4. ASSUME NEW r \in Runs, Move(r)
      PROVE  vector'[p] # None \/ p \in PapersOf(InHand(q)')
  <2>1. arg' = arg /\ met' = met /\ Is(q, "embed") /\ Unlimited(q)
    BY <1>0, <1>1, <1>4, MoveFacts DEF Is, Unlimited
  <2>2. vector[p] # None => vector'[p] # None
    BY <1>4, <1>7, MoveTables, NoneAssumption DEF SaveVectors
  <2>3. CASE q # r
    BY <1>0, <1>1, <1>2, <1>4, <2>1, <2>2, <2>3, MoveFacts, HandFacts
  <2>4. CASE q = r
    <3>1. CASE Select(r)
      <4>1. todo'[r] = Lacking(r) /\ vector' = vector
        BY <1>0, <2>1, <2>4, <3>1, SelectsAll DEF Select, tables
      <4>2. Lacking(r) = Plain({s \in corpus : vector[s] = None})
        BY <2>1, <2>4 DEF Lacking, Unembedded, Is
      <4>5. p \in corpus
        BY <1>0, <1>1, <2>4, <3>1, SightFacts
      <4>3. vector[p] = None => [paper |-> p, text |-> None] \in todo'[r]
        BY <4>1, <4>2, <4>5 DEF Plain
      <4> QED
        BY <1>7, <2>2, <2>4, <4>3 DEF PapersOf, InHand
    <3>2. CASE TakeBatch(r)
      <4>1. InHand(r)' = InHand(r) /\ vector' = vector /\ pc[r] = "next"
        <5>1. batch[r] = {}
          BY <1>0, <3>2 DEF TakeBatch, WorkIsApart
        <5> QED
          BY <1>0, <3>2, <5>1, OwnWork DEF InHand, TakeBatch, tables
      <4> QED
        BY <1>2, <2>1, <2>4, <4>1
    <3>3. CASE SaveVectors(r)
      <4>1. todo'[r] = todo[r] /\ pc[r] = "vectors"
        BY <1>0, <3>3, OwnWork
      <4>2. vector[p] # None \/ p \in PapersOf(todo[r]) \/ p \in PapersOf(batch[r])
        BY <1>2, <2>1, <2>4, <4>1 DEF InHand, PapersOf
      <4>3. p \in PapersOf(batch[r]) => vector'[p] = r
        BY <1>7, <3>3 DEF SaveVectors, Embeddable
      <4> QED
        BY <2>2, <2>4, <4>1, <4>2, <4>3, NoneAssumption DEF InHand, PapersOf
    <3>4. ~ (OpenAfterReset(r) \/ Finish(r) \/ Kill(r) \/ RollsBack(r) \/ CutFails(r)
             \/ VectorsFail(r) \/ HandlerFails(r))
      BY <1>0, <1>1, <2>4, OwnWork
    <3>5. ~ (Skip(r) \/ FetchFails(r) \/ Fetched(r) \/ TakeText(r))
      BY <1>0, <2>1, <2>4, OwnWork DEF Is
    <3>6. ~ (Store(r) \/ Refused(r) \/ Save(r) \/ AddPart(r) \/ SaveChunks(r))
      BY <1>0, <2>1, <2>4, OwnWork DEF KindsFit, Is
    <3> QED
      BY <1>4, <3>1, <3>2, <3>3, <3>4, <3>5, <3>6 DEF Move
  <2> QED
    BY <2>3, <2>4
<1>5. CASE Quiet
  <2>1. pc' = pc /\ arg' = arg /\ vector' = vector /\ InHand(q)' = InHand(q)
    BY <1>5 DEF Quiet, tables, work, InHand
  <2> QED
    BY <1>1, <1>2, <2>1
<1> QED
  BY <1>3, <1>4, <1>5, NextIsLaunchOrMove

\* The batches of paragraphs held are of the text it is at.
LEMMA PartsStep ==
    ASSUME IInv, [Next]_vars
    PROVE  PartsFit'
<1>0. TypeOK /\ KindsFit /\ WorkIsApart /\ PartsFit /\ ChunkWorkIsFresh
  BY DEF IInv
<1> DEFINE Fits(p, b, n) == /\ p # "cut" => n = 0
                            /\ p = "cut" => \A x \in b : n <= Batches[x.text]
<1>1. \A q \in Runs : Fits(pc[q], batch[q], hold[q].parts)
  BY <1>0 DEF PartsFit
<1>2. SUFFICES \A q \in Runs : Fits(pc'[q], batch'[q], hold'[q].parts)
  BY DEF PartsFit
<1>3. ASSUME NEW r \in Runs, Launch(r)
      PROVE  \A q \in Runs : Fits(pc'[q], batch'[q], hold'[q].parts)
  <2>1. /\ UNCHANGED <<batch, hold>> /\ pc[r] = "off" /\ pc'[r] # "cut"
        /\ \A q \in Runs \ {r} : pc'[q] = pc[q]
    BY <1>0, <1>3, LaunchFacts DEF TypeOK
  <2> QED
    BY <1>1, <2>1
<1>4. ASSUME NEW r \in Runs, Move(r)
      PROVE  \A q \in Runs : Fits(pc'[q], batch'[q], hold'[q].parts)
  <2>1. \A q \in Runs \ {r} : Fits(pc'[q], batch'[q], hold'[q].parts)
    BY <1>0, <1>1, <1>4, MoveFacts
  <2>2. Fits(pc[r], batch[r], hold[r].parts)
    BY <1>1
  <2>3. Fits(pc'[r], batch'[r], hold'[r].parts)
    <3>1. CASE \/ Finish(r) \/ RollsBack(r) \/ CutFails(r) \/ VectorsFail(r) \/ HandlerFails(r)
               \/ Kill(r) \/ OpenAfterReset(r) \/ Select(r) \/ TakeBatch(r)
      BY <1>0, <2>2, <3>1, OwnWork, NoRowType
    <3>2. CASE Save(r) \/ SaveChunks(r)
      BY <1>0, <3>2, OwnWork, NoRowType
    <3>3. CASE SaveVectors(r)
      BY <1>0, <2>2, <3>3, OwnWork
    <3>4. CASE Skip(r) \/ FetchFails(r) \/ Fetched(r)
      <4>1. \A x, c, k : TakeUp(r, x, c, k) => hold'[r] = k
        BY <1>0 DEF TakeUp, TypeOK
      <4>2. hold'[r].parts = 0
        <5>1. \A e, t : [Nothing EXCEPT !.error = e].parts = 0 /\ [Nothing EXCEPT !.text = t].parts = 0
          BY DEF Nothing
        <5>2. CASE Skip(r)
          BY <4>1, <5>2, NoRowType DEF Skip
        <5>3. CASE FetchFails(r)
          BY <4>1, <5>1, <5>3 DEF FetchFails
        <5>4. CASE Fetched(r)
          BY <4>1, <5>1, <5>4 DEF Fetched
        <5> QED
          BY <3>4, <5>2, <5>3, <5>4
      <4>3. pc'[r] \in {"save", "store"}
        BY <1>0, <3>4, OwnWork
      <4> QED
        BY <4>2, <4>3
    <3>5. CASE Store(r)
      <4>1. hold'[r].parts = hold[r].parts
        BY <1>0, <3>5 DEF Store, TypeOK
      <4> QED
        BY <1>0, <2>2, <3>5, <4>1, OwnWork
    <3>6. CASE Refused(r)
      <4>1. hold'[r].parts = 0
        BY <1>0, <3>6 DEF Refused, TypeOK, Nothing
      <4> QED
        BY <1>0, <3>6, <4>1, OwnWork
    <3>7. CASE TakeText(r)
      <4>1. /\ pc[r] = "next" /\ Is(r, "chunk") /\ hold'[r] = hold[r]
            /\ \E x \in todo[r] : batch'[r] = {x}
        BY <1>0, <3>7, OwnWork
      <4>2. \A x \in todo[r] : Batches[x.text] \in Nat
        BY <1>0, <4>1, TextsAssumption DEF ChunkWorkIsFresh, InHand, TypeOK, Loaded
      <4> QED
        BY <2>2, <4>1, <4>2
    <3>8. CASE AddPart(r)
      <4>1. pc[r] = "cut" /\ Is(r, "chunk") /\ batch'[r] = batch[r] /\ Remaining(r)
        BY <1>0, <3>8 DEF AddPart, KindsFit
      <4>2. PICK x \in Loaded : batch[r] = {x}
        BY <1>0, <4>1 DEF WorkIsApart
      <4>3. Batches[x.text] \in Nat /\ hold[r].parts \in Nat
        BY <1>0, <4>1, <4>2, TextsAssumption DEF ChunkWorkIsFresh, InHand, TypeOK, Loaded
      <4>4. hold'[r].parts = hold[r].parts + 1
        BY <1>0, <3>8 DEF AddPart, TypeOK
      <4>5. hold[r].parts + 1 <= Batches[x.text]
        BY <4>1, <4>2, <4>3 DEF Remaining
      <4>6. pc'[r] = "cut"
        BY <1>0, <3>8, OwnWork
      <4>7. \A y \in batch'[r] : hold'[r].parts <= Batches[y.text]
        BY <4>1, <4>2, <4>4, <4>5
      <4> QED
        BY <4>6, <4>7
    <3> QED
      BY <1>4, <3>1, <3>2, <3>3, <3>4, <3>5, <3>6, <3>7, <3>8 DEF Move
  <2> QED
    BY <2>1, <2>3
<1>5. CASE Quiet
  BY <1>1, <1>5 DEF Quiet, tables, work
<1> QED
  BY <1>3, <1>4, <1>5, NextIsLaunchOrMove

\* A chunking run that is alone: what the step does to it.
LEMMA RebuildsOwn ==
    ASSUME IInv, NEW r \in Alive, Move(r), r \in Alive',
           Is(r, "chunk"), arg[r].force, met[r] = {}
    PROVE  /\ pc'[r] # "select" /\ text' = text
           /\ \A c \in chunks' : c.by = r
           /\ \A x \in InHand(r)' : x.text = text[x.paper]
           /\ Unlimited(r) /\ pc'[r] \in {"next", "cut"} =>
                 \A p \in Papers : text[p] # None =>
                     p \in PapersOf(InHand(r)') \/ PartsOf(p)' = AllParts(p)
<1>0. /\ TypeOK /\ KindsFit /\ WorkIsApart /\ ChunkWorkIsFresh /\ PartsFit /\ Rebuilds
      /\ CorpusHolds /\ r \in Runs
  BY DEF IInv, Alive
<1>1. /\ pc[r] = "select" => chunks = {}
      /\ \A c \in chunks : c.by = r
      /\ \A x \in InHand(r) : x.text = text[x.paper]
      /\ Unlimited(r) /\ pc[r] \in {"next", "cut"} =>
           \A p \in Papers : text[p] # None =>
               p \in PapersOf(InHand(r)) \/ PartsOf(p) = AllParts(p)
  BY <1>0 DEF Rebuilds
<1>2. CASE Select(r)
  <2>1. /\ chunks = {} /\ chunks' = {} /\ text' = text /\ pc'[r] = "next" /\ batch'[r] = {}
        /\ todo'[r] \subseteq Lacking(r)
    BY <1>0, <1>1, <1>2, OwnWork DEF Select, tables, WorkIsApart
  <2>2. InHand(r)' = todo'[r]
    BY <2>1 DEF InHand
  <2>3. Lacking(r) = WithText({p \in corpus : text[p] # None})
    BY <2>1 DEF Lacking, Unchunked, PapersOf, Is
  <2>4. \A x \in Lacking(r) : x.text = text[x.paper]
    BY <2>3 DEF WithText
  <2>5. ASSUME Unlimited(r), NEW p \in Papers, text[p] # None
        PROVE  p \in PapersOf(InHand(r)')
    <3>1. [paper |-> p, text |-> text[p]] \in todo'[r]
      BY <1>0, <1>2, <2>3, <2>5, SelectsAll DEF WithText, CorpusHolds
    <3> QED
      BY <2>2, <3>1 DEF PapersOf
  <2> QED
    BY <2>1, <2>2, <2>4, <2>5
<1>3. CASE TakeText(r)
  <2>1. chunks' = chunks /\ text' = text /\ pc[r] = "next" /\ pc'[r] = "cut"
    BY <1>0, <1>3, OwnWork DEF TakeText, tables
  <2>2. InHand(r)' = InHand(r)
    BY <1>0, <1>3, <2>1, OwnWork DEF InHand, WorkIsApart
  <2>3. \A p : PartsOf(p)' = PartsOf(p)
    BY <2>1 DEF PartsOf
  <2> QED
    BY <1>1, <2>1, <2>2, <2>3
<1>4. CASE AddPart(r)
  <2>1. chunks' = chunks /\ text' = text /\ pc[r] = "cut" /\ pc'[r] = "cut"
    BY <1>0, <1>4, OwnWork DEF AddPart, tables
  <2>2. InHand(r)' = InHand(r)
    BY <1>0, <1>4, OwnWork DEF InHand
  <2>3. \A p : PartsOf(p)' = PartsOf(p)
    BY <2>1 DEF PartsOf
  <2> QED
    BY <1>1, <2>1, <2>2, <2>3
<1>5. CASE SaveChunks(r)
  <2>1. /\ pc[r] = "cut" /\ pc'[r] = "next" /\ text' = text /\ todo'[r] = todo[r]
        /\ batch'[r] = {} /\ ~ Remaining(r)
        /\ chunks' = chunks \cup Cut(r, hold[r].parts)
    BY <1>0, <1>5, OwnWork DEF SaveChunks
  <2>2. PICK x \in Loaded : batch[r] = {x}
    BY <1>0, <2>1 DEF WorkIsApart
  <2>3. x \in InHand(r) /\ x.text = text[x.paper]
    BY <1>1, <2>2 DEF InHand
  <2>4. \A c \in chunks : c.paper # x.paper
    BY <1>0, <2>3 DEF ChunkWorkIsFresh
  <2>5. hold[r].parts = Batches[x.text]
    <3>1. Batches[x.text] \in Nat /\ hold[r].parts \in Nat
      BY <1>0, <2>3, TextsAssumption DEF ChunkWorkIsFresh, TypeOK, Loaded
    <3>2. hold[r].parts <= Batches[x.text]
      BY <1>0, <2>1, <2>2 DEF PartsFit
    <3>3. ~ (hold[r].parts < Batches[x.text])
      BY <2>1, <2>2 DEF Remaining
    <3> QED
      BY <3>1, <3>2, <3>3
  <2> DEFINE part(i) == [paper |-> x.paper, text |-> x.text, part |-> i, by |-> r]
             added == {part(i) : i \in 1..Batches[x.text]}
  <2>6. chunks' = chunks \cup added
    BY <2>1, <2>2, <2>5 DEF Cut
  <2>7. \A i : /\ part(i).paper = x.paper /\ part(i).text = x.text /\ part(i).by = r
               /\ part(i).part = i
    OBVIOUS
  <2> HIDE DEF part
  <2>8. \A p \in Papers : p # x.paper => PartsOf(p)' = PartsOf(p)
    BY <2>6, <2>7 DEF PartsOf
  <2>9. PartsOf(x.paper)' = AllParts(x.paper)
    <3>1. {d \in chunks' : d.paper = x.paper} = added
      BY <2>4, <2>6, <2>7
    <3>2. PartsOf(x.paper)' = {[part |-> c.part, text |-> c.text] : c \in added}
      BY <3>1 DEF PartsOf
    <3> QED
      BY <2>3, <2>7, <3>2 DEF AllParts
  <2>10. \A p \in Papers : p \in PapersOf(InHand(r)) => p = x.paper \/ p \in PapersOf(InHand(r)')
    BY <2>1, <2>2 DEF InHand, PapersOf
  <2>11. InHand(r)' \subseteq InHand(r)
    BY <2>1 DEF InHand
  <2>12. \A c \in chunks' : c.by = r
    BY <1>1, <2>6, <2>7
  <2>13. ASSUME Unlimited(r), NEW p \in Papers, text[p] # None
         PROVE  p \in PapersOf(InHand(r)') \/ PartsOf(p)' = AllParts(p)
    BY <1>1, <2>1, <2>8, <2>9, <2>10, <2>13
  <2> QED
    BY <1>1, <2>1, <2>11, <2>12, <2>13
<1>6. ~ (Finish(r) \/ Kill(r) \/ RollsBack(r) \/ CutFails(r) \/ VectorsFail(r) \/ HandlerFails(r))
  BY <1>0, OwnWork DEF Alive
<1>7. ~ (Skip(r) \/ FetchFails(r) \/ Fetched(r) \/ TakeBatch(r))
  BY <1>0, OwnWork DEF Is
<1>8. ~ (OpenAfterReset(r) \/ Store(r) \/ Refused(r) \/ Save(r) \/ SaveVectors(r))
  BY <1>0, OwnWork DEF KindsFit, Is
<1> QED
  BY <1>2, <1>3, <1>4, <1>5, <1>6, <1>7, <1>8 DEF Move

\* A run that chunks everything again, and is alone, leaves out no paper.
LEMMA RebuildsStep ==
    ASSUME IInv, [Next]_vars
    PROVE  Rebuilds'
<1>0. TypeOK /\ KindsFit /\ MeetingIsMutual /\ WorkIsApart /\ Rebuilds /\ Onward
  BY OnwardStep DEF IInv
<1> DEFINE Goal(r) ==
        /\ pc[r] = "select" => chunks = {}
        /\ \A c \in chunks : c.by = r
        /\ \A x \in InHand(r) : x.text = text[x.paper]
        /\ Unlimited(r) /\ pc[r] \in {"next", "cut"} =>
             \A p \in Papers : text[p] # None =>
                 p \in PapersOf(InHand(r)) \/ PartsOf(p) = AllParts(p)
<1>1. SUFFICES ASSUME NEW q \in Alive', Is(q, "chunk")', arg'[q].force, met'[q] = {}
               PROVE  Goal(q)'
  BY DEF Rebuilds
<1>2. q \in Runs
  BY DEF Alive
<1>3. ASSUME NEW r \in Runs, Launch(r)
      PROVE  Goal(q)'
  <2>0. row[r] = NoRow /\ run[r] = NoRow /\ pc[r] = "off"
    BY <1>0, <1>3, LaunchFacts DEF KindsFit
  <2>1. q = r
    <3> SUFFICES ASSUME q # r PROVE FALSE
      OBVIOUS
    <3>1. q \in Alive
      BY <1>0, <1>2, <1>3, <2>0, LaunchRows DEF Alive
    <3>2. r \in met'[q]
      BY <1>0, <1>2, <1>3, <3>1, LaunchFacts
    <3> QED
      BY <1>1, <3>2
  <2>2. \E force \in BOOLEAN : BeginChunk(r, force)
    BY <1>0, <1>1, <1>3, <2>1 DEF Launch, BeginFetch, BeginEmbed, Reset, Starts, Is, TypeOK
  <2>3. chunks' = {} /\ pc'[r] = "select"
    BY <1>0, <1>1, <2>1, <2>2 DEF BeginChunk, Starts, TypeOK
  <2>4. InHand(r)' = {}
    BY <1>3, HandFacts
  <2> QED
    BY <2>1, <2>3, <2>4
<1>4. ASSUME NEW r \in Runs, Move(r)
      PROVE  Goal(q)'
  <2>1. arg' = arg /\ met' = met /\ r \in Alive /\ q \in Alive
    BY <1>0, <1>4, MoveFacts
  <2>2. q = r
    BY <1>0, <1>1, <2>1 DEF MeetingIsMutual
  <2>3. Is(r, "chunk") /\ arg[r].force /\ met[r] = {}
    BY <1>1, <2>1, <2>2 DEF Is
  <2>4. /\ pc'[r] # "select" /\ text' = text
        /\ \A c \in chunks' : c.by = r
        /\ \A x \in InHand(r)' : x.text = text[x.paper]
        /\ Unlimited(r) /\ pc'[r] \in {"next", "cut"} =>
              \A p \in Papers : text[p] # None =>
                  p \in PapersOf(InHand(r)') \/ PartsOf(p)' = AllParts(p)
    BY <1>4, <2>1, <2>2, <2>3, RebuildsOwn
  <2>5. /\ \A p : AllParts(p)' = AllParts(p)
        /\ Unlimited(r)' = Unlimited(r)
    BY <2>1, <2>4 DEF AllParts, Unlimited
  <2>6. \A p : PapersOf(InHand(r)') = PapersOf(InHand(r))'
    BY DEF PapersOf, InHand
  <2> QED
    BY <2>2, <2>4, <2>5, <2>6
<1>5. CASE Quiet
  <2>1. q \in Alive /\ Is(q, "chunk") /\ arg[q].force /\ met[q] = {}
    BY <1>1, <1>5 DEF Quiet, work, Alive, Is
  <2>2. Goal(q)
    BY <1>0, <2>1 DEF Rebuilds
  <2>3. Goal(q)' = Goal(q)
    BY <1>5 DEF Quiet, tables, work, InHand, PapersOf, PartsOf, AllParts, Unlimited
  <2> QED
    BY <2>2, <2>3
<1> QED
  BY <1>3, <1>4, <1>5, NextIsLaunchOrMove

-----------------------------------------------------------------------------
(* Theorems.                                                               *)

\* Papers stay in the table, and texts and work come from there.
LEMMA CorpusStep ==
    ASSUME IInv, [Next]_vars
    PROVE  CorpusHolds'
<1>0. TypeOK /\ CorpusHolds /\ corpus \subseteq corpus'
  BY CorpusTypes DEF IInv
<1>1. ASSUME NEW r \in Runs, Launch(r)
      PROVE  CorpusHolds'
  <2>1. text' = text /\ \A q \in Runs : InHand(q)' = InHand(q)
    BY <1>1, LaunchTables, HandFacts
  <2> QED
    BY <1>0, <2>1 DEF CorpusHolds, PapersOf
<1>2. ASSUME NEW r \in Runs, Move(r)
      PROVE  CorpusHolds'
  <2>1. \A q \in Runs : PapersOf(InHand(q)') \subseteq corpus
    <3>1. \A q \in Runs \ {r} : InHand(q)' = InHand(q)
      BY <1>2, HandFacts
    <3>2. InHand(r)' \subseteq InHand(r) \/ InHand(r)' \subseteq Lacking(r)
      BY <1>2, HandFacts
    <3>3. PapersOf(Lacking(r)) \subseteq corpus
      BY <1>0, LackingType
    <3>4. PapersOf(InHand(r)') \subseteq corpus
      BY <1>0, <3>2, <3>3 DEF CorpusHolds, PapersOf
    <3> QED
      BY <1>0, <3>1, <3>4 DEF CorpusHolds
  <2>2. \A p \in Papers : text'[p] # None => p \in corpus
    <3>1. CASE Save(r)
      <4>1. PapersOf(batch[r]) \subseteq corpus
        BY <1>0 DEF CorpusHolds, InHand, PapersOf
      <4> QED
        BY <1>0, <3>1, <4>1 DEF Save, CorpusHolds
    <3>2. CASE text' = text
      BY <1>0, <3>2 DEF CorpusHolds
    <3> QED
      BY <1>2, <3>1, <3>2, MoveTables
  <2> QED
    BY <1>0, <2>1, <2>2 DEF CorpusHolds, PapersOf
<1>3. CASE Quiet
  <2>1. text' = text /\ \A q \in Runs : InHand(q)' = InHand(q)
    BY <1>3 DEF Quiet, tables, work, InHand
  <2> QED
    BY <1>0, <2>1 DEF CorpusHolds, PapersOf
<1> QED
  BY <1>1, <1>2, <1>3, NextIsLaunchOrMove

\* The initial state.
LEMMA Start == Init => IInv
<1> SUFFICES ASSUME Init PROVE IInv
  OBVIOUS
<1>1. TypeOK
  BY NoRowType, NothingType, PapersAssumption DEF Init, TypeOK, Kinds, Holdings
<1>2. KindsFit /\ MeetingIsMutual
  BY NoRowType DEF Init, KindsFit, MeetingIsMutual, Is, Alive
<1>3. WorkIsApart /\ ChunkWorkIsFresh /\ FetchWorkIsFresh /\ VectorWorkIsFresh
  BY NoRowType DEF Init, WorkIsApart, ChunkWorkIsFresh, FetchWorkIsFresh, VectorWorkIsFresh,
                   InHand, Is
<1>4. CountersFollow /\ VectorsHaveAuthors
  BY NoRowType DEF Init, CountersFollow, VectorsHaveAuthors, Alive, Is
<1>5. ErrorsAreSeen /\ CountsAddUp
  <2>1. \A r \in Runs : {e \in errors : e.by = r} = {}
    BY DEF Init
  <2> QED
    BY <2>1, FS_EmptySet, NoRowType DEF Init, ErrorsAreSeen, CountsAddUp
<1>6. ChunksAreWhole /\ TwiceCutNeedsOverlap /\ StaleNeedsRefetch
  BY DEF Init, ChunksAreWhole, TwiceCutNeedsOverlap, StaleNeedsRefetch
<1>7. VectorsAreCounted /\ CorpusHolds
  BY DEF Init, VectorsAreCounted, Is, CorpusHolds, PapersOf, InHand
<1>8. Covers /\ PartsFit /\ Rebuilds
  BY NoRowType DEF Init, Covers, PartsFit, Rebuilds, Alive
<1> QED
  BY <1>1, <1>2, <1>3, <1>4, <1>5, <1>6, <1>7, <1>8 DEF IInv

\* Every step of every operation.
LEMMA Inductive ==
    ASSUME IInv, [Next]_vars
    PROVE  IInv'
BY TypeStep, KindsStep, MeetingStep, WorkStep, ChunkWorkStep, FetchWorkStep, VectorWorkStep,
   CountersStep, ErrorsStep, VectorsStep, CoversStep, PartsStep, RebuildsStep, ChunksStep,
   CorpusStep DEF IInv

LEMMA Invariant == Spec => []IInv
<1>1. IInv /\ [Next]_vars => IInv'
  BY Inductive
<1> QED
  BY <1>1, Start, PTL DEF Spec

\* The types, whatever fails and whatever overlaps.
THEOREM TypeCorrect == Spec => []TypeOK
<1>1. IInv => TypeOK
  BY DEF IInv
<1> QED
  BY <1>1, Invariant, PTL

\* The committed counters of a fetch add up, with its error rows.
THEOREM FetchesAddUp == Spec => []CountsAddUp
<1>1. IInv => CountsAddUp
  BY DEF IInv
<1> QED
  BY <1>1, Invariant, PTL

\* A text is cut whole or not at all, whatever fails on the way.
THEOREM ChunksStayWhole == Spec => []ChunksAreWhole
<1>1. IInv => ChunksAreWhole
  BY DEF IInv
<1> QED
  BY <1>1, Invariant, PTL

\* The chunks of a paper come twice only from runs that met.
THEOREM DoublesHadOverlap == Spec => []TwiceCutNeedsOverlap
<1>1. IInv => TwiceCutNeedsOverlap
  BY DEF IInv
<1> QED
  BY <1>1, Invariant, PTL

\* A chunk of another text than the paper's had a forced fetch or an overlap.
THEOREM StaleHadRefetch == Spec => []StaleNeedsRefetch
<1>1. IInv => StaleNeedsRefetch
  BY DEF IInv
<1> QED
  BY <1>1, Invariant, PTL

\* The count of a run is that of its vectors, unless a run started over.
THEOREM CountsAreVectors == Spec => []VectorsAreCounted
<1>1. IInv => VectorsAreCounted
  BY DEF IInv
<1> QED
  BY <1>1, Invariant, PTL

\* A run alone that chunks everything again ends with the chunks of every text.
THEOREM RebuildIsRight == Spec => RebuildIsExact
<1> DEFINE Right == \A r \in Runs :
          /\ pc[r] = "next" /\ pc'[r] = "end" /\ Is(r, "chunk")
          /\ arg[r].force /\ Unlimited(r) /\ met[r] = {}
          => /\ \A p \in Papers : text[p] # None => PartsOf(p) = AllParts(p)
             /\ \A c \in chunks : c.by = r
<1>1. ASSUME IInv, [Next]_vars
      PROVE  Right
  <2>0. TypeOK /\ WorkIsApart /\ Rebuilds
    BY <1>1 DEF IInv
  <2> SUFFICES ASSUME NEW r \in Runs, pc[r] = "next", pc'[r] = "end", Is(r, "chunk"),
                      arg[r].force, Unlimited(r), met[r] = {}
               PROVE  /\ \A p \in Papers : text[p] # None => PartsOf(p) = AllParts(p)
                      /\ \A c \in chunks : c.by = r
    OBVIOUS
  <2>1. Move(r)
    <3>1. ~ Quiet
      BY DEF Quiet
    <3>2. PICK q \in Runs : Launch(q) \/ Move(q)
      BY <1>1, <3>1, NextIsLaunchOrMove
    <3>3. ~ Launch(q)
      BY <2>0, LaunchFacts DEF TypeOK
    <3> QED
      BY <2>0, <3>2, <3>3, MoveFacts
  <2>2. Finish(r)
    <3>1. ~ (OpenAfterReset(r) \/ Select(r) \/ Kill(r) \/ Skip(r) \/ FetchFails(r) \/ Fetched(r))
      BY <2>0, OwnWork
    <3>2. ~ (Store(r) \/ Refused(r) \/ Save(r) \/ TakeText(r) \/ AddPart(r) \/ SaveChunks(r))
      BY <2>0, OwnWork
    <3>3. ~ (TakeBatch(r) \/ SaveVectors(r))
      BY <2>0, OwnWork
    <3>4. ~ (RollsBack(r) \/ CutFails(r) \/ VectorsFail(r) \/ HandlerFails(r))
      BY DEF RollsBack, CutFails, VectorsFail, HandlerFails, Is
    <3> QED
      BY <2>1, <3>1, <3>2, <3>3, <3>4 DEF Move
  <2>3. InHand(r) = {}
    BY <2>0, <2>2 DEF Finish, WorkIsApart, InHand
  <2>4. PapersOf(InHand(r)) = {}
    BY <2>3 DEF PapersOf
  <2>5. r \in Alive
    BY DEF Alive
  <2> QED
    BY <2>0, <2>4, <2>5 DEF Rebuilds
<1>2. IInv /\ [Next]_vars => [Right]_vars
  BY <1>1
<1> HIDE DEF Right
<1>3. Spec => [][Right]_vars
  BY <1>2, Invariant, PTL DEF Spec
<1> QED
  BY <1>3 DEF RebuildIsExact, Right

\* A run without a limit that is recorded as completed left out no titled paper
\* of those that were there when it selected.
THEOREM CompletionIsCover == Spec => CompletionMeansCovered
<1> DEFINE Right == \A r \in Runs :
          /\ Is(r, "embed") /\ Unlimited(r)
          /\ row[r].status = "running" /\ row'[r].status = "completed"
          /\ \A q \in met[r] : ~ (Is(q, "embed") /\ arg[q].force)
          => \A p \in sight[r] \ Untitled : vector'[p] # None
<1>1. ASSUME IInv, [Next]_vars
      PROVE  Right
  <2>0. TypeOK /\ KindsFit /\ WorkIsApart /\ Covers
    BY <1>1 DEF IInv
  <2> SUFFICES ASSUME NEW r \in Runs, Is(r, "embed"), Unlimited(r),
                      row[r].status = "running", row'[r].status = "completed",
                      \A q \in met[r] : ~ (Is(q, "embed") /\ arg[q].force)
               PROVE  \A p \in sight[r] \ Untitled : vector'[p] # None
    OBVIOUS
  <2>1. Move(r)
    <3>1. ~ Quiet
      BY DEF Quiet, tables
    <3>2. PICK q \in Runs : Launch(q) \/ Move(q)
      BY <1>1, <3>1, NextIsLaunchOrMove
    <3>3. ASSUME Launch(q)
          PROVE  FALSE
      <4>1. row[q] = NoRow /\ run[q] = NoRow
        BY <2>0, <3>3, LaunchFacts DEF KindsFit
      <4> QED
        BY <2>0, <3>3, <4>1, LaunchRows, NoRowType
    <3> QED
      BY <2>0, <3>2, <3>3, MoveFacts
  <2>2. row[r] \in Rows /\ run[r] \in Rows /\ r \in Alive
    BY <2>0, <2>1, MoveFacts DEF TypeOK
  <2>3. Finish(r)
    <3>1. ~ (Save(r) \/ SaveVectors(r))
      <4>1. run[r].status # "completed"
        BY <2>0, <2>2 DEF KindsFit
      <4> QED
        BY <2>0, <2>2, <4>1, RowFacts DEF Rows
    <3>2. ~ (OpenAfterReset(r) \/ RollsBack(r) \/ VectorsFail(r))
      BY <2>0, <2>2, RowFacts DEF Rows
    <3>3. ~ (Select(r) \/ TakeText(r) \/ AddPart(r) \/ SaveChunks(r) \/ Skip(r) \/ FetchFails(r)
             \/ Fetched(r) \/ TakeBatch(r) \/ Store(r) \/ Refused(r))
      BY <2>0, RowFacts
    <3>4. ~ (Kill(r) \/ CutFails(r) \/ HandlerFails(r))
      BY <2>0, RowFacts
    <3> QED
      BY <2>1, <3>1, <3>2, <3>3, <3>4 DEF Move
  <2>4. /\ pc[r] = "next" /\ vector' = vector
        /\ InHand(r) = {}
    BY <2>0, <2>3 DEF Finish, WorkIsApart, InHand
  <2>5. PapersOf(InHand(r)) = {}
    BY <2>4 DEF PapersOf
  <2> QED
    BY <2>0, <2>4, <2>5 DEF Covers
<1>2. IInv /\ [Next]_vars => [Right]_vars
  BY <1>1
<1> HIDE DEF Right
<1>3. Spec => [][Right]_vars
  BY <1>2, Invariant, PTL DEF Spec
<1> QED
  BY <1>3 DEF CompletionMeansCovered, Right
=============================================================================
