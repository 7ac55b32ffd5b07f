-------------------------- MODULE CorpusBatchesProofs --------------------------
(***************************************************************************)
(* Proofs about the batches that detect gaps and fetch citations, for any  *)
(* number of runs, papers and drafts.                                      *)
(***************************************************************************)
EXTENDS CorpusBatches, FunctionTheorems, FiniteSetTheorems, TLAPS

Over == {"off", "completed", "failed", "raised", "aborted", "killed"}

-----------------------------------------------------------------------------
(* Counters and cardinalities *)

LEMMA ZeroIsCounts ==
    Zero \in Counts /\ Zero.made = 0
BY DEF Zero, Counts

\* What adding to the counters of a run does to them.
LEMMA Adding ==
    ASSUME NEW r \in Runs, count \in [Runs -> Counts], NEW fields,
           \A f \in DOMAIN fields : fields[f] \in Nat,
           Add(r, fields)
    PROVE  /\ count' \in [Runs -> Counts]
           /\ \A q \in Runs : q # r => count'[q] = count[q]
           /\ count'[r].made = count[r].made + (IF "made" \in DOMAIN fields THEN fields["made"] ELSE 0)
<1> DEFINE new == [f \in DOMAIN count[r] |-> count[r][f] + IF f \in DOMAIN fields THEN fields[f] ELSE 0]
<1>1. count[r] \in Counts
    OBVIOUS
<1>2. DOMAIN count[r] = {"seen", "skipped", "failed", "found", "made"}
    BY <1>1 DEF Counts
<1>3. \A f \in {"seen", "skipped", "failed", "found", "made"} : count[r][f] \in Nat
    BY <1>1 DEF Counts
<1>4. \A f \in {"seen", "skipped", "failed", "found", "made"} : new[f] \in Nat
    BY <1>2, <1>3
<1>5. DOMAIN new = {"seen", "skipped", "failed", "found", "made"}
    BY <1>2
<1>6. new = [seen |-> new["seen"], skipped |-> new["skipped"], failed |-> new["failed"],
             found |-> new["found"], made |-> new["made"]]
    BY <1>5
<1>7. new \in Counts
    <2> HIDE DEF new
    <2> QED
        BY <1>4, <1>6 DEF Counts
<1>8. count' = [count EXCEPT ![r] = new]
    BY DEF Add
<1>9. new.made = count[r].made + (IF "made" \in DOMAIN fields THEN fields["made"] ELSE 0)
    BY <1>2
<1> HIDE DEF new
<1> QED
    BY <1>7, <1>8, <1>9

\* A run has as many drafts as it found.
LEMMA DraftsAreCounted ==
    ASSUME NEW r, found[r].drafts \in Nat
    PROVE  IsFiniteSet(Drafts(r)) /\ Cardinality(Drafts(r)) = found[r].drafts
<1> DEFINE n == found[r].drafts
           f == [i \in 1 .. n |-> [seed |-> hand[r], by |-> r, nr |-> i]]
<1>1. f \in [1 .. n -> Drafts(r)]
    BY DEF Drafts
<1>2. \A i, j \in 1 .. n : f[i] = f[j] => i = j
    OBVIOUS
<1>3. \A g \in Drafts(r) : \E i \in 1 .. n : f[i] = g
    BY DEF Drafts
<1>4. f \in Bijection(1 .. n, Drafts(r))
    <2> HIDE DEF f
    <2> QED
        BY <1>1, <1>2, <1>3 DEF Bijection, Injection, IsInjective, Surjection
<1>5. ExistsBijection(1 .. n, Drafts(r))
    BY <1>4 DEF ExistsBijection
<1>6. IsFiniteSet(1 .. n) /\ Cardinality(1 .. n) = n
    <2>1. n \in Int /\ 1 \in Int /\ (IF 1 > n THEN 0 ELSE n - 1 + 1) = n
        OBVIOUS
    <2> HIDE DEF n
    <2> QED
        BY <2>1, FS_Interval
<1> QED
    BY <1>5, <1>6, FS_Bijection

LEMMA DisjointUnion ==
    ASSUME NEW S, NEW T, IsFiniteSet(S), IsFiniteSet(T), S \cap T = {}
    PROVE  IsFiniteSet(S \cup T) /\ Cardinality(S \cup T) = Cardinality(S) + Cardinality(T)
<1>1. Cardinality(S) \in Nat /\ Cardinality(T) \in Nat
    BY FS_CardinalityType
<1> QED
    BY <1>1, FS_Union, FS_EmptySet

\* Selections and what is told are finite.
LEMMA Finite ==
    /\ \A S \in SUBSET Papers : IsFiniteSet(S) /\ Cardinality(S) \in Nat
    /\ \A S \in SUBSET Cites : IsFiniteSet(S) /\ Cardinality(S) \in Nat
<1>1. IsFiniteSet(Papers) /\ IsFiniteSet(Papers \X Papers)
    BY PapersAssumption, FS_Product
<1>2. Cites \in SUBSET (Papers \X Papers)
    BY CitesAssumption
<1>3. IsFiniteSet(Cites)
    BY <1>1, <1>2, FS_Subset
<1>4. ASSUME NEW S \in SUBSET Papers
      PROVE  IsFiniteSet(S) /\ Cardinality(S) \in Nat
    BY <1>1, FS_Subset, FS_CardinalityType
<1>5. ASSUME NEW S \in SUBSET Cites
      PROVE  IsFiniteSet(S) /\ Cardinality(S) \in Nat
    BY <1>3, FS_Subset, FS_CardinalityType
<1> QED
    BY <1>4, <1>5

-----------------------------------------------------------------------------
(* What the steps of one run mean to the others *)

\* The step leaves the run q alone; what it adds is not by q, and is by one
\* that q has met.
Spares(q) ==
    /\ row'[q] = row[q] /\ pc'[q] = pc[q] /\ arg'[q] = arg[q]
    /\ todo'[q] = todo[q] /\ hand'[q] = hand[q] /\ found'[q] = found[q]
    /\ put'[q] = put[q] /\ count'[q] = count[q]
    /\ met[q] \subseteq met'[q] /\ (pc[q] = "off" => met'[q] = met[q])
    /\ fetched \subseteq fetched'
    /\ gaps \subseteq gaps'
    /\ \A g \in gaps' \ gaps : g.by # q /\ (pc[q] \notin Over => g.by \in met[q])
    /\ edges \subseteq edges'
    /\ \A e \in edges' \ edges : e.by # q

LEMMA SparedStays ==
    ASSUME NEW q \in Runs, RunOK(q), Spares(q)
    PROVE  RunOK(q)'
<1>1. GapsBy(q)' = GapsBy(q) /\ EdgesBy(q)' = EdgesBy(q)
    BY DEF Spares, GapsBy, EdgesBy
<1>2. Drafts(q)' = Drafts(q)
    BY DEF Spares, Drafts
<1>3. /\ Detects(q)' <=> Detects(q)
      /\ Fetches(q)' <=> Fetches(q)
      /\ Single(q)' <=> Single(q)
    BY DEF Spares, Detects, Fetches, Is, Single
<1>4. Untouched(q)'
    BY <1>1 DEF RunOK, Spares, Untouched
<1>5. InPlace(q)'
    <2>1. put'[q] \cap edges' = {}
        BY DEF RunOK, InPlace, Spares
    <2> QED
        BY <1>3, <2>1 DEF RunOK, InPlace, Spares
<1>6. SeedsAreNew(q)'
    <2> SUFFICES ASSUME NEW g \in gaps'
                 PROVE  /\ g.by = q => g.seed \notin todo'[q] /\ (pc'[q] = "save" => g.seed # hand'[q])
                        /\ /\ g.by # q /\ Detects(q)' /\ ~ arg'[q].force /\ ~ Single(q)'
                           /\ g.seed \in todo'[q] \/ (pc'[q] = "save" /\ g.seed = hand'[q])
                           => g.by \in met'[q]
        BY DEF SeedsAreNew
    <2>1. CASE g \in gaps
        BY <1>3, <2>1 DEF RunOK, SeedsAreNew, Spares
    <2>2. CASE g \notin gaps
        <3>1. g.by # q /\ (pc[q] \notin Over => g.by \in met'[q])
            BY <2>2 DEF Spares
        <3>2. g.seed \in todo[q] \/ pc[q] = "save" => pc[q] \notin Over
            BY DEF RunOK, InPlace, Over
        <3> QED
            BY <3>1, <3>2 DEF Spares
    <2> QED
        BY <2>1, <2>2
<1>7. GapsCounted(q)' /\ GapsTold(q)'
    BY <1>1, <1>2, <1>3 DEF RunOK, GapsCounted, GapsTold, Spares
<1>8. EdgesCounted(q)' /\ EdgesTold(q)'
    BY <1>1, <1>3 DEF RunOK, EdgesCounted, EdgesTold, Spares
<1>9. EdgesAreTold(q)'
    BY <1>3 DEF RunOK, EdgesAreTold, Told, Spares
<1> QED
    BY <1>4, <1>5, <1>6, <1>7, <1>8, <1>9 DEF RunOK

\* Told stays told.
LEMMA CoveredStays ==
    ASSUME CoveredMeansFetched, fetched \subseteq fetched',
           \A e \in edges' \ edges : Told(e.source, e.from, e.to)
    PROVE  CoveredMeansFetched'
BY DEF CoveredMeansFetched, Told

\* The step is one of the run r, which is alive, and changes nothing of the
\* others.
Local(r) ==
    /\ \A q \in Runs : q # r =>
         /\ row'[q] = row[q] /\ pc'[q] = pc[q]
         /\ todo'[q] = todo[q] /\ hand'[q] = hand[q] /\ found'[q] = found[q]
         /\ put'[q] = put[q] /\ count'[q] = count[q]
    /\ pc[r] \notin Over
    /\ UNCHANGED <<arg, met>>
    /\ fetched \subseteq fetched'
    /\ gaps \subseteq gaps' /\ \A g \in gaps' \ gaps : g.by = r
    /\ edges \subseteq edges' /\ edges' \ edges \subseteq put[r]
    /\ passed' = passed \/ PassedEdgesAreThere'

\* What must be known of the run itself.
LEMMA LocalInvariant ==
    ASSUME IInv, NEW r \in Runs, Local(r),
           TypeOK', RunOK(r)', gaps' = gaps \/ RepeatsHaveAReason'
    PROVE  IInv'
<1>1. MeetingIsMutual'
    BY DEF IInv, MeetingIsMutual, Local, Alive, Over
<1>2. ASSUME NEW q \in Runs, q # r
      PROVE  RunOK(q)'
    <2>1. pc[q] \notin Over => r \in met[q]
        BY <1>2 DEF IInv, MeetingIsMutual, Local, Alive, Over
    <2>2. \A e \in put[r] : e.by = r
        BY DEF IInv, RunOK, InPlace
    <2>3. Spares(q)
        BY <1>2, <2>1, <2>2 DEF Spares, Local
    <2> QED
        BY <1>2, <2>3, SparedStays DEF IInv
<1>3. RepeatsHaveAReason'
    BY DEF IInv, RepeatsHaveAReason, Local, Single
<1>4. CoveredMeansFetched'
    BY CoveredStays DEF IInv, RunOK, EdgesAreTold, Local
<1>5. PassedEdgesAreThere'
    BY DEF IInv, PassedEdgesAreThere, Local
<1> QED
    BY <1>1, <1>2, <1>3, <1>4, <1>5 DEF IInv

-----------------------------------------------------------------------------
(* Parts that many steps leave alone *)

LEMMA SeedsStay ==
    ASSUME NEW r, SeedsAreNew(r), UNCHANGED <<gaps, arg, met>>,
           todo'[r] \subseteq todo[r], pc'[r] = "save" => hand'[r] \in todo[r]
    PROVE  SeedsAreNew(r)'
BY DEF SeedsAreNew, Detects, Is, Single

LEMMA RowsByRun ==
    ASSUME NEW r
    PROVE  /\ gaps' = gaps => GapsBy(r)' = GapsBy(r)
           /\ edges' = edges => EdgesBy(r)' = EdgesBy(r)
           /\ arg' = arg => /\ Detects(r)' <=> Detects(r)
                            /\ Fetches(r)' <=> Fetches(r)
                            /\ Single(r)' <=> Single(r)
BY DEF GapsBy, EdgesBy, Detects, Fetches, Is, Single

Rows == [Runs -> [status: {"none", "running", "completed", "failed"}, count: Counts]]
Finds == [Runs -> [drafts: Nat, era: Nat, cites: SUBSET Cites]]

\* Setting the status of a row, or its counters.
LEMMA StatusSet ==
    ASSUME NEW r \in Runs, row \in Rows, NEW s \in {"none", "running", "completed", "failed"},
           row' = [row EXCEPT ![r].status = s]
    PROVE  /\ row' \in Rows
           /\ row'[r].status = s /\ row'[r].count = row[r].count
           /\ \A q \in Runs : q # r => row'[q] = row[q]
<1>1. row[r] \in [status: {"none", "running", "completed", "failed"}, count: Counts]
    BY DEF Rows
<1>2. [row[r] EXCEPT !.status = s] = [status |-> s, count |-> row[r].count]
    BY <1>1
<1>3. row' = [row EXCEPT ![r] = [status |-> s, count |-> row[r].count]]
    BY <1>2
<1> QED
    BY <1>1, <1>3 DEF Rows

LEMMA CountSet ==
    ASSUME NEW r \in Runs, row \in Rows, NEW c \in Counts,
           row' = [row EXCEPT ![r].count = c]
    PROVE  /\ row' \in Rows
           /\ row'[r].status = row[r].status /\ row'[r].count = c
           /\ \A q \in Runs : q # r => row'[q] = row[q]
<1>1. row[r] \in [status: {"none", "running", "completed", "failed"}, count: Counts]
    BY DEF Rows
<1>2. [row[r] EXCEPT !.count = c] = [status |-> row[r].status, count |-> c]
    BY <1>1
<1>3. row' = [row EXCEPT ![r] = [status |-> row[r].status, count |-> c]]
    BY <1>2
<1> QED
    BY <1>1, <1>3 DEF Rows

\* Nothing in hand.
LEMMA PutDownTyped ==
    ASSUME NEW r \in Runs, hand \in [Runs -> Papers \cup {None}], found \in Finds, PutDown(r)
    PROVE  /\ hand' \in [Runs -> Papers \cup {None}] /\ hand'[r] = None
           /\ found' \in Finds /\ found'[r].cites = {} /\ found'[r].drafts = 0
           /\ \A q \in Runs : q # r => hand'[q] = hand[q] /\ found'[q] = found[q]
<1>1. Nothing \in [drafts: Nat, era: Nat, cites: SUBSET Cites] /\ Nothing.cites = {} /\ Nothing.drafts = 0
    BY DEF Nothing
<1>2. found' = [found EXCEPT ![r] = Nothing] /\ hand' = [hand EXCEPT ![r] = None]
    BY DEF PutDown
<1> HIDE DEF Nothing
<1> QED
    BY <1>1, <1>2 DEF Finds

-----------------------------------------------------------------------------
(* The ends *)

\* A run ends without a commit of its work.
LEMMA EndInvariant ==
    ASSUME IInv, NEW r \in Runs, NEW label \in {"completed", "raised", "aborted", "killed"},
           pc[r] \notin Over, End(r, label),
           PutDown(r) \/ UNCHANGED <<hand, found>>,
           pc[r] # "sync" \/ (label \in {"raised", "killed"} /\ UNCHANGED <<hand, found>>),
           row' = row \/ row' = [row EXCEPT ![r].status = "completed"],
           UNCHANGED <<tables, arg, history>>
    PROVE  IInv'
<1>1. /\ pc' \in [Runs -> Labels] /\ pc'[r] = label
      /\ \A q \in Runs : q # r => pc'[q] = pc[q]
    BY DEF IInv, TypeOK, End, To, Labels
<1>2. /\ todo' \in [Runs -> SUBSET Papers] /\ todo'[r] = {}
      /\ put' \in [Runs -> SUBSET Edges] /\ put'[r] = {}
      /\ \A q \in Runs : q # r => todo'[q] = todo[q] /\ put'[q] = put[q]
    BY DEF IInv, TypeOK, End
<1>3. /\ count' \in [Runs -> Counts]
      /\ \A q \in Runs : q # r => count'[q] = count[q]
    BY ZeroIsCounts DEF IInv, TypeOK, End
<1>4. /\ hand' \in [Runs -> Papers \cup {None}]
      /\ found' \in Finds
      /\ found'[r].cites \subseteq found[r].cites
      /\ \A q \in Runs : q # r => hand'[q] = hand[q] /\ found'[q] = found[q]
    <2>1. CASE UNCHANGED <<hand, found>>
        BY <2>1 DEF IInv, TypeOK, Rows, Finds
    <2>2. CASE PutDown(r)
        BY <2>2, PutDownTyped DEF IInv, TypeOK, Finds
    <2> QED
        BY <2>1, <2>2
<1>5. /\ row' \in Rows
      /\ row'[r].count = row[r].count /\ (row'[r].status = row[r].status \/ row'[r].status = "completed")
      /\ \A q \in Runs : q # r => row'[q] = row[q]
    <2>1. CASE row' = row
        BY <2>1 DEF IInv, TypeOK, Rows, Finds
    <2>2. CASE row' = [row EXCEPT ![r].status = "completed"]
        BY <2>2, StatusSet DEF IInv, TypeOK, Rows
    <2> QED
        BY <2>1, <2>2
<1>6. TypeOK'
    BY <1>1, <1>2, <1>3, <1>4, <1>5 DEF IInv, TypeOK, tables, history, Rows, Finds
<1>7. Local(r)
    BY <1>1, <1>2, <1>3, <1>4, <1>5 DEF Local, tables, history
<1>8. pc[r] # "failed" /\ pc[r] # "off" /\ pc[r] # "completed" /\ pc[r] # "raised" /\ pc[r] # "killed"
    BY DEF Over
<1>9. GapsBy(r)' = GapsBy(r) /\ EdgesBy(r)' = EdgesBy(r)
    BY RowsByRun DEF tables
<1>10. /\ Detects(r)' <=> Detects(r)
       /\ Fetches(r)' <=> Fetches(r)
       /\ Single(r)' <=> Single(r)
    BY RowsByRun
<1>11. Untouched(r)' /\ InPlace(r)'
    BY <1>1, <1>2, <1>5, <1>8, <1>10 DEF IInv, RunOK, Untouched, InPlace, history
<1>12. SeedsAreNew(r)'
    BY <1>1, <1>2, SeedsStay DEF IInv, RunOK, tables, history
<1>13. GapsCounted(r)'
    BY <1>1, <1>9 DEF IInv, RunOK, GapsCounted
<1>14. GapsTold(r)'
    <2>1. CASE pc[r] # "sync"
        BY <2>1, <1>5, <1>8, <1>9, <1>10 DEF IInv, RunOK, GapsTold
    <2>2. CASE pc[r] = "sync"
        BY <2>2, <1>1, <1>5, <1>9, <1>10 DEF IInv, RunOK, GapsTold, Drafts
    <2> QED
        BY <2>1, <2>2
<1>15. EdgesCounted(r)'
    BY <1>1, <1>2, <1>9, FS_EmptySet DEF IInv, RunOK, EdgesCounted
<1>16. EdgesTold(r)'
    BY <1>5, <1>8, <1>9, <1>10 DEF IInv, RunOK, InPlace, EdgesTold
<1>17. EdgesAreTold(r)'
    BY <1>2, <1>4, <1>10 DEF IInv, RunOK, EdgesAreTold, Told, history
<1>18. RunOK(r)'
    BY <1>11, <1>12, <1>13, <1>14, <1>15, <1>16, <1>17 DEF RunOK
<1> QED
    BY <1>6, <1>7, <1>18, LocalInvariant DEF tables

LEMMA CompleteInvariant ==
    ASSUME IInv, NEW r \in Runs, Complete(r)
    PROVE  IInv'
BY EndInvariant DEF Complete, Over

\* A run ends and leaves its row.
LEMMA LeaveRowInvariant ==
    ASSUME IInv, NEW r \in Runs, NEW label \in {"raised", "killed"},
           pc[r] \notin Over, LeaveRow(r, label)
    PROVE  IInv'
<1>1. /\ End(r, label)
      /\ PutDown(r) \/ UNCHANGED <<hand, found>>
      /\ pc[r] # "sync" \/ UNCHANGED <<hand, found>>
      /\ UNCHANGED <<tables, row, arg, history>>
    BY DEF LeaveRow
<1> QED
    BY <1>1, EndInvariant

LEMMA DatabaseErrorInvariant ==
    ASSUME IInv, NEW r \in Runs, DatabaseError(r)
    PROVE  IInv'
BY LeaveRowInvariant DEF DatabaseError, Over

LEMMA SaveFailsInvariant ==
    ASSUME IInv, NEW r \in Runs, SaveFails(r)
    PROVE  IInv'
BY EndInvariant DEF SaveFails, Raise, Over

LEMMA FailSingleInvariant ==
    ASSUME IInv, NEW r \in Runs, FailSingle(r)
    PROVE  IInv'
BY EndInvariant DEF FailSingle, Raise, Over

LEMMA KillInvariant ==
    ASSUME IInv, NEW r \in Runs, Kill(r)
    PROVE  IInv'
<1>1. pc[r] \notin Over
    BY DEF Kill, Alive, Over
<1> QED
    BY <1>1, LeaveRowInvariant DEF Kill

-----------------------------------------------------------------------------
(* The frame and the gaps *)

LEMMA PcSet ==
    ASSUME NEW r \in Runs, pc \in [Runs -> Labels], NEW label \in Labels, To(r, label)
    PROVE  /\ pc' \in [Runs -> Labels] /\ pc'[r] = label
           /\ \A q \in Runs : q # r => pc'[q] = pc[q]
BY DEF To

LEMMA SelectInvariant ==
    ASSUME IInv, NEW r \in Runs, Select(r)
    PROVE  IInv'
<1> DEFINE all == IF Detects(r) THEN Papers \ excluded ELSE Papers
           chosen == IF arg[r].force THEN all ELSE all \ Done(r)
           skipped == IF Detects(r) THEN Cardinality(all \ chosen) ELSE 0
           tally == [count[r] EXCEPT !.skipped = skipped]
<1>1. /\ pc[r] = "select" /\ To(r, "next")
      /\ todo' = [todo EXCEPT ![r] = chosen]
      /\ count' = [count EXCEPT ![r] = tally]
      /\ row' = [row EXCEPT ![r].count = tally]
      /\ UNCHANGED <<tables, arg, hand, found, put, history>>
    BY DEF Select
<1>2. chosen \subseteq Papers
    OBVIOUS
<1>3. \A p \in chosen : arg[r].force \/ p \notin Done(r)
    OBVIOUS
<1>4. skipped \in Nat
    <2>1. all \ chosen \subseteq Papers
        OBVIOUS
    <2> HIDE DEF all, chosen
    <2> QED
        BY <2>1, Finite
<1> HIDE DEF all, chosen, skipped
<1>5. tally \in Counts /\ tally.made = count[r].made
    <2>1. count[r] \in Counts
        BY DEF IInv, TypeOK
    <2> QED
        BY <2>1, <1>4 DEF Counts
<1> HIDE DEF tally
<1>6. /\ pc' \in [Runs -> Labels] /\ pc'[r] = "next"
      /\ \A q \in Runs : q # r => pc'[q] = pc[q]
    BY <1>1, PcSet DEF IInv, TypeOK, Labels
<1>7. /\ todo' \in [Runs -> SUBSET Papers] /\ todo'[r] = chosen
      /\ \A q \in Runs : q # r => todo'[q] = todo[q]
    BY <1>1, <1>2 DEF IInv, TypeOK
<1>8. /\ count' \in [Runs -> Counts] /\ count'[r] = tally
      /\ \A q \in Runs : q # r => count'[q] = count[q]
    BY <1>1, <1>5 DEF IInv, TypeOK
<1>9. /\ row' \in Rows /\ row'[r].count = tally /\ row'[r].status = row[r].status
      /\ \A q \in Runs : q # r => row'[q] = row[q]
    BY <1>1, <1>5, CountSet DEF IInv, TypeOK, Rows
<1>10. TypeOK'
    BY <1>1, <1>6, <1>7, <1>8, <1>9 DEF IInv, TypeOK, tables, history, Rows
<1>11. Local(r)
    BY <1>1, <1>6, <1>7, <1>8, <1>9 DEF Local, tables, history, Over
<1>12. GapsBy(r)' = GapsBy(r) /\ EdgesBy(r)' = EdgesBy(r)
    BY <1>1, RowsByRun DEF tables
<1>13. /\ Detects(r)' <=> Detects(r)
       /\ Fetches(r)' <=> Fetches(r)
       /\ Single(r)' <=> Single(r)
    BY <1>1, RowsByRun
<1>14. put[r] = {} /\ put' = put /\ found' = found /\ arg' = arg
    BY <1>1 DEF IInv, RunOK, InPlace
<1>15. Untouched(r)' /\ InPlace(r)'
    BY <1>1, <1>6, <1>9, <1>14 DEF IInv, RunOK, Untouched, InPlace
<1>16. SeedsAreNew(r)'
    <2> SUFFICES ASSUME NEW g \in gaps
                 PROVE  /\ g.by = r => g.seed \notin chosen
                        /\ Detects(r) /\ ~ arg[r].force => g.seed \notin chosen
        BY <1>1, <1>6, <1>7, <1>13, <1>14 DEF SeedsAreNew, tables
    <2>1. Detects(r) /\ ~ arg[r].force => g.seed \notin chosen
        BY <1>3 DEF Done
    <2>2. g.by # r
        BY <1>1 DEF IInv, RunOK, Untouched, GapsBy
    <2> QED
        BY <2>1, <2>2
<1>17. count[r] = Zero /\ row[r].count = Zero /\ GapsBy(r) = {} /\ EdgesBy(r) = {}
    BY <1>1 DEF IInv, RunOK, Untouched
<1>18. tally.made = 0 /\ Cardinality(GapsBy(r)) = 0 /\ Cardinality(EdgesBy(r)) = 0 /\ Cardinality(put[r]) = 0
    BY <1>5, <1>14, <1>17, ZeroIsCounts, FS_EmptySet
<1>19. GapsCounted(r)' /\ GapsTold(r)'
    BY <1>6, <1>8, <1>9, <1>12, <1>13, <1>18 DEF IInv, RunOK, GapsCounted, GapsTold
<1>20. EdgesCounted(r)'
    <2>1. IsFiniteSet(EdgesBy(r)) /\ IsFiniteSet(put[r])
        BY DEF IInv, RunOK, EdgesCounted
    <2>2. put'[r] = put[r] /\ count'[r].made = 0 /\ row'[r].count.made = 0
        BY <1>8, <1>9, <1>14, <1>18
    <2> QED
        BY <1>12, <1>18, <2>1, <2>2 DEF EdgesCounted
<1>21. EdgesTold(r)'
    BY <1>1, <1>9, <1>12, <1>13, <1>14, <1>18 DEF IInv, RunOK, InPlace, EdgesTold
<1>22. EdgesAreTold(r)'
    BY <1>1, <1>13, <1>14 DEF IInv, RunOK, EdgesAreTold, Told, history
<1>23. RunOK(r)'
    BY <1>15, <1>16, <1>19, <1>20, <1>21, <1>22 DEF RunOK
<1> QED
    BY <1>1, <1>10, <1>11, <1>23, LocalInvariant DEF tables

\* A paper is taken, or the insertion of its edges ends, and nothing stored is
\* touched.
LEMMA QuietRun ==
    ASSUME IInv, NEW r \in Runs, pc[r] \in {"next", "edges"}, pc'[r] \in {"save", "edges", "sync"},
           UNCHANGED <<gaps, edges, row, arg, put, met>>, fetched \subseteq fetched',
           todo'[r] \subseteq todo[r],
           pc'[r] = "save" => Detects(r) /\ hand'[r] \in todo[r] \ todo'[r],
           pc'[r] = "edges" => Fetches(r) /\ arg[r].save,
           pc[r] = "edges" => found' = found,
           count'[r].made = count[r].made \/ (Fetches(r) /\ ~ arg[r].save),
           EdgesAreTold(r)'
    PROVE  RunOK(r)'
<1>1. GapsBy(r)' = GapsBy(r) /\ EdgesBy(r)' = EdgesBy(r)
    BY RowsByRun
<1>2. /\ Detects(r)' <=> Detects(r)
      /\ Fetches(r)' <=> Fetches(r)
      /\ Single(r)' <=> Single(r)
    BY RowsByRun
<1>3. Detects(r) => pc[r] = "next"
    BY DEF IInv, RunOK, InPlace, Fetches
<1>4. Untouched(r)'
    BY DEF Untouched
<1>5. InPlace(r)'
    <2>1. todo[r] \subseteq Papers
        BY DEF IInv, TypeOK
    <2>2. put[r] # {} => pc'[r] # "save"
        BY DEF IInv, RunOK, InPlace, Fetches
    <2> QED
        BY <1>2, <2>1, <2>2 DEF IInv, RunOK, InPlace
<1>6. SeedsAreNew(r)'
    BY SeedsStay DEF IInv, RunOK
<1>7. GapsCounted(r)' /\ GapsTold(r)'
    <2>1. Detects(r) /\ ~ Single(r) =>
              /\ row[r].count.made = Cardinality(GapsBy(r))
              /\ count[r].made = Cardinality(GapsBy(r)) /\ count'[r].made = Cardinality(GapsBy(r))
        BY <1>3 DEF IInv, RunOK, GapsCounted, Fetches
    <2>2. IsFiniteSet(GapsBy(r)) /\ Cardinality(GapsBy(r)) \in Nat
        BY FS_CardinalityType DEF IInv, RunOK, GapsCounted
    <2> QED
        BY <1>1, <1>2, <2>1, <2>2 DEF GapsCounted, GapsTold
<1>8. EdgesCounted(r)' /\ EdgesTold(r)'
    BY <1>1, <1>2 DEF IInv, RunOK, EdgesCounted, EdgesTold
<1> QED
    BY <1>4, <1>5, <1>6, <1>7, <1>8 DEF RunOK

LEMMA FailInvariant ==
    ASSUME IInv, NEW r \in Runs, Fail(r)
    PROVE  IInv'
<1>1. /\ pc[r] = "next" /\ ~ Single(r) /\ To(r, "sync") /\ Add(r, [seen |-> 1, failed |-> 1])
      /\ UNCHANGED <<tables, row, arg, found, put, history>>
    BY DEF Fail, Take
<1>2. PICK p \in todo[r] :
          /\ todo' = [todo EXCEPT ![r] = @ \ {p}]
          /\ hand' = [hand EXCEPT ![r] = p]
    BY DEF Fail, Take
<1>3. count' \in [Runs -> Counts] /\ count'[r].made = count[r].made
      /\ \A q \in Runs : q # r => count'[q] = count[q]
    <2>1. DOMAIN [seen |-> 1, failed |-> 1] = {"seen", "failed"}
        OBVIOUS
    <2>2. count \in [Runs -> Counts] /\ count[r].made \in Nat
        BY DEF IInv, TypeOK, Counts
    <2> QED
        BY <1>1, <2>1, <2>2, Adding
<1>4. /\ pc' \in [Runs -> Labels] /\ pc'[r] = "sync"
      /\ \A q \in Runs : q # r => pc'[q] = pc[q]
    BY <1>1, PcSet DEF IInv, TypeOK, Labels
<1>5. /\ todo' \in [Runs -> SUBSET Papers] /\ todo'[r] \subseteq todo[r]
      /\ hand' \in [Runs -> Papers \cup {None}]
      /\ \A q \in Runs : q # r => todo'[q] = todo[q] /\ hand'[q] = hand[q]
    BY <1>2 DEF IInv, TypeOK
<1>6. TypeOK'
    BY <1>1, <1>3, <1>4, <1>5 DEF IInv, TypeOK, tables, history
<1>7. Local(r)
    BY <1>1, <1>3, <1>4, <1>5 DEF Local, tables, history, Over
<1>8. RunOK(r)'
    <2>1. EdgesAreTold(r)'
        BY <1>1, RowsByRun DEF IInv, RunOK, EdgesAreTold, Told, history
    <2> QED
        BY <1>1, <1>3, <1>4, <1>5, <2>1, QuietRun DEF tables, history
<1> QED
    BY <1>1, <1>6, <1>7, <1>8, LocalInvariant DEF tables

LEMMA DetectInvariant ==
    ASSUME IInv, NEW r \in Runs, Detect(r)
    PROVE  IInv'
<1>1. /\ pc[r] = "next" /\ Detects(r)
      /\ UNCHANGED <<tables, row, arg, put, history>>
    BY DEF Detect, Take
<1>2. PICK p \in todo[r], n \in 0 .. MaxDrafts :
          /\ todo' = [todo EXCEPT ![r] = @ \ {p}]
          /\ hand' = [hand EXCEPT ![r] = p]
          /\ found' = [found EXCEPT ![r] = IF n = 0 THEN Nothing ELSE [drafts |-> n, era |-> era, cites |-> {}]]
          /\ Add(r, [seen |-> 1, found |-> n])
          /\ To(r, IF n > 0 /\ arg[r].save THEN "save" ELSE "sync")
    BY DEF Detect, Take
<1>3. count' \in [Runs -> Counts] /\ count'[r].made = count[r].made
      /\ \A q \in Runs : q # r => count'[q] = count[q]
    <2>1. DOMAIN [seen |-> 1, found |-> n] = {"seen", "found"} /\ n \in Nat
        BY BoundsAssumption
    <2>2. \A f \in DOMAIN [seen |-> 1, found |-> n] : [seen |-> 1, found |-> n][f] \in Nat
        BY <2>1
    <2>3. count \in [Runs -> Counts] /\ count[r].made \in Nat
        BY DEF IInv, TypeOK, Counts
    <2> QED
        BY <1>2, <2>1, <2>2, <2>3, Adding
<1>4. /\ pc' \in [Runs -> Labels] /\ pc'[r] \in {"save", "sync"}
      /\ \A q \in Runs : q # r => pc'[q] = pc[q]
    BY <1>2, PcSet DEF IInv, TypeOK, Labels
<1>5. /\ todo' \in [Runs -> SUBSET Papers] /\ todo'[r] = todo[r] \ {p}
      /\ hand' \in [Runs -> Papers \cup {None}] /\ hand'[r] = p
      /\ \A q \in Runs : q # r => todo'[q] = todo[q] /\ hand'[q] = hand[q]
    BY <1>2 DEF IInv, TypeOK
<1>6. found' \in Finds /\ \A q \in Runs : q # r => found'[q] = found[q]
    <2> DEFINE new == IF n = 0 THEN Nothing ELSE [drafts |-> n, era |-> era, cites |-> {}]
    <2>1. new \in [drafts: Nat, era: Nat, cites: SUBSET Cites]
        <3>1. n \in Nat /\ era \in Nat
            BY BoundsAssumption DEF IInv, TypeOK
        <3> QED
            BY <3>1 DEF Nothing
    <2>2. found' = [found EXCEPT ![r] = new]
        BY <1>2
    <2> HIDE DEF new
    <2> QED
        BY <2>1, <2>2 DEF IInv, TypeOK, Finds
<1>7. TypeOK'
    BY <1>1, <1>3, <1>4, <1>5, <1>6 DEF IInv, TypeOK, tables, history, Finds
<1>8. Local(r)
    BY <1>1, <1>3, <1>4, <1>5, <1>6 DEF Local, tables, history, Over
<1>9. EdgesAreTold(r)'
    BY <1>1, RowsByRun DEF IInv, RunOK, EdgesAreTold, Told, history, Fetches
<1>10. RunOK(r)'
    BY <1>1, <1>3, <1>4, <1>5, <1>9, QuietRun DEF tables, history
<1> QED
    BY <1>1, <1>7, <1>8, <1>10, LocalInvariant DEF tables

LEMMA SaveGapsInvariant ==
    ASSUME IInv, NEW r \in Runs, SaveGaps(r)
    PROVE  IInv'
<1>1. /\ pc[r] = "save" /\ gaps' = gaps \cup Drafts(r)
      /\ Add(r, [made |-> found[r].drafts]) /\ To(r, "sync")
      /\ UNCHANGED <<edges, excluded, era, row, arg, todo, hand, found, put, history>>
    BY DEF SaveGaps
<1>2. found[r].drafts \in Nat
    BY DEF IInv, TypeOK
<1>3. Detects(r) /\ hand[r] \in Papers /\ hand[r] \notin todo[r]
    BY <1>1 DEF IInv, RunOK, InPlace
<1>4. count' \in [Runs -> Counts] /\ count'[r].made = count[r].made + found[r].drafts
      /\ \A q \in Runs : q # r => count'[q] = count[q]
    <2>1. /\ DOMAIN [made |-> found[r].drafts] = {"made"}
          /\ [made |-> found[r].drafts]["made"] = found[r].drafts
        OBVIOUS
    <2>2. count \in [Runs -> Counts]
        BY DEF IInv, TypeOK
    <2> QED
        BY <1>1, <1>2, <2>1, <2>2, Adding
<1>5. /\ pc' \in [Runs -> Labels] /\ pc'[r] = "sync"
      /\ \A q \in Runs : q # r => pc'[q] = pc[q]
    BY <1>1, PcSet DEF IInv, TypeOK, Labels
<1>6. \A g \in Drafts(r) : g.by = r /\ g.seed = hand[r] /\ g \in [seed: Papers, by: Runs, nr: Nat]
    BY <1>2, <1>3 DEF Drafts
<1>7. TypeOK'
    BY <1>1, <1>4, <1>5, <1>6 DEF IInv, TypeOK, history
<1>8. Local(r)
    BY <1>1, <1>4, <1>5, <1>6 DEF Local, history, Over
<1>9. /\ Detects(r)' <=> Detects(r)
      /\ Fetches(r)' <=> Fetches(r)
      /\ Single(r)' <=> Single(r)
      /\ EdgesBy(r)' = EdgesBy(r)
      /\ Drafts(r)' = Drafts(r)
    BY <1>1, RowsByRun DEF Drafts
<1>10. GapsBy(r)' = GapsBy(r) \cup Drafts(r)
    BY <1>1, <1>6 DEF GapsBy
<1>11. GapsBy(r) \cap Drafts(r) = {}
    BY <1>1, <1>6 DEF IInv, RunOK, SeedsAreNew, GapsBy
<1>12. IsFiniteSet(GapsBy(r)) /\ IsFiniteSet(Drafts(r)) /\ Cardinality(Drafts(r)) = found[r].drafts
    BY <1>2, DraftsAreCounted DEF IInv, RunOK, GapsCounted
<1>13. /\ IsFiniteSet(GapsBy(r)')
       /\ Cardinality(GapsBy(r)') = Cardinality(GapsBy(r)) + found[r].drafts
       /\ Cardinality(GapsBy(r)) \in Nat
    BY <1>10, <1>11, <1>12, DisjointUnion, FS_CardinalityType
<1>14. Untouched(r)' /\ InPlace(r)'
    BY <1>1, <1>3, <1>5, <1>9 DEF IInv, RunOK, Untouched, InPlace, history, Fetches
<1>15. SeedsAreNew(r)'
    <2> SUFFICES ASSUME NEW g \in gaps'
                 PROVE  /\ g.by = r => g.seed \notin todo[r]
                        /\ g.by # r /\ Detects(r) /\ ~ arg[r].force /\ ~ Single(r) /\ g.seed \in todo[r]
                           => g.by \in met[r]
        BY <1>1, <1>5, <1>9 DEF SeedsAreNew, history
    <2>1. CASE g \in gaps
        BY <2>1 DEF IInv, RunOK, SeedsAreNew
    <2>2. CASE g \in Drafts(r)
        BY <1>3, <1>6, <2>2
    <2> QED
        BY <1>1, <2>1, <2>2
<1>16. GapsCounted(r)' /\ GapsTold(r)'
    <2>1. Detects(r) /\ ~ Single(r) =>
              count[r].made = Cardinality(GapsBy(r)) /\ row[r].count.made = Cardinality(GapsBy(r))
        BY <1>1 DEF IInv, RunOK, GapsCounted
    <2>2. Drafts(r) \subseteq GapsBy(r)'
        BY <1>10
    <2>3. GapsCounted(r)'
        BY <1>4, <1>5, <1>9, <1>13, <2>1 DEF GapsCounted
    <2>4. GapsTold(r)'
        BY <1>1, <1>2, <1>5, <1>9, <1>13, <2>1, <2>2 DEF GapsTold
    <2> QED
        BY <2>3, <2>4
<1>17. EdgesCounted(r)' /\ EdgesTold(r)'
    BY <1>1, <1>3, <1>9 DEF IInv, RunOK, EdgesCounted, EdgesTold, Fetches
<1>18. EdgesAreTold(r)'
    BY <1>1, <1>9 DEF IInv, RunOK, EdgesAreTold, Told, history
<1>19. RunOK(r)'
    BY <1>14, <1>15, <1>16, <1>17, <1>18 DEF RunOK
<1>20. RepeatsHaveAReason'
    <2> SUFFICES ASSUME NEW g \in gaps', NEW h \in gaps', g.seed = h.seed, g.by # h.by
                 PROVE  \/ \E q \in {g.by, h.by} : arg[q].force \/ Single(q)
                        \/ g.by \in met[h.by]
        BY <1>1 DEF RepeatsHaveAReason, Single, history
    <2>1. CASE g \in gaps /\ h \in gaps
        BY <2>1 DEF IInv, RepeatsHaveAReason
    <2>2. CASE g \in gaps /\ h \in Drafts(r)
        <3>1. h.by = r /\ g.seed = hand[r] /\ g.by # r
            BY <1>6, <2>2
        <3>2. arg[r].force \/ Single(r) \/ g.by \in met[r]
            BY <1>1, <1>3, <2>2, <3>1 DEF IInv, RunOK, SeedsAreNew
        <3> QED
            BY <3>1, <3>2
    <2>3. CASE h \in gaps /\ g \in Drafts(r)
        <3>1. g.by = r /\ h.seed = hand[r] /\ h.by # r /\ h.by \in Runs
            BY <1>6, <2>3 DEF IInv, TypeOK
        <3>2. arg[r].force \/ Single(r) \/ h.by \in met[r]
            BY <1>1, <1>3, <2>3, <3>1 DEF IInv, RunOK, SeedsAreNew
        <3> QED
            BY <3>1, <3>2 DEF IInv, MeetingIsMutual
    <2>4. CASE g \in Drafts(r) /\ h \in Drafts(r)
        BY <1>6, <2>4
    <2> QED
        BY <1>1, <2>1, <2>2, <2>3, <2>4
<1> QED
    BY <1>7, <1>8, <1>19, <1>20, LocalInvariant

-----------------------------------------------------------------------------
(* The edges *)

LEMMA FoundSet ==
    ASSUME NEW r \in Runs, found \in Finds, NEW C \in SUBSET Cites,
           found' = [found EXCEPT ![r].cites = C]
    PROVE  found' \in Finds /\ found'[r].cites = C /\ \A q \in Runs : q # r => found'[q] = found[q]
<1>1. found[r] \in [drafts: Nat, era: Nat, cites: SUBSET Cites]
    BY DEF Finds
<1>2. [found[r] EXCEPT !.cites = C] = [drafts |-> found[r].drafts, era |-> found[r].era, cites |-> C]
    BY <1>1
<1>3. found' = [found EXCEPT ![r] = [drafts |-> found[r].drafts, era |-> found[r].era, cites |-> C]]
    BY <1>2
<1> QED
    BY <1>1, <1>3 DEF Finds

\* What a run has put becomes what it has stored.
LEMMA EdgesStored ==
    ASSUME IInv, NEW r \in Runs, edges' = edges \cup put[r]
    PROVE  /\ edges' \subseteq Edges
           /\ IsFiniteSet(EdgesBy(r)')
           /\ Cardinality(EdgesBy(r)') = Cardinality(EdgesBy(r)) + Cardinality(put[r])
           /\ Cardinality(EdgesBy(r)) \in Nat /\ Cardinality(put[r]) \in Nat
<1>1. EdgesBy(r)' = EdgesBy(r) \cup put[r] /\ EdgesBy(r) \cap put[r] = {}
    BY DEF IInv, RunOK, InPlace, EdgesBy
<1>2. IsFiniteSet(EdgesBy(r)) /\ IsFiniteSet(put[r])
    BY DEF IInv, RunOK, EdgesCounted
<1>3. edges' \subseteq Edges
    BY DEF IInv, TypeOK
<1> QED
    BY <1>1, <1>2, <1>3, DisjointUnion, FS_CardinalityType

LEMMA SyncInvariant ==
    ASSUME IInv, NEW r \in Runs, Sync(r)
    PROVE  IInv'
<1>1. /\ pc[r] = "sync" /\ ~ Single(r) /\ To(r, "next") /\ PutDown(r)
      /\ row' = [row EXCEPT ![r].count = count[r]]
      /\ edges' = edges \cup put[r]
      /\ put' = [put EXCEPT ![r] = {}]
      /\ UNCHANGED <<gaps, excluded, era, arg, todo, count, history>>
    BY DEF Sync
<1>2. /\ pc' \in [Runs -> Labels] /\ pc'[r] = "next"
      /\ \A q \in Runs : q # r => pc'[q] = pc[q]
    BY <1>1, PcSet DEF IInv, TypeOK, Labels
<1>3. /\ row' \in Rows /\ row'[r].count = count[r] /\ row'[r].status = row[r].status
      /\ \A q \in Runs : q # r => row'[q] = row[q]
    BY <1>1, CountSet DEF IInv, TypeOK, Rows
<1>4. /\ hand' \in [Runs -> Papers \cup {None}]
      /\ found' \in Finds /\ found'[r].cites = {}
      /\ \A q \in Runs : q # r => hand'[q] = hand[q] /\ found'[q] = found[q]
    BY <1>1, PutDownTyped DEF IInv, TypeOK, Finds
<1>5. /\ put' \in [Runs -> SUBSET Edges] /\ put'[r] = {}
      /\ \A q \in Runs : q # r => put'[q] = put[q]
    BY <1>1 DEF IInv, TypeOK
<1>6. /\ edges' \subseteq Edges /\ IsFiniteSet(EdgesBy(r)')
      /\ Cardinality(EdgesBy(r)') = Cardinality(EdgesBy(r)) + Cardinality(put[r])
      /\ Cardinality(EdgesBy(r)) \in Nat /\ Cardinality(put[r]) \in Nat
    BY <1>1, EdgesStored
<1>7. TypeOK'
    BY <1>1, <1>2, <1>3, <1>4, <1>5, <1>6 DEF IInv, TypeOK, history, Rows, Finds
<1>8. Local(r)
    BY <1>1, <1>2, <1>3, <1>4, <1>5 DEF Local, history, Over
<1>9. GapsBy(r)' = GapsBy(r)
    BY <1>1, RowsByRun
<1>10. /\ Detects(r)' <=> Detects(r)
       /\ Fetches(r)' <=> Fetches(r)
       /\ Single(r)' <=> Single(r)
    BY <1>1, RowsByRun
<1>11. Untouched(r)' /\ InPlace(r)'
    BY <1>1, <1>2, <1>3, <1>5, <1>10 DEF IInv, RunOK, Untouched, InPlace, history
<1>12. SeedsAreNew(r)'
    BY <1>1, <1>2, SeedsStay DEF IInv, RunOK, history
<1>13. GapsCounted(r)' /\ GapsTold(r)'
    <2>1. Detects(r) => count[r].made = Cardinality(GapsBy(r))
        BY <1>1 DEF IInv, RunOK, GapsCounted
    <2>2. IsFiniteSet(GapsBy(r)) /\ Cardinality(GapsBy(r)) \in Nat
        BY FS_CardinalityType DEF IInv, RunOK, GapsCounted
    <2> QED
        BY <1>1, <1>3, <1>9, <1>10, <2>1, <2>2 DEF GapsCounted, GapsTold
<1>14. EdgesCounted(r)' /\ EdgesTold(r)'
    <2>1. Fetches(r) /\ arg[r].save =>
              /\ count[r].made = row[r].count.made + Cardinality(put[r])
              /\ row[r].count.made = Cardinality(EdgesBy(r))
        BY <1>1 DEF IInv, RunOK, EdgesCounted, EdgesTold, InPlace
    <2>2. count'[r] = count[r] /\ arg' = arg /\ row'[r].status # "failed"
        BY <1>1, <1>3 DEF IInv, RunOK, InPlace
    <2>3. Fetches(r) /\ arg[r].save => count[r].made = Cardinality(EdgesBy(r)')
        BY <1>6, <2>1
    <2>4. EdgesTold(r)'
        BY <1>1, <1>3, <1>10, <2>2, <2>3 DEF EdgesTold
    <2>5. Cardinality(put'[r]) = 0 /\ IsFiniteSet(put'[r]) /\ count[r].made \in Nat
        BY <1>5, FS_EmptySet DEF IInv, TypeOK, Counts
    <2>6. EdgesCounted(r)'
        BY <1>3, <1>6, <2>2, <2>5 DEF EdgesCounted
    <2> QED
        BY <2>4, <2>6
<1>15. EdgesAreTold(r)'
    BY <1>4, <1>5 DEF EdgesAreTold
<1>16. RunOK(r)'
    BY <1>11, <1>12, <1>13, <1>14, <1>15 DEF RunOK
<1> QED
    BY <1>1, <1>7, <1>8, <1>16, LocalInvariant

\* A run ends with a commit: well, or because an insertion has failed.
LEMMA StoreInvariant ==
    ASSUME IInv, NEW r \in Runs, NEW label \in {"completed", "failed"},
           pc[r] \in {"edges", "sync"}, End(r, label), PutDown(r),
           edges' = edges \cup put[r],
           UNCHANGED <<gaps, excluded, era, arg, history>>,
           label = "completed" => Single(r) /\ row' = row,
           label = "failed" => /\ ~ Single(r) /\ pc[r] = "edges"
                               /\ row' = [row EXCEPT ![r].status = "failed"]
    PROVE  IInv'
<1>1. /\ pc' \in [Runs -> Labels] /\ pc'[r] = label
      /\ \A q \in Runs : q # r => pc'[q] = pc[q]
    BY PcSet DEF IInv, TypeOK, End, Labels
<1>2. /\ todo' \in [Runs -> SUBSET Papers] /\ todo'[r] = {}
      /\ put' \in [Runs -> SUBSET Edges] /\ put'[r] = {}
      /\ \A q \in Runs : q # r => todo'[q] = todo[q] /\ put'[q] = put[q]
    BY DEF IInv, TypeOK, End
<1>3. /\ count' \in [Runs -> Counts]
      /\ \A q \in Runs : q # r => count'[q] = count[q]
    BY ZeroIsCounts DEF IInv, TypeOK, End
<1>4. /\ hand' \in [Runs -> Papers \cup {None}]
      /\ found' \in Finds /\ found'[r].cites = {}
      /\ \A q \in Runs : q # r => hand'[q] = hand[q] /\ found'[q] = found[q]
    BY PutDownTyped DEF IInv, TypeOK, Finds
<1>5. /\ row' \in Rows /\ row'[r].count = row[r].count
      /\ row'[r].status = (IF label = "failed" THEN "failed" ELSE row[r].status)
      /\ \A q \in Runs : q # r => row'[q] = row[q]
    <2>1. CASE label = "completed"
        BY <2>1 DEF IInv, TypeOK, Rows
    <2>2. CASE label = "failed"
        BY <2>2, StatusSet DEF IInv, TypeOK, Rows
    <2> QED
        BY <2>1, <2>2
<1>6. /\ edges' \subseteq Edges /\ IsFiniteSet(EdgesBy(r)')
      /\ Cardinality(EdgesBy(r)') = Cardinality(EdgesBy(r)) + Cardinality(put[r])
      /\ Cardinality(EdgesBy(r)) \in Nat /\ Cardinality(put[r]) \in Nat
    BY EdgesStored
<1>8. TypeOK'
    BY <1>1, <1>2, <1>3, <1>4, <1>5, <1>6 DEF IInv, TypeOK, Rows, Finds, history
<1>9. Local(r)
    BY <1>1, <1>2, <1>3, <1>4, <1>5 DEF Local, Over, history
<1>10. GapsBy(r)' = GapsBy(r)
    BY RowsByRun
<1>11. /\ Detects(r)' <=> Detects(r)
       /\ Fetches(r)' <=> Fetches(r)
       /\ Single(r)' <=> Single(r)
    BY RowsByRun
<1>12. label = "failed" => Fetches(r)
    BY DEF IInv, RunOK, InPlace
<1>13. Untouched(r)' /\ InPlace(r)'
    <2>1. row[r].status # "failed"
        BY DEF IInv, RunOK, InPlace
    <2> QED
        BY <1>1, <1>2, <1>5, <1>11, <1>12, <2>1 DEF Untouched, InPlace
<1>14. SeedsAreNew(r)'
    BY <1>1, <1>2, SeedsStay DEF IInv, RunOK, history
<1>15. GapsCounted(r)' /\ GapsTold(r)'
    BY <1>1, <1>10, <1>11, <1>12 DEF IInv, RunOK, GapsCounted, GapsTold, Fetches
<1>16. EdgesCounted(r)'
    BY <1>1, <1>2, <1>6, FS_EmptySet DEF EdgesCounted
<1>17. EdgesTold(r)'
    <2>1. CASE label = "completed"
        BY <1>1, <1>11, <2>1 DEF EdgesTold
    <2>2. CASE label = "failed"
        <3>1. arg[r].save /\ Fetches(r) => row[r].count.made = Cardinality(EdgesBy(r))
            BY <2>2 DEF IInv, RunOK, EdgesTold, InPlace
        <3> QED
            BY <1>5, <1>6, <1>11, <2>2, <3>1 DEF EdgesTold
    <2> QED
        BY <2>1, <2>2
<1>18. EdgesAreTold(r)'
    BY <1>2, <1>4 DEF EdgesAreTold
<1>19. RunOK(r)'
    BY <1>13, <1>14, <1>15, <1>16, <1>17, <1>18 DEF RunOK
<1> QED
    BY <1>8, <1>9, <1>19, LocalInvariant

LEMMA SavepointFailsInvariant ==
    ASSUME IInv, NEW r \in Runs, SavepointFails(r)
    PROVE  IInv'
BY StoreInvariant DEF SavepointFails

LEMMA CommitSingleInvariant ==
    ASSUME IInv, NEW r \in Runs, CommitSingle(r)
    PROVE  IInv'
BY StoreInvariant DEF CommitSingle

LEMMA FetchInvariant ==
    ASSUME IInv, NEW r \in Runs, Fetch(r)
    PROVE  IInv'
<1> DEFINE source == arg[r].kind
<1>1. /\ pc[r] = "next" /\ Fetches(r)
      /\ UNCHANGED <<tables, row, arg, put, met, passed>>
    BY DEF Fetch, Take
<1>2. PICK p, told :
          /\ p \in todo[r] /\ told \in SUBSET Known(source, p)
          /\ todo' = [todo EXCEPT ![r] = @ \ {p}]
          /\ hand' = [hand EXCEPT ![r] = p]
          /\ fetched' = fetched \cup {<<source, p>>}
          /\ IF arg[r].save
             THEN /\ found' = [found EXCEPT ![r].cites = told]
                  /\ Add(r, [seen |-> 1])
                  /\ To(r, "edges")
             ELSE /\ Add(r, [seen |-> 1, made |-> Cardinality(told)])
                  /\ To(r, "sync")
                  /\ UNCHANGED found
    BY DEF Fetch, Take
<1>3. p \in Papers /\ source \in Sources /\ told \in SUBSET Cites
    BY <1>1, <1>2 DEF IInv, TypeOK, Fetches, Detects, Is, Kinds, Known
<1>4. \A c \in told : <<source, c[1]>> \in fetched' \/ (source = "semantic_scholar" /\ <<source, c[2]>> \in fetched')
    BY <1>2 DEF Known
<1> HIDE DEF source
<1>5. count' \in [Runs -> Counts] /\ (arg[r].save => count'[r].made = count[r].made)
      /\ \A q \in Runs : q # r => count'[q] = count[q]
    <2>1. count \in [Runs -> Counts] /\ count[r].made \in Nat
        BY DEF IInv, TypeOK, Counts
    <2>2. CASE arg[r].save
        <3>1. DOMAIN [seen |-> 1] = {"seen"} /\ [seen |-> 1]["seen"] = 1
            OBVIOUS
        <3> QED
            BY <1>2, <2>1, <2>2, <3>1, Adding
    <2>3. CASE ~ arg[r].save
        <3> DEFINE fields == [seen |-> 1, made |-> Cardinality(told)]
        <3>1. Cardinality(told) \in Nat
            BY <1>3, Finite
        <3>2. \A f \in DOMAIN fields : fields[f] \in Nat
            BY <3>1
        <3>3. Add(r, fields)
            BY <1>2, <2>3
        <3> HIDE DEF fields
        <3> QED
            BY <2>1, <2>3, <3>2, <3>3, Adding
    <2> QED
        BY <2>2, <2>3
<1>6. /\ pc' \in [Runs -> Labels] /\ pc'[r] = (IF arg[r].save THEN "edges" ELSE "sync")
      /\ \A q \in Runs : q # r => pc'[q] = pc[q]
    BY <1>2, PcSet DEF IInv, TypeOK, Labels
<1>7. /\ todo' \in [Runs -> SUBSET Papers] /\ todo'[r] \subseteq todo[r]
      /\ hand' \in [Runs -> Papers \cup {None}]
      /\ \A q \in Runs : q # r => todo'[q] = todo[q] /\ hand'[q] = hand[q]
    BY <1>2, <1>3 DEF IInv, TypeOK
<1>8. /\ found' \in Finds /\ found'[r].cites \subseteq told \cup found[r].cites
      /\ \A q \in Runs : q # r => found'[q] = found[q]
    <2>1. CASE arg[r].save
        <3>1. found' = [found EXCEPT ![r].cites = told]
            BY <1>2, <2>1
        <3>2. found \in Finds
            BY DEF IInv, TypeOK, Finds
        <3> QED
            BY <1>3, <3>1, <3>2, FoundSet
    <2>2. CASE ~ arg[r].save
        BY <1>2, <2>2 DEF IInv, TypeOK, Finds
    <2> QED
        BY <2>1, <2>2
<1>9. fetched' \subseteq Sources \X Papers /\ fetched \subseteq fetched'
    BY <1>2, <1>3 DEF IInv, TypeOK
<1>10. TypeOK'
    BY <1>1, <1>5, <1>6, <1>7, <1>8, <1>9 DEF IInv, TypeOK, tables, Finds
<1>11. Local(r)
    BY <1>1, <1>5, <1>6, <1>7, <1>8, <1>9 DEF Local, tables, Over
<1>12. EdgesAreTold(r)'
    <2>1. \A e \in put[r] : Told(e.source, e.from, e.to)
        BY DEF IInv, RunOK, EdgesAreTold
    <2>2. \A c \in found[r].cites : Told(source, c[1], c[2])
        BY <1>1 DEF IInv, RunOK, EdgesAreTold, source
    <2> QED
        BY <1>1, <1>4, <1>8, <1>9, <2>1, <2>2 DEF EdgesAreTold, Told, source
<1>13. RunOK(r)'
    BY <1>1, <1>5, <1>6, <1>7, <1>9, <1>12, QuietRun DEF tables
<1> QED
    BY <1>1, <1>10, <1>11, <1>13, LocalInvariant DEF tables

LEMMA EdgesDoneInvariant ==
    ASSUME IInv, NEW r \in Runs, EdgesDone(r)
    PROVE  IInv'
<1>1. /\ pc[r] = "edges" /\ To(r, "sync")
      /\ UNCHANGED <<tables, row, arg, work, history>>
    BY DEF EdgesDone
<1>2. /\ pc' \in [Runs -> Labels] /\ pc'[r] = "sync"
      /\ \A q \in Runs : q # r => pc'[q] = pc[q]
    BY <1>1, PcSet DEF IInv, TypeOK, Labels
<1>3. TypeOK'
    BY <1>1, <1>2 DEF IInv, TypeOK, tables, work, history
<1>4. Local(r)
    BY <1>1, <1>2 DEF Local, tables, work, history, Over
<1>5. EdgesAreTold(r)'
    BY <1>1, RowsByRun DEF IInv, RunOK, EdgesAreTold, Told, work, history
<1>6. RunOK(r)'
    BY <1>1, <1>2, <1>5, QuietRun DEF tables, work, history
<1> QED
    BY <1>1, <1>3, <1>4, <1>6, LocalInvariant DEF tables

LEMMA InsertEdgeInvariant ==
    ASSUME IInv, NEW r \in Runs, InsertEdge(r)
    PROVE  IInv'
<1>1. /\ pc[r] = "edges"
      /\ UNCHANGED <<tables, row, pc, arg, todo, hand, fetched, met>>
    BY DEF InsertEdge
<1>2. Fetches(r) /\ arg[r].save /\ arg[r].kind \in Sources
    BY <1>1 DEF IInv, RunOK, InPlace, TypeOK, Fetches, Detects, Is, Kinds
<1>3. PICK c \in found[r].cites :
          /\ found' = [found EXCEPT ![r].cites = @ \ {c}]
          /\ IF \E e \in edges \cup put[r] : Same(e, c, r)
             THEN passed' = passed \cup {<<arg[r].kind, c>>} /\ UNCHANGED <<put, count>>
             ELSE /\ put' = [put EXCEPT ![r] =
                               @ \cup {[from |-> c[1], to |-> c[2], source |-> arg[r].kind, by |-> r]}]
                  /\ Add(r, [made |-> 1])
                  /\ UNCHANGED passed
    BY DEF InsertEdge
<1> DEFINE new == [from |-> c[1], to |-> c[2], source |-> arg[r].kind, by |-> r]
<1>4. /\ found' \in Finds /\ found'[r].cites = found[r].cites \ {c}
      /\ \A q \in Runs : q # r => found'[q] = found[q]
    <2>1. found[r].cites \ {c} \in SUBSET Cites /\ found' = [found EXCEPT ![r].cites = found[r].cites \ {c}]
        BY <1>3 DEF IInv, TypeOK
    <2> QED
        BY <2>1, FoundSet DEF IInv, TypeOK, Finds
<1>5. /\ new \in Edges /\ new.by = r /\ Same(new, c, r) /\ Told(new.source, new.from, new.to)
      /\ c \in Cites /\ c = <<c[1], c[2]>> /\ <<new.from, new.to>> = c
    <2>1. c \in Cites /\ c[1] \in Papers /\ c[2] \in Papers /\ c = <<c[1], c[2]>>
        BY <1>3, CitesAssumption DEF IInv, TypeOK
    <2>2. Told(arg[r].kind, c[1], c[2])
        BY <1>2, <1>3 DEF IInv, RunOK, EdgesAreTold
    <2> QED
        BY <1>2, <2>1, <2>2 DEF Edges, Same
<1> HIDE DEF new
<1>6. /\ put' \in [Runs -> SUBSET Edges] /\ count' \in [Runs -> Counts]
      /\ \A q \in Runs : q # r => put'[q] = put[q] /\ count'[q] = count[q]
      /\ \/ put'[r] = put[r] /\ count'[r].made = count[r].made
         \/ /\ put'[r] = put[r] \cup {new} /\ count'[r].made = count[r].made + 1
            /\ new \notin edges \cup put[r]
    <2>1. CASE \E e \in edges \cup put[r] : Same(e, c, r)
        BY <1>3, <2>1 DEF IInv, TypeOK
    <2>2. CASE ~ \E e \in edges \cup put[r] : Same(e, c, r)
        <3>1. put' = [put EXCEPT ![r] = put[r] \cup {new}] /\ Add(r, [made |-> 1])
            BY <1>3, <2>2 DEF new
        <3>2. count \in [Runs -> Counts]
            BY DEF IInv, TypeOK
        <3>3. DOMAIN [made |-> 1] = {"made"} /\ [made |-> 1]["made"] = 1
            OBVIOUS
        <3>4. /\ count' \in [Runs -> Counts] /\ count'[r].made = count[r].made + 1
              /\ \A q \in Runs : q # r => count'[q] = count[q]
            BY <3>1, <3>2, <3>3, Adding
        <3> QED
            BY <1>5, <2>2, <3>1, <3>4 DEF IInv, TypeOK
    <2> QED
        BY <2>1, <2>2
<1>7. TypeOK'
    <2>1. passed' \subseteq Sources \X Cites
        BY <1>2, <1>3, <1>5 DEF IInv, TypeOK
    <2> QED
        BY <1>1, <1>4, <1>6, <2>1 DEF IInv, TypeOK, tables, Finds
<1>8. Local(r)
    <2>1. passed' = passed \/ PassedEdgesAreThere'
        <3>1. CASE ~ \E e \in edges \cup put[r] : Same(e, c, r)
            BY <1>3, <3>1
        <3>2. ASSUME NEW e \in edges \cup put[r], Same(e, c, r)
              PROVE  PassedEdgesAreThere'
            <4>1. passed' = passed \cup {<<arg[r].kind, c>>} /\ edges' = edges
                BY <1>1, <1>3, <3>2 DEF tables
            <4>2. <<e.from, e.to>> = c
                BY <1>5, <3>2 DEF Same
            <4>3. e \in edges /\ e.source = arg[r].kind
                BY <1>3, <3>2, <4>2 DEF Same, IInv, RunOK, InPlace
            <4> QED
                BY <4>1, <4>2, <4>3 DEF IInv, PassedEdgesAreThere
        <3> QED
            BY <3>1, <3>2
    <2> QED
        BY <1>1, <1>4, <1>6, <2>1 DEF Local, tables, Over
<1>9. GapsBy(r)' = GapsBy(r) /\ EdgesBy(r)' = EdgesBy(r)
    BY <1>1, RowsByRun DEF tables
<1>10. /\ Detects(r)' <=> Detects(r)
       /\ Fetches(r)' <=> Fetches(r)
       /\ Single(r)' <=> Single(r)
    BY <1>1, RowsByRun
<1>11. Untouched(r)'
    BY <1>1 DEF Untouched
<1>12. InPlace(r)'
    <2>1. put'[r] \cap edges' = {} /\ \A e \in put'[r] : e.by = r
        BY <1>1, <1>5, <1>6 DEF IInv, RunOK, InPlace, tables
    <2>2. \A e \in put'[r] : <<e.from, e.to>> \notin found'[r].cites
        BY <1>4, <1>5, <1>6 DEF IInv, RunOK, InPlace
    <2> QED
        BY <1>1, <1>2, <1>10, <2>1, <2>2 DEF IInv, RunOK, InPlace
<1>13. SeedsAreNew(r)'
    BY <1>1, SeedsStay DEF IInv, RunOK, tables
<1>14. GapsCounted(r)' /\ GapsTold(r)'
    BY <1>2, <1>9, <1>10 DEF IInv, RunOK, GapsCounted, GapsTold, Fetches
<1>15. EdgesTold(r)'
    BY <1>1, <1>9, <1>10 DEF IInv, RunOK, EdgesTold
<1>16. EdgesCounted(r)'
    <2>1. IsFiniteSet(put[r]) /\ IsFiniteSet(EdgesBy(r)) /\ Cardinality(put[r]) \in Nat
        BY FS_CardinalityType DEF IInv, RunOK, EdgesCounted
    <2>2. IsFiniteSet(put[r] \cup {new}) /\ (new \notin put[r] => Cardinality(put[r] \cup {new}) = Cardinality(put[r]) + 1)
        BY <2>1, FS_AddElement
    <2>3. ~ Single(r) => count[r].made = row[r].count.made + Cardinality(put[r])
        BY <1>1, <1>2 DEF IInv, RunOK, EdgesCounted
    <2>4. row[r].count.made \in Nat /\ row' = row
        BY <1>1 DEF IInv, TypeOK, Counts
    <2>5. IsFiniteSet(put'[r])
        BY <1>6, <2>1, <2>2
    <2>6. ~ Single(r) => count'[r].made = row'[r].count.made + Cardinality(put'[r])
        <3>1. CASE put'[r] = put[r] /\ count'[r].made = count[r].made
            BY <2>3, <2>4, <3>1
        <3>2. CASE /\ put'[r] = put[r] \cup {new} /\ count'[r].made = count[r].made + 1
                   /\ new \notin edges \cup put[r]
            <4>1. Cardinality(put'[r]) = Cardinality(put[r]) + 1
                BY <2>2, <3>2
            <4>2. row'[r].count.made = row[r].count.made
                BY <2>4
            <4> QED
                BY <2>1, <2>3, <2>4, <3>2, <4>1, <4>2
        <3> QED
            BY <1>6, <3>1, <3>2
    <2> QED
        BY <1>9, <1>10, <2>1, <2>5, <2>6 DEF EdgesCounted
<1>17. EdgesAreTold(r)'
    BY <1>1, <1>4, <1>5, <1>6, <1>10 DEF IInv, RunOK, EdgesAreTold, Told
<1>18. RunOK(r)'
    BY <1>11, <1>12, <1>13, <1>14, <1>15, <1>16, <1>17 DEF RunOK
<1> QED
    BY <1>1, <1>7, <1>8, <1>18, LocalInvariant DEF tables

-----------------------------------------------------------------------------
(* The beginnings, and what happens beside the runs *)

Args == [kind: Kinds, force: BOOLEAN, save: BOOLEAN, single: BOOLEAN]

\* A run begins: with its row, to select, or for one paper.
LEMMA BeginInvariant ==
    ASSUME IInv, NEW r \in Runs, pc[r] = "off", Meets(r),
           NEW label \in {"select", "next"}, To(r, label),
           NEW a \in Args, a.single <=> label = "next", arg' = [arg EXCEPT ![r] = a],
           NEW chosen \in SUBSET Papers, label = "select" => chosen = {},
           todo' = [todo EXCEPT ![r] = chosen],
           row' = row \/ row' = [row EXCEPT ![r] = [status |-> "running", count |-> Zero]],
           UNCHANGED <<tables, hand, found, put, count, fetched, passed>>
    PROVE  IInv'
<1>1. /\ pc' \in [Runs -> Labels] /\ pc'[r] = label
      /\ \A q \in Runs : q # r => pc'[q] = pc[q]
    BY PcSet DEF IInv, TypeOK, Labels
<1>2. /\ todo' \in [Runs -> SUBSET Papers] /\ todo'[r] = chosen
      /\ \A q \in Runs : q # r => todo'[q] = todo[q]
    BY DEF IInv, TypeOK
<1>3. /\ arg' \in [Runs -> Args] /\ arg'[r] = a
      /\ \A q \in Runs : q # r => arg'[q] = arg[q]
    BY DEF IInv, TypeOK, Args
<1>4. /\ GapsBy(r) = {} /\ EdgesBy(r) = {} /\ put[r] = {}
      /\ count[r] = Zero /\ row[r].count = Zero /\ found[r] = Nothing
      /\ met[r] = {} /\ row[r].status = "none"
    BY DEF IInv, RunOK, Untouched, InPlace
<1>5. /\ row' \in Rows /\ row'[r].count = Zero /\ row'[r].status \in {"none", "running"}
      /\ \A q \in Runs : q # r => row'[q] = row[q]
    <2>1. CASE row' = row
        BY <1>4, <2>1 DEF IInv, TypeOK, Rows
    <2>2. CASE row' = [row EXCEPT ![r] = [status |-> "running", count |-> Zero]]
        BY <2>2, ZeroIsCounts DEF IInv, TypeOK, Rows
    <2> QED
        BY <2>1, <2>2
<1>6. r \notin Alive
    BY DEF Alive
<1>7. /\ met' \in [Runs -> SUBSET Runs] /\ met'[r] = Alive
      /\ \A q \in Runs : q # r => met'[q] = IF q \in Alive THEN met[q] \cup {r} ELSE met[q]
    BY DEF Meets, Alive, IInv, TypeOK
<1>8. TypeOK'
    BY <1>1, <1>2, <1>3, <1>5, <1>7 DEF IInv, TypeOK, tables, Rows, Args
<1>9. Alive' = Alive \cup {r}
    BY <1>1 DEF Alive
<1>10. MeetingIsMutual'
    <2> SUFFICES ASSUME NEW p \in Runs, NEW q \in Runs
                 PROVE  /\ p \in met'[q] => q \in met'[p]
                        /\ p \in Alive' /\ q \in Alive' /\ p # q => p \in met'[q]
        BY DEF MeetingIsMutual
    <2>1. CASE p # r /\ q # r
        BY <1>7, <1>9, <2>1 DEF IInv, MeetingIsMutual
    <2>2. CASE q = r
        BY <1>6, <1>7, <1>9, <2>2
    <2>3. CASE p = r /\ q # r
        <3>1. r \notin met[q]
            BY <1>4 DEF IInv, MeetingIsMutual
        <3> QED
            BY <1>7, <1>9, <2>3, <3>1
    <2> QED
        BY <2>1, <2>2, <2>3
<1>11. ASSUME NEW q \in Runs, q # r
       PROVE  RunOK(q)'
    <2>1. Spares(q)
        BY <1>1, <1>2, <1>3, <1>5, <1>7, <1>11 DEF Spares, tables, Alive
    <2> QED
        BY <2>1, SparedStays DEF IInv
<1>12. GapsBy(r)' = {} /\ EdgesBy(r)' = {} /\ (Single(r)' <=> label = "next")
    BY <1>3, <1>4, RowsByRun DEF tables, Single
<1>13. IsFiniteSet({}) /\ Cardinality({}) = 0
    BY FS_EmptySet
<1>14. Untouched(r)' /\ InPlace(r)'
    BY <1>1, <1>2, <1>4, <1>5, <1>12 DEF Untouched, InPlace
<1>15. SeedsAreNew(r)'
    <2>1. \A g \in gaps : g.by # r
        BY <1>4 DEF GapsBy
    <2> QED
        BY <1>1, <1>2, <1>12, <2>1 DEF SeedsAreNew, tables
<1>16. GapsCounted(r)' /\ GapsTold(r)'
    BY <1>4, <1>5, <1>12, <1>13, ZeroIsCounts DEF GapsCounted, GapsTold
<1>17. EdgesCounted(r)' /\ EdgesTold(r)'
    BY <1>4, <1>5, <1>12, <1>13, ZeroIsCounts DEF EdgesCounted, EdgesTold
<1>18. EdgesAreTold(r)'
    BY <1>4 DEF EdgesAreTold, Nothing
<1>19. RunOK(r)'
    BY <1>14, <1>15, <1>16, <1>17, <1>18 DEF RunOK
<1>20. RepeatsHaveAReason'
    <2> SUFFICES ASSUME NEW g \in gaps, NEW h \in gaps, g.seed = h.seed, g.by # h.by
                 PROVE  \/ \E q \in {g.by, h.by} : arg'[q].force \/ arg'[q].single
                        \/ g.by \in met'[h.by]
        BY DEF RepeatsHaveAReason, Single, tables
    <2>1. g.by # r /\ h.by # r /\ g.by \in Runs /\ h.by \in Runs
        BY <1>4 DEF GapsBy, IInv, TypeOK
    <2>2. \/ \E q \in {g.by, h.by} : arg[q].force \/ arg[q].single
          \/ g.by \in met[h.by]
        BY DEF IInv, RepeatsHaveAReason, Single
    <2> QED
        BY <1>3, <1>7, <2>1, <2>2
<1>21. CoveredMeansFetched'
    BY CoveredStays DEF IInv, tables
<1>22. PassedEdgesAreThere'
    BY DEF IInv, PassedEdgesAreThere, tables
<1> QED
    BY <1>8, <1>10, <1>11, <1>19, <1>20, <1>21, <1>22 DEF IInv

LEMMA LaunchInvariant ==
    ASSUME IInv, NEW r \in Runs, Launch(r)
    PROVE  IInv'
<1>1. PICK kind \in Kinds, force \in BOOLEAN, save \in BOOLEAN :
          arg' = [arg EXCEPT ![r] = [kind |-> kind, force |-> force, save |-> save, single |-> FALSE]]
    BY DEF Launch
<1> DEFINE a == [kind |-> kind, force |-> force, save |-> save, single |-> FALSE]
<1>2. a \in Args /\ a.single = FALSE /\ arg' = [arg EXCEPT ![r] = a]
    BY <1>1 DEF Args
<1>3. todo' = [todo EXCEPT ![r] = {}]
    BY DEF Launch, work, IInv, TypeOK, RunOK, InPlace
<1>4. a.single <=> "select" = "next"
    BY <1>2
<1> HIDE DEF a
<1> QED
    BY <1>2, <1>3, <1>4, BeginInvariant DEF Launch, work

LEMMA LaunchSingleInvariant ==
    ASSUME IInv, NEW r \in Runs, LaunchSingle(r)
    PROVE  IInv'
<1>1. PICK kind \in Kinds, save \in BOOLEAN, p \in Papers :
          /\ arg' = [arg EXCEPT ![r] = [kind |-> kind, force |-> FALSE, save |-> save, single |-> TRUE]]
          /\ todo' = [todo EXCEPT ![r] = {p}]
    BY DEF LaunchSingle
<1> DEFINE a == [kind |-> kind, force |-> FALSE, save |-> save, single |-> TRUE]
<1>2. a \in Args /\ a.single = TRUE /\ arg' = [arg EXCEPT ![r] = a]
    BY <1>1 DEF Args
<1>3. {p} \in SUBSET Papers
    OBVIOUS
<1> HIDE DEF a
<1> QED
    BY <1>1, <1>2, <1>3, BeginInvariant DEF LaunchSingle

\* What happens beside the runs, or does not happen at all.
LEMMA BesideInvariant ==
    ASSUME IInv, TypeOK', UNCHANGED <<gaps, edges, row, pc, arg, work, history>>
    PROVE  IInv'
<1>1. MeetingIsMutual'
    BY DEF IInv, MeetingIsMutual, Alive, history
<1>2. \A q \in Runs : Spares(q)
    BY DEF Spares, work, history
<1>3. \A q \in Runs : RunOK(q)'
    BY <1>2, SparedStays DEF IInv
<1>4. RepeatsHaveAReason'
    BY DEF IInv, RepeatsHaveAReason, Single, history
<1>5. CoveredMeansFetched'
    BY CoveredStays DEF IInv, history
<1>6. PassedEdgesAreThere'
    BY DEF IInv, PassedEdgesAreThere, history
<1> QED
    BY <1>1, <1>3, <1>4, <1>5, <1>6 DEF IInv

-----------------------------------------------------------------------------
(* The theorems *)

LEMMA InitInvariant ==
    ASSUME Init
    PROVE  IInv
<1>1. IsFiniteSet({}) /\ Cardinality({}) = 0
    BY FS_EmptySet
<1>2. Nothing \in [drafts: Nat, era: Nat, cites: SUBSET Cites] /\ Nothing.cites = {}
    BY DEF Nothing
<1>3. TypeOK
    BY <1>2, ZeroIsCounts DEF Init, TypeOK, Labels, Kinds
<1>4. MeetingIsMutual
    BY DEF Init, MeetingIsMutual, Alive
<1>5. ASSUME NEW r \in Runs
      PROVE  RunOK(r)
    <2>1. /\ GapsBy(r) = {} /\ EdgesBy(r) = {} /\ put[r] = {} /\ found[r] = Nothing
          /\ count[r] = Zero /\ row[r] = [status |-> "none", count |-> Zero]
          /\ pc[r] = "off" /\ todo[r] = {} /\ met[r] = {} /\ gaps = {}
        BY DEF Init, GapsBy, EdgesBy
    <2>2. Untouched(r) /\ InPlace(r)
        BY <2>1 DEF Untouched, InPlace
    <2>3. SeedsAreNew(r)
        BY <2>1 DEF SeedsAreNew
    <2>4. GapsCounted(r) /\ GapsTold(r)
        BY <1>1, <2>1, ZeroIsCounts DEF GapsCounted, GapsTold
    <2>5. EdgesCounted(r) /\ EdgesTold(r)
        BY <1>1, <2>1, ZeroIsCounts DEF EdgesCounted, EdgesTold
    <2>6. EdgesAreTold(r)
        BY <1>2, <2>1 DEF EdgesAreTold
    <2> QED
        BY <2>2, <2>3, <2>4, <2>5, <2>6 DEF RunOK
<1>6. RepeatsHaveAReason /\ CoveredMeansFetched /\ PassedEdgesAreThere
    BY DEF Init, RepeatsHaveAReason, CoveredMeansFetched, PassedEdgesAreThere
<1> QED
    BY <1>3, <1>4, <1>5, <1>6 DEF IInv

LEMMA NextInvariant ==
    ASSUME IInv, [Next]_vars
    PROVE  IInv'
<1>1. ASSUME NEW r \in Runs,
             Launch(r) \/ Select(r) \/ Fail(r) \/ Sync(r) \/ Complete(r)
      PROVE  IInv'
    BY <1>1, LaunchInvariant, SelectInvariant, FailInvariant, SyncInvariant, CompleteInvariant
<1>2. ASSUME NEW r \in Runs,
             Detect(r) \/ SaveGaps(r) \/ SaveFails(r)
      PROVE  IInv'
    BY <1>2, DetectInvariant, SaveGapsInvariant, SaveFailsInvariant
<1>3. ASSUME NEW r \in Runs,
             Fetch(r) \/ InsertEdge(r) \/ EdgesDone(r) \/ SavepointFails(r)
      PROVE  IInv'
    BY <1>3, FetchInvariant, InsertEdgeInvariant, EdgesDoneInvariant, SavepointFailsInvariant
<1>4. ASSUME NEW r \in Runs,
             LaunchSingle(r) \/ CommitSingle(r) \/ FailSingle(r) \/ DatabaseError(r) \/ Kill(r)
      PROVE  IInv'
    BY <1>4, LaunchSingleInvariant, CommitSingleInvariant, FailSingleInvariant,
       DatabaseErrorInvariant, KillInvariant
<1>5. CASE Reset
    <2>1. TypeOK'
        BY <1>5 DEF IInv, TypeOK, Reset, work, history
    <2> QED
        BY <1>5, <2>1, BesideInvariant DEF Reset
<1>6. CASE Exclude
    <2>1. TypeOK'
        BY <1>6 DEF IInv, TypeOK, Exclude, work, history
    <2> QED
        BY <1>6, <2>1, BesideInvariant DEF Exclude
<1>7. CASE UNCHANGED vars
    <2>1. TypeOK'
        BY <1>7 DEF IInv, TypeOK, vars, tables, work, history
    <2> QED
        BY <1>7, <2>1, BesideInvariant DEF vars, tables
<1> QED
    BY <1>1, <1>2, <1>3, <1>4, <1>5, <1>6, <1>7 DEF Next

LEMMA Invariance ==
    Spec => []IInv
<1>1. Init => IInv
    BY InitInvariant
<1>2. IInv /\ [Next]_vars => IInv'
    BY NextInvariant
<1> QED
    BY <1>1, <1>2, PTL DEF Spec

\* Every variable keeps its type.
THEOREM TypeCorrect == Spec => []TypeOK
<1>1. IInv => TypeOK
    BY DEF IInv
<1> QED
    BY <1>1, Invariance, PTL

\* However batches overlap, fail or are killed, the row of each tells what it
\* has stored, but for the paper in progress.
THEOREM RowsTell == Spec => []RowsTellWhatIsStored
<1>1. IInv => RowsTellWhatIsStored
    BY DEF IInv, RunOK, RowsTellWhatIsStored, SavedGapsAreCounted, EdgesAreCounted
<1> QED
    BY <1>1, Invariance, PTL

\* A seed has the gaps of two runs only if one was told to repeat, or they
\* were at work at the same time.
THEOREM RepeatsExplained == Spec => []RepeatsHaveAReason
<1>1. IInv => RepeatsHaveAReason
    BY DEF IInv
<1> QED
    BY <1>1, Invariance, PTL

\* What passes for covered comes from a record that was fetched: that of the
\* paper, or from Semantic Scholar that of a paper it cites.
THEOREM CoveredFetched == Spec => []CoveredMeansFetched
<1>1. IInv => CoveredMeansFetched
    BY DEF IInv
<1> QED
    BY <1>1, Invariance, PTL

\* An edge that a run passes as stored is stored, whatever becomes of the run
\* it met it from: none is lost between two runs that insert it together.
THEOREM PassedStored == Spec => []PassedEdgesAreThere
<1>1. IInv => PassedEdgesAreThere
    BY DEF IInv
<1> QED
    BY <1>1, Invariance, PTL

=============================================================================
