-------------------------- MODULE ExtractionProofs ---------------------------
(***************************************************************************)
(* For any runs, papers, candidates, gaps and assessments: a claim has its *)
(* evidence and evidence its claim unless a revalidation took it, papers   *)
(* are extracted whole, duplicates need an overlap, a forced run starts    *)
(* over, and what a save or a build linked goes as a whole.                *)
(***************************************************************************)
EXTENDS Extraction, TLAPS

\* Which table is of which kind.
LEMMA TableNames ==
    /\ LinkTables \subseteq Tables
    /\ Referring \subseteq Tables
    /\ "evidence" \in Tables /\ "extracted_claims" \in Tables
    /\ "evidence_reviews" \in Tables /\ "extraction_errors" \in Tables
    /\ "evidence" \notin LinkTables /\ "extracted_claims" \notin LinkTables
    /\ "evidence_reviews" \notin LinkTables /\ "extraction_errors" \notin LinkTables
BY DEF Tables, LinkTables, Referring

\* The rows that a table may hold.
LEMMA RowTypes ==
    /\ \A k \in Tables : RowsOf(k) \subseteq Links \cup Errors \cup Rows
    /\ \A k \in LinkTables : RowsOf(k) = Links
    /\ RowsOf("evidence") = Rows /\ RowsOf("extracted_claims") = Rows
    /\ RowsOf("evidence_reviews") = Rows /\ RowsOf("extraction_errors") = Errors
BY TableNames DEF RowsOf, Tables, LinkTables

\* The statements of the reset, by their place.
LEMMA ResetPlaces ==
    /\ Len(ResetOrder) = 6
    /\ \A i \in 1 .. 6 : ResetOrder[i] \in Tables
    /\ \A i \in 1 .. 6 : ResetOrder[i] = "extracted_claims" <=> i = 4
    /\ \A i \in 1 .. 6 : ResetOrder[i] = "evidence" <=> i = 5
    /\ \A i \in 1 .. 6 : ResetOrder[i] \in LinkTables <=> i < 4
<1>1. Len(ResetOrder) = 6
  BY DEF ResetOrder
<1>2. \A i \in 1 .. 6 : i = 1 \/ i = 2 \/ i = 3 \/ i = 4 \/ i = 5 \/ i = 6
  OBVIOUS
<1>3. /\ ResetOrder[1] = "candidate_gap_evidence" /\ ResetOrder[2] = "research_assessment_evidence"
      /\ ResetOrder[3] = "claim_evidence" /\ ResetOrder[4] = "extracted_claims"
      /\ ResetOrder[5] = "evidence" /\ ResetOrder[6] = "extraction_errors"
  BY DEF ResetOrder
<1> QED  BY <1>1, <1>2, <1>3 DEF Tables, LinkTables

\* Nothing deleted is a value of doomed.
LEMMA EmptyType == Empty \in [Tables -> SUBSET (Links \cup Errors \cup Rows)]
BY DEF Empty

\* No pass is a value of pass.
LEMMA NoPassType ==
    NoPass \in [paper: Papers \cup {None}, accepted: SUBSET Positions,
                noted: SUBSET (Positions \cup {0})]
BY DEF NoPass

\* Where a reset is, in numbers.
LEMMA SweptPlaces ==
    ASSUME TypeOK, NEW r \in Runs
    PROVE  /\ Swept(r, "extracted_claims") <=> pc[r] = "reset" /\ step[r] > 4
           /\ Swept(r, "evidence") <=> pc[r] = "reset" /\ step[r] > 5
<1>1. step[r] \in 1 .. 7
  BY ResetPlaces DEF TypeOK
<1>2. \A i \in 1 .. step[r] - 1 : i \in 1 .. 6
  BY <1>1
<1>3. Swept(r, "extracted_claims") <=> pc[r] = "reset" /\ 4 \in 1 .. step[r] - 1
  BY <1>1, <1>2, ResetPlaces DEF Swept
<1>4. Swept(r, "evidence") <=> pc[r] = "reset" /\ 5 \in 1 .. step[r] - 1
  BY <1>1, <1>2, ResetPlaces DEF Swept
<1> QED  BY <1>1, <1>3, <1>4

\* The same of the next state.
LEMMA SweptPlacesNext ==
    ASSUME TypeOK', NEW r \in Runs
    PROVE  /\ Swept(r, "extracted_claims")' <=> pc'[r] = "reset" /\ step'[r] > 4
           /\ Swept(r, "evidence")' <=> pc'[r] = "reset" /\ step'[r] > 5
<1>1. step'[r] \in 1 .. 7
  BY ResetPlaces DEF TypeOK
<1>2. \A i \in 1 .. step'[r] - 1 : i \in 1 .. 6
  BY <1>1
<1>3. Swept(r, "extracted_claims")' <=> pc'[r] = "reset" /\ 4 \in 1 .. step'[r] - 1
  BY <1>1, <1>2, ResetPlaces DEF Swept
<1>4. Swept(r, "evidence")' <=> pc'[r] = "reset" /\ 5 \in 1 .. step'[r] - 1
  BY <1>1, <1>2, ResetPlaces DEF Swept
<1> QED  BY <1>1, <1>3, <1>4

\* Links that a commit writes.
LEMMA BuiltFacts ==
    ASSUME NEW w \in Writers
    PROVE  /\ Built(w, {}) = {}
           /\ \A S : \A l \in Built(w, S) : l.by = w /\ l.role = "built"
           /\ \A S \in SUBSET Rows : Built(w, S) \subseteq Links
BY DEF Built, Links, Roles

\* A step that is no run's.
Aside ==
    \/ \E w \in Writers : ReadEvidence(w) \/ Cite(w) \/ Synthesize(w) \/ DeleteAssessment(w)
    \/ ReviewEvidence \/ Revalidate
    \/ UNCHANGED vars

\* It leaves the processes alone, and the histories of who met whom.
LEMMA AsideFacts ==
    ASSUME Aside
    PROVE  UNCHANGED <<pc, step, doomed, todo, pass, ledger, forced, limited, met, prior, passes,
                       broken>>
BY DEF Aside, ReadEvidence, Cite, Synthesize, DeleteAssessment, ReviewEvidence, Revalidate, vars,
       processes, history

-----------------------------------------------------------------------------
(* Types.                                                                  *)

\* A process that ends leaves well-typed variables behind.
LEMMA LeaveType ==
    ASSUME TypeOK, NEW r \in Runs, Leave(r)
    PROVE  /\ pc' \in [Runs -> {"off", "reset", "insert", "select", "work", "save", "end"}]
           /\ step' \in [Runs -> 1 .. Len(ResetOrder) + 1]
           /\ doomed' \in [Runs -> [Tables -> SUBSET (Links \cup Errors \cup Rows)]]
           /\ todo' \in [Runs -> SUBSET Papers]
           /\ pass' \in [Runs -> [paper: Papers \cup {None}, accepted: SUBSET Positions,
                                  noted: SUBSET (Positions \cup {0})]]
           /\ forced' \subseteq Runs /\ limited' \subseteq Runs
<1>1. Len(ResetOrder) = 6
  BY ResetPlaces
<1> QED  BY <1>1, EmptyType, NoPassType DEF Leave, TypeOK

\* What the transaction of a paper adds: as many claims as evidence, and no
\* link or review.
LEMMA SavedType ==
    ASSUME TypeOK, NEW r \in Runs, pc[r] = "save", pass[r].paper \in Papers,
           NEW S
    PROVE  /\ Saved(r, S) \in [Tables -> SUBSET (Links \cup Errors \cup Rows)]
           /\ \A k \in Tables : Saved(r, S)[k] \subseteq RowsOf(k)
           /\ Saved(r, S)["evidence"] =
                table["evidence"] \cup [run: {r}, paper: {pass[r].paper}, at: pass[r].accepted \cap S]
           /\ Saved(r, S)["extracted_claims"] =
                table["extracted_claims"]
                  \cup [run: {r}, paper: {pass[r].paper}, at: pass[r].accepted \cap S]
           /\ \A k \in LinkTables \cup {"evidence_reviews"} : Saved(r, S)[k] = table[k]
<1> DEFINE new == [run: {r}, paper: {pass[r].paper}, at: pass[r].accepted \cap S]
           err == [run: IF pass[r].noted \cap S = {} THEN {} ELSE {r}, paper: {pass[r].paper}]
<1>1. new \subseteq Rows
  <2>1. pass[r].accepted \subseteq Positions
    BY DEF TypeOK
  <2> QED  BY <2>1 DEF Rows
<1>2. err \subseteq Errors
  BY DEF Errors
<1>3. Saved(r, S) = [table EXCEPT !["evidence"] = @ \cup new,
                                  !["extracted_claims"] = @ \cup new,
                                  !["extraction_errors"] = @ \cup err]
  BY DEF Saved
<1>4. /\ table \in [Tables -> SUBSET (Links \cup Errors \cup Rows)]
      /\ \A k \in Tables : table[k] \subseteq RowsOf(k)
  BY DEF TypeOK
<1> HIDE DEF new, err
<1>5. /\ Saved(r, S)["evidence"] = table["evidence"] \cup new
      /\ Saved(r, S)["extracted_claims"] = table["extracted_claims"] \cup new
      /\ Saved(r, S)["extraction_errors"] = table["extraction_errors"] \cup err
      /\ \A k \in Tables \ {"evidence", "extracted_claims", "extraction_errors"} :
           Saved(r, S)[k] = table[k]
      /\ DOMAIN Saved(r, S) = Tables
  BY <1>3, <1>4, TableNames
<1>6. \A k \in Tables : Saved(r, S)[k] \subseteq RowsOf(k)
  BY <1>1, <1>2, <1>4, <1>5, RowTypes
<1>7. Saved(r, S) = [k \in Tables |-> Saved(r, S)[k]]
  BY <1>3, <1>4, <1>5
<1>8. Saved(r, S) \in [Tables -> SUBSET (Links \cup Errors \cup Rows)]
  BY <1>6, <1>7, RowTypes
<1> QED  BY <1>5, <1>6, <1>8, TableNames DEF new

\* The types hold at the start.
LEMMA InitType == Init => TypeOK
<1> SUFFICES ASSUME Init PROVE TypeOK
  OBVIOUS
<1>1. Len(ResetOrder) = 6
  BY ResetPlaces
<1>2. table \in [Tables -> SUBSET (Links \cup Errors \cup Rows)] /\ \A k \in Tables : table[k] = {}
  BY EmptyType DEF Init, Empty
<1> QED  BY <1>1, <1>2, EmptyType, NoPassType DEF Init, TypeOK

\* The types after a commit that cites.
LEMMA CiteType ==
    ASSUME TypeOK, NEW w \in Writers, Cite(w)
    PROVE  /\ table' \in [Tables -> SUBSET (Links \cup Errors \cup Rows)]
           /\ \A k \in Tables : table'[k] \subseteq RowsOf(k)
           /\ cited' \in [Writers -> [LinkTables -> SUBSET Rows]]
           /\ read' \in [Writers -> SUBSET Rows]
<1> DEFINE own == IF w \in Gaps THEN "candidate_gap_evidence" ELSE "research_assessment_evidence"
<1>1. own \in LinkTables /\ own \in Tables /\ "claim_evidence" \in Tables
      /\ "claim_evidence" \in LinkTables /\ own # "claim_evidence"
  BY DEF Tables, LinkTables
<1>2. read[w] \subseteq Rows
  BY DEF TypeOK
<1>3. \A S \in SUBSET Rows : Built(w, S) \subseteq Links
  BY BuiltFacts
<1>4. /\ table \in [Tables -> SUBSET (Links \cup Errors \cup Rows)]
      /\ \A k \in Tables : table[k] \subseteq RowsOf(k)
      /\ cited \in [Writers -> [LinkTables -> SUBSET Rows]]
      /\ read \in [Writers -> SUBSET Rows]
  BY DEF TypeOK
<1>5. PICK claimed \in SUBSET read[w] :
         \/ /\ table' = [table EXCEPT ![own] = @ \cup Built(w, read[w]),
                                      !["claim_evidence"] = @ \cup Built(w, claimed)]
            /\ cited' = [cited EXCEPT ![w][own] = read[w], ![w]["claim_evidence"] = claimed]
         \/ UNCHANGED <<table, cited>>
  BY DEF Cite
<1>6. read' \in [Writers -> SUBSET Rows]
  BY <1>4 DEF Cite
<1> HIDE DEF own
<1>7. CASE UNCHANGED <<table, cited>>
  BY <1>4, <1>6, <1>7
<1>8. CASE /\ table' = [table EXCEPT ![own] = @ \cup Built(w, read[w]),
                                      !["claim_evidence"] = @ \cup Built(w, claimed)]
           /\ cited' = [cited EXCEPT ![w][own] = read[w], ![w]["claim_evidence"] = claimed]
  <2>1. /\ Built(w, read[w]) \subseteq Links
        /\ Built(w, claimed) \subseteq Links
    BY <1>2, <1>3, <1>5
  <2>2. RowsOf(own) = Links /\ RowsOf("claim_evidence") = Links
    BY <1>1, RowTypes
  <2>3. \A k \in Tables : table'[k] \subseteq RowsOf(k)
    BY <1>8, <1>1, <1>4, <2>1, <2>2
  <2>4. table' \in [Tables -> SUBSET (Links \cup Errors \cup Rows)]
    BY <1>8, <1>1, <1>4, <2>1
  <2>5. cited' \in [Writers -> [LinkTables -> SUBSET Rows]]
    BY <1>8, <1>1, <1>2, <1>4, <1>5
  <2> QED  BY <2>3, <2>4, <2>5, <1>6
<1> QED  BY <1>5, <1>7, <1>8

\* The types after a pass over a paper, and which paper it is of.
LEMMA ProcessType ==
    ASSUME TypeOK, NEW r \in Runs, Process(r)
    PROVE  /\ pass' \in [Runs -> [paper: Papers \cup {None}, accepted: SUBSET Positions,
                                  noted: SUBSET (Positions \cup {0})]]
           /\ todo' \in [Runs -> SUBSET Papers]
           /\ \E p \in todo[r] : /\ pass'[r].paper = p
                                 /\ todo' = [todo EXCEPT ![r] = @ \ {p}]
           /\ \A q \in Runs \ {r} : pass'[q] = pass[q]
<1>0. PICK p \in todo[r] : \E accepted, noted \in SUBSET (0 .. Candidates[p]) :
         /\ 0 \notin accepted
         /\ pass' = [pass EXCEPT ![r] = [paper |-> p, accepted |-> accepted, noted |-> noted]]
         /\ todo' = [todo EXCEPT ![r] = @ \ {p}]
  BY DEF Process
<1>1. PICK accepted, noted \in SUBSET (0 .. Candidates[p]) :
         /\ 0 \notin accepted
         /\ pass' = [pass EXCEPT ![r] = [paper |-> p, accepted |-> accepted, noted |-> noted]]
         /\ todo' = [todo EXCEPT ![r] = @ \ {p}]
  BY <1>0
<1>2. p \in Papers /\ todo \in [Runs -> SUBSET Papers]
  BY DEF TypeOK
<1>3. Candidates[p] \in Nat
  BY <1>2, CandidatesAssumption
<1>4. 1 .. Candidates[p] \subseteq Positions
  BY <1>2 DEF Positions
<1>5. accepted \subseteq Positions /\ noted \subseteq Positions \cup {0}
  <2>1. \A i \in 0 .. Candidates[p] : i = 0 \/ i \in 1 .. Candidates[p]
    BY <1>3
  <2> QED  BY <1>1, <1>4, <2>1
<1>6. [paper |-> p, accepted |-> accepted, noted |-> noted]
        \in [paper: Papers \cup {None}, accepted: SUBSET Positions,
             noted: SUBSET (Positions \cup {0})]
  BY <1>2, <1>5
<1>7. pass \in [Runs -> [paper: Papers \cup {None}, accepted: SUBSET Positions,
                         noted: SUBSET (Positions \cup {0})]]
  BY DEF TypeOK
<1> QED  BY <1>1, <1>2, <1>6, <1>7

\* A run that leaves forgets its work.
LEMMA LeaveFacts ==
    ASSUME TypeOK, NEW r \in Runs, Leave(r)
    PROVE  /\ pc' = [pc EXCEPT ![r] = "end"]
           /\ pc'[r] = "end" /\ step'[r] = 1 /\ doomed'[r] = Empty /\ todo'[r] = {}
           /\ pass'[r] = NoPass
           /\ \A q \in Runs \ {r} :
                /\ pc'[q] = pc[q] /\ step'[q] = step[q] /\ doomed'[q] = doomed[q]
                /\ todo'[q] = todo[q] /\ pass'[q] = pass[q]
           /\ UNCHANGED <<forced, limited>>
BY DEF Leave, TypeOK

-----------------------------------------------------------------------------
(* A run's course, with the types.                                         *)

\* The types after a step of a run.
LEMMA RunTypeStep ==
    ASSUME TypeOK, RunsKeepStep, NEW r \in Runs,
           \/ Launch(r) \/ ResetStatement(r) \/ ResetCommit(r) \/ InsertRun(r) \/ Select(r)
           \/ Process(r) \/ CommitPaper(r) \/ Complete(r) \/ Fail(r) \/ Kill(r)
    PROVE  TypeOK'
<1> USE DEF writing, history
<1>0. Len(ResetOrder) = 6 /\ \A i \in 1 .. 6 : ResetOrder[i] \in Tables
  BY ResetPlaces
<1>00. /\ table \in [Tables -> SUBSET (Links \cup Errors \cup Rows)]
       /\ \A k \in Tables : table[k] \subseteq RowsOf(k)
       /\ step[r] \in 1 .. 7
       /\ doomed \in [Runs -> [Tables -> SUBSET (Links \cup Errors \cup Rows)]]
  BY <1>0 DEF TypeOK
<1>1. CASE Launch(r)
  <2>1. met' \in [Runs -> SUBSET Runs]
    <3>1. Alive \subseteq Runs /\ \A q \in Runs : met[q] \subseteq Runs
      BY DEF Alive, TypeOK
    <3>2. met' = [q \in Runs |-> IF q = r THEN Alive
                                ELSE IF q \in Alive THEN met[q] \cup {r} ELSE met[q]]
      BY <1>1 DEF Launch
    <3> HIDE DEF Alive
    <3> QED  BY <3>1, <3>2
  <2>2. prior' \in [Runs -> SUBSET Runs]
    BY <1>1 DEF Launch, TypeOK
  <2>3. /\ pc' \in [Runs -> {"off", "reset", "insert", "select", "work", "save", "end"}]
        /\ forced' \subseteq Runs
    BY <1>1 DEF Launch, TypeOK
  <2> QED  BY <1>1, <2>1, <2>2, <2>3 DEF Launch, TypeOK
<1>2. CASE ResetStatement(r)
  <2>1. CASE Leave(r)
    BY <1>2, <2>1, LeaveType DEF ResetStatement, TypeOK
  <2>2. CASE ~Leave(r)
    <3>1. step[r] \in 1 .. 6
      BY <1>2, <1>0, <1>00 DEF ResetStatement
    <3>2. /\ doomed' = [doomed EXCEPT ![r][ResetOrder[step[r]]] = table[ResetOrder[step[r]]]]
          /\ step' = [step EXCEPT ![r] = @ + 1]
          /\ UNCHANGED <<pc, todo, pass, forced, limited, table, ledger, read, cited, dropped,
                         met, prior, passes, broken, revoked>>
      BY <1>2, <2>2 DEF ResetStatement
    <3>3. ResetOrder[step[r]] \in Tables
      BY <3>1, <1>0
    <3>4. doomed' \in [Runs -> [Tables -> SUBSET (Links \cup Errors \cup Rows)]]
      BY <3>2, <3>3, <1>00
    <3>5. step' \in [Runs -> 1 .. Len(ResetOrder) + 1]
      BY <3>1, <3>2, <1>0 DEF TypeOK
    <3> QED  BY <3>2, <3>4, <3>5 DEF TypeOK
  <2> QED  BY <2>1, <2>2
<1>3. CASE ResetCommit(r)
  <2>1. /\ table' \in [Tables -> SUBSET (Links \cup Errors \cup Rows)]
        /\ \A k \in Tables : table'[k] \subseteq RowsOf(k)
    BY <1>3, <1>00 DEF ResetCommit
  <2>2. doomed' \in [Runs -> [Tables -> SUBSET (Links \cup Errors \cup Rows)]]
    BY <1>3, <1>00, EmptyType DEF ResetCommit
  <2>3. step' \in [Runs -> 1 .. Len(ResetOrder) + 1]
    BY <1>3, <1>0 DEF ResetCommit, TypeOK
  <2>4. pc' \in [Runs -> {"off", "reset", "insert", "select", "work", "save", "end"}]
    BY <1>3 DEF ResetCommit, TypeOK
  <2> QED  BY <1>3, <2>1, <2>2, <2>3, <2>4 DEF ResetCommit, TypeOK
<1>4. CASE InsertRun(r)
  BY <1>4 DEF InsertRun, TypeOK
<1>5. CASE Select(r)
  <2>1. todo' \in [Runs -> SUBSET Papers] /\ limited' \subseteq Runs
    BY <1>5 DEF Select, TypeOK
  <2> QED  BY <1>5, <2>1 DEF Select, TypeOK
<1>6. CASE Process(r)
  BY <1>6, ProcessType DEF Process, TypeOK
<1>7. CASE CommitPaper(r)
  <2>1. pc[r] = "save" /\ pass[r].paper \in Papers
    BY <1>7 DEF CommitPaper, RunsKeepStep
  <2>2. /\ table' \in [Tables -> SUBSET (Links \cup Errors \cup Rows)]
        /\ \A k \in Tables : table'[k] \subseteq RowsOf(k)
    BY <1>7, <2>1, SavedType DEF CommitPaper
  <2>3. [run |-> r, paper |-> pass[r].paper, accepted |-> pass[r].accepted]
          \in [run: Runs, paper: Papers, accepted: SUBSET Positions]
    BY <2>1 DEF TypeOK
  <2>4. pass' \in [Runs -> [paper: Papers \cup {None}, accepted: SUBSET Positions,
                            noted: SUBSET (Positions \cup {0})]]
    BY <1>7, NoPassType DEF CommitPaper, TypeOK
  <2> QED  BY <1>7, <2>2, <2>3, <2>4 DEF CommitPaper, TypeOK
<1>8. CASE Complete(r)
  <2>1. ledger' \in [Runs -> {"none", "running", "completed", "failed"}]
    BY <1>8 DEF Complete, TypeOK
  <2>2. Leave(r) /\ UNCHANGED <<table, read, cited, dropped, met, prior, passes, broken, revoked>>
    BY <1>8 DEF Complete
  <2> QED  BY <2>1, <2>2, LeaveType DEF TypeOK
<1>9. CASE Fail(r)
  <2>1. ledger' \in [Runs -> {"none", "running", "completed", "failed"}]
    BY <1>9 DEF Fail, TypeOK
  <2>2. Leave(r) /\ UNCHANGED <<read, cited, dropped, met, prior, passes, revoked>>
    BY <1>9 DEF Fail
  <2>3. /\ table' \in [Tables -> SUBSET (Links \cup Errors \cup Rows)]
        /\ \A k \in Tables : table'[k] \subseteq RowsOf(k)
        /\ broken' \subseteq Runs \X Papers
    <3>1. CASE pc[r] = "save"
      <4>1. pass[r].paper \in Papers
        BY <3>1 DEF RunsKeepStep
      <4>2. PICK n \in Positions : table' = Saved(r, {i \in Positions : i < n})
        BY <1>9, <3>1 DEF Fail
      <4>3. broken' = broken \cup {<<r, pass[r].paper>>}
        BY <1>9, <3>1 DEF Fail
      <4> QED  BY <3>1, <4>1, <4>2, <4>3, SavedType DEF TypeOK
    <3>2. CASE pc[r] # "save"
      BY <1>9, <3>2 DEF Fail, TypeOK
    <3> QED  BY <3>1, <3>2
  <2> QED  BY <2>1, <2>2, <2>3, LeaveType DEF TypeOK
<1>10. CASE Kill(r)
  BY <1>10, LeaveType DEF Kill, TypeOK
<1> QED  BY <1>1, <1>2, <1>3, <1>4, <1>5, <1>6, <1>7, <1>8, <1>9, <1>10

\* The types after a review, which touches its own table only.
LEMMA ReviewType ==
    ASSUME TypeOK, ReviewEvidence
    PROVE  /\ table' \in [Tables -> SUBSET (Links \cup Errors \cup Rows)]
           /\ \A k \in Tables : table'[k] \subseteq RowsOf(k)
           /\ \A k \in Tables \ {"evidence_reviews"} : table'[k] = table[k]
<1>1. /\ table \in [Tables -> SUBSET (Links \cup Errors \cup Rows)]
      /\ \A k \in Tables : table[k] \subseteq RowsOf(k)
  BY DEF TypeOK
<1>2. PICK e \in table["evidence"] :
         table' = [table EXCEPT !["evidence_reviews"] = @ \cup {e}]
  BY DEF ReviewEvidence, Add
<1>3. e \in Rows
  BY <1>1, RowTypes, TableNames
<1>4. \A k \in Tables : table'[k] \subseteq RowsOf(k)
  BY <1>1, <1>2, <1>3, RowTypes, TableNames
<1> QED  BY <1>1, <1>2, <1>3, <1>4, TableNames

\* What a synthesis does to the table of assessment links: those of the role
\* "built" stay, and so does every row that a reset is deleting.
LEMMA SynthesizeFacts ==
    ASSUME TypeOK, NEW w \in Writers, Synthesize(w)
    PROVE  /\ \A k \in Tables \ {"research_assessment_evidence"} : table'[k] = table[k]
           /\ table'["research_assessment_evidence"] \subseteq Links
           /\ \A l \in table["research_assessment_evidence"] :
                l \notin table'["research_assessment_evidence"] =>
                  l.role = "opportunity" /\ \A r \in Runs : l \notin doomed[r]["research_assessment_evidence"]
           /\ \A l \in table'["research_assessment_evidence"] :
                l \in table["research_assessment_evidence"] \/ l.role = "opportunity"
           /\ table' \in [Tables -> SUBSET (Links \cup Errors \cup Rows)]
<1> DEFINE k == "research_assessment_evidence"
           old == {l \in LinksOf(w, k) : l.role = "opportunity"}
<1>1. k \in Tables /\ k \in LinkTables
  BY DEF Tables, LinkTables
<1>2. PICK found \in SUBSET cited[w][k] :
         /\ ~Contested(k, old)
         /\ table' = [table EXCEPT ![k] = (@ \ old) \cup [by: {w}, of: found, role: {"opportunity"}]]
  BY DEF Synthesize
<1> DEFINE new == [by: {w}, of: found, role: {"opportunity"}]
<1>3. new \subseteq Links /\ \A l \in new : l.role = "opportunity"
  <2>1. found \subseteq Rows
    BY <1>1 DEF TypeOK
  <2> QED  BY <2>1 DEF Links, Roles
<1>4. /\ table \in [Tables -> SUBSET (Links \cup Errors \cup Rows)]
      /\ table[k] \subseteq Links
  BY <1>1, RowTypes DEF TypeOK
<1>5. \A l \in old : l.role = "opportunity" /\ \A r \in Runs : l \notin doomed[r][k]
  BY <1>2 DEF Contested
<1> HIDE DEF old, new
<1>6. /\ table'[k] = (table[k] \ old) \cup new
      /\ \A x \in Tables \ {k} : table'[x] = table[x]
      /\ table' \in [Tables -> SUBSET (Links \cup Errors \cup Rows)]
  BY <1>1, <1>2, <1>3, <1>4 DEF new
<1> HIDE DEF k
<1>7. /\ table'[k] \subseteq Links
      /\ \A l \in table[k] : l \notin table'[k] =>
           l.role = "opportunity" /\ \A r \in Runs : l \notin doomed[r][k]
      /\ \A l \in table'[k] : l \in table[k] \/ l.role = "opportunity"
  BY <1>3, <1>4, <1>5, <1>6
<1> QED  BY <1>6, <1>7 DEF k

\* What the deletion of an assessment does to the tables.
LEMMA DeleteFacts ==
    ASSUME TypeOK, NEW w \in Writers, DeleteAssessment(w)
    PROVE  /\ \A k \in Tables \ {"research_assessment_evidence"} : table'[k] = table[k]
           /\ table'["research_assessment_evidence"] =
                table["research_assessment_evidence"] \ LinksOf(w, "research_assessment_evidence")
           /\ \A r \in Runs : doomed[r]["research_assessment_evidence"]
                                \cap LinksOf(w, "research_assessment_evidence") = {}
           /\ table' \in [Tables -> SUBSET (Links \cup Errors \cup Rows)]
           /\ w \in Assessments /\ dropped' = dropped \cup {w} /\ UNCHANGED <<read, cited>>
<1> DEFINE k == "research_assessment_evidence"
<1>1. k \in Tables
  BY DEF Tables, LinkTables
<1>2. table \in [Tables -> SUBSET (Links \cup Errors \cup Rows)]
  BY DEF TypeOK
<1>3. /\ ~Contested(k, LinksOf(w, k))
      /\ table' = [table EXCEPT ![k] = @ \ LinksOf(w, k)]
      /\ w \in Assessments /\ dropped' = dropped \cup {w} /\ UNCHANGED <<read, cited>>
  BY DEF DeleteAssessment
<1> QED  BY <1>1, <1>2, <1>3 DEF Contested

\* What a revalidation does to the tables.
LEMMA RevalidateFacts ==
    ASSUME TypeOK, Revalidate
    PROVE  /\ \A k \in Tables \ {"extracted_claims"} : table'[k] = table[k]
           /\ table'["extracted_claims"] \subseteq table["extracted_claims"]
           /\ table["extracted_claims"] \ table'["extracted_claims"] \subseteq revoked'
           /\ \A r \in Runs : doomed[r]["extracted_claims"]
                                \cap (table["extracted_claims"] \ table'["extracted_claims"]) = {}
           /\ table' \in [Tables -> SUBSET (Links \cup Errors \cup Rows)]
           /\ revoked \subseteq revoked' /\ revoked' \subseteq Rows
           /\ UNCHANGED <<read, cited, dropped>>
<1> DEFINE k == "extracted_claims"
<1>1. k \in Tables /\ table[k] \subseteq Rows
  BY RowTypes, TableNames DEF TypeOK
<1>2. table \in [Tables -> SUBSET (Links \cup Errors \cup Rows)] /\ revoked \subseteq Rows
  BY DEF TypeOK
<1>3. PICK failing \in SUBSET table[k] :
         /\ ~Contested(k, failing)
         /\ table' = [table EXCEPT ![k] = @ \ failing]
         /\ revoked' = revoked \cup failing
  BY DEF Revalidate
<1>4. UNCHANGED <<read, cited, dropped>>
  BY DEF Revalidate, writing
<1>5. \A r \in Runs : doomed[r][k] \cap failing = {}
  BY <1>3 DEF Contested
<1>6. /\ \A x \in Tables \ {k} : table'[x] = table[x]
      /\ table'[k] = table[k] \ failing
      /\ table' \in [Tables -> SUBSET (Links \cup Errors \cup Rows)]
  BY <1>1, <1>2, <1>3
<1> QED  BY <1>1, <1>2, <1>3, <1>4, <1>5, <1>6

\* Every step keeps the types.
LEMMA TypeStep == TypeOK /\ RunsKeepStep /\ [Next]_vars => TypeOK'
<1> SUFFICES ASSUME TypeOK, RunsKeepStep, [Next]_vars PROVE TypeOK'
  OBVIOUS
<1> USE DEF processes, writing, history
<1>1. ASSUME NEW w \in Writers, ReadEvidence(w) PROVE TypeOK'
  <2>1. table["evidence"] \subseteq Rows
    BY RowTypes, TableNames DEF TypeOK
  <2>2. read' \in [Writers -> SUBSET Rows]
    BY <1>1, <2>1 DEF ReadEvidence, TypeOK
  <2> QED  BY <1>1, <2>2 DEF ReadEvidence, TypeOK
<1>2. ASSUME NEW w \in Writers, Cite(w) PROVE TypeOK'
  BY <1>2, CiteType DEF Cite, TypeOK
<1>3. CASE ReviewEvidence
  BY <1>3, ReviewType DEF ReviewEvidence, TypeOK
<1>4. CASE UNCHANGED vars
  BY <1>4 DEF vars, TypeOK
<1>5. ASSUME NEW w \in Writers, Synthesize(w) PROVE TypeOK'
  <2>1. \A k \in Tables : table'[k] \subseteq RowsOf(k)
    BY <1>5, SynthesizeFacts, RowTypes DEF TypeOK, LinkTables
  <2>2. table' \in [Tables -> SUBSET (Links \cup Errors \cup Rows)]
    BY <1>5, SynthesizeFacts
  <2> QED  BY <1>5, <2>1, <2>2 DEF Synthesize, TypeOK
<1>6. ASSUME NEW w \in Writers, DeleteAssessment(w) PROVE TypeOK'
  <2>1. \A k \in Tables : table'[k] \subseteq RowsOf(k)
    BY <1>6, DeleteFacts DEF TypeOK
  <2>2. table' \in [Tables -> SUBSET (Links \cup Errors \cup Rows)] /\ dropped' \subseteq Assessments
    BY <1>6, DeleteFacts DEF TypeOK
  <2> QED  BY <1>6, <2>1, <2>2 DEF DeleteAssessment, TypeOK
<1>7. CASE Revalidate
  <2>1. \A k \in Tables : table'[k] \subseteq RowsOf(k)
    BY <1>7, RevalidateFacts DEF TypeOK
  <2>2. table' \in [Tables -> SUBSET (Links \cup Errors \cup Rows)] /\ revoked' \subseteq Rows
    BY <1>7, RevalidateFacts
  <2> QED  BY <1>7, <2>1, <2>2 DEF Revalidate, TypeOK
<1> QED  BY <1>1, <1>2, <1>3, <1>4, <1>5, <1>6, <1>7, RunTypeStep DEF Next

\* What an action of one run does not touch of the others.
LEMMA OthersGoOn ==
    ASSUME TypeOK, RunsKeepStep, NEW r \in Runs,
           \/ Launch(r) \/ ResetStatement(r) \/ ResetCommit(r) \/ InsertRun(r) \/ Select(r)
           \/ Process(r) \/ CommitPaper(r) \/ Complete(r) \/ Fail(r) \/ Kill(r),
           NEW q \in Runs \ {r}
    PROVE  /\ pc'[q] = pc[q] /\ step'[q] = step[q] /\ doomed'[q] = doomed[q]
           /\ todo'[q] = todo[q] /\ pass'[q] = pass[q] /\ ledger'[q] = ledger[q]
           /\ q \in forced' <=> q \in forced
           /\ q \in limited' <=> q \in limited
           /\ prior'[q] = prior[q]
<1> USE DEF writing, history
<1>1. CASE Launch(r)
  BY <1>1 DEF Launch, TypeOK
<1>2. CASE ResetStatement(r)
  BY <1>2, LeaveFacts DEF ResetStatement, TypeOK
<1>3. CASE ResetCommit(r)
  BY <1>3 DEF ResetCommit, TypeOK
<1>4. CASE InsertRun(r) \/ Select(r)
  BY <1>4 DEF InsertRun, Select, TypeOK
<1>6. CASE Process(r)
  <2>1. pass'[q] = pass[q]
    BY <1>6, ProcessType
  <2>2. todo'[q] = todo[q]
    BY <1>6, ProcessType DEF TypeOK
  <2> QED  BY <1>6, <2>1, <2>2 DEF Process, TypeOK
<1>7. CASE CommitPaper(r)
  BY <1>7 DEF CommitPaper, TypeOK
<1>8. CASE Complete(r)
  BY <1>8, LeaveFacts DEF Complete, TypeOK
<1>9. CASE Fail(r)
  BY <1>9, LeaveFacts DEF Fail, TypeOK
<1>10. CASE Kill(r)
  BY <1>10, LeaveFacts DEF Kill, TypeOK
<1> QED  BY <1>1, <1>2, <1>3, <1>4, <1>6, <1>7, <1>8, <1>9, <1>10

\* What a run can do next, as far as its own entries go.
LEMMA OwnStep ==
    ASSUME TypeOK, RunsKeepStep, NEW r \in Runs,
           \/ Launch(r) \/ ResetStatement(r) \/ ResetCommit(r) \/ InsertRun(r) \/ Select(r)
           \/ Process(r) \/ CommitPaper(r) \/ Complete(r) \/ Fail(r) \/ Kill(r)
    PROVE  /\ pc'[r] = "reset" => r \in forced'
           /\ pc'[r] = "off" => r \notin forced'
           /\ pc'[r] \in {"off", "reset", "insert"} => ledger'[r] = "none"
           /\ pc'[r] \in {"select", "work", "save"} => ledger'[r] = "running"
           /\ pc'[r] \notin {"work", "save"} => todo'[r] = {}
           /\ IF pc'[r] = "save" THEN pass'[r].paper \in Papers \ todo'[r] ELSE pass'[r] = NoPass
<1> USE DEF writing, history
<1>1. CASE Launch(r)
  BY <1>1 DEF Launch, TypeOK, RunsKeepStep
<1>2. CASE ResetStatement(r)
  BY <1>2, LeaveFacts DEF ResetStatement, TypeOK, RunsKeepStep
<1>3. CASE ResetCommit(r)
  BY <1>3 DEF ResetCommit, TypeOK, RunsKeepStep
<1>4. CASE InsertRun(r)
  BY <1>4 DEF InsertRun, TypeOK, RunsKeepStep
<1>5. CASE Select(r)
  BY <1>5 DEF Select, TypeOK, RunsKeepStep
<1>6. CASE Process(r)
  <2>1. PICK p \in todo[r] : pass'[r].paper = p /\ todo' = [todo EXCEPT ![r] = @ \ {p}]
    BY <1>6, ProcessType
  <2>2. p \in Papers /\ todo'[r] = todo[r] \ {p}
    BY <2>1 DEF TypeOK
  <2>3. pc'[r] = "save" /\ pc[r] = "work" /\ UNCHANGED <<ledger, forced>>
    BY <1>6 DEF Process, TypeOK
  <2> QED  BY <2>1, <2>2, <2>3 DEF RunsKeepStep
<1>7. CASE CommitPaper(r)
  BY <1>7 DEF CommitPaper, TypeOK, RunsKeepStep
<1>8. CASE Complete(r)
  BY <1>8, LeaveFacts DEF Complete, TypeOK, RunsKeepStep
<1>9. CASE Fail(r)
  BY <1>9, LeaveFacts DEF Fail, TypeOK, RunsKeepStep
<1>10. CASE Kill(r)
  BY <1>10, LeaveFacts DEF Kill, TypeOK, RunsKeepStep
<1> QED  BY <1>1, <1>2, <1>3, <1>4, <1>5, <1>6, <1>7, <1>8, <1>9, <1>10

\* Every step keeps the course of the runs.
LEMMA CourseStep == TypeOK /\ RunsKeepStep /\ [Next]_vars => RunsKeepStep'
<1> SUFFICES ASSUME TypeOK, RunsKeepStep, [Next]_vars PROVE RunsKeepStep'
  OBVIOUS
<1>1. ASSUME NEW r \in Runs,
             \/ Launch(r) \/ ResetStatement(r) \/ ResetCommit(r) \/ InsertRun(r) \/ Select(r)
             \/ Process(r) \/ CommitPaper(r) \/ Complete(r) \/ Fail(r) \/ Kill(r)
      PROVE  RunsKeepStep'
  BY <1>1, OwnStep, OthersGoOn DEF RunsKeepStep
<1>2. ASSUME Aside
      PROVE  RunsKeepStep'
  <2>1. UNCHANGED <<pc, ledger, forced, todo, pass>>
    BY <1>2, AsideFacts
  <2> QED  BY <2>1 DEF RunsKeepStep
<1> QED  BY <1>1, <1>2 DEF Next, Aside

-----------------------------------------------------------------------------
(* Resets.                                                                 *)

\* What a statement of the reset does: the process ends, or a table is swept.
LEMMA StatementFacts ==
    ASSUME TypeOK, ResetsStayApart, NEW r \in Runs, ResetStatement(r)
    PROVE  /\ UNCHANGED <<table, ledger, read, cited, dropped, met, prior, passes, broken, revoked>>
           /\ pc[r] = "reset" /\ step[r] \in 1 .. 6
           /\ \/ Leave(r)
              \/ /\ UNCHANGED <<pc, todo, pass, forced, limited>>
                 /\ step' = [step EXCEPT ![r] = @ + 1]
                 /\ ResetOrder[step[r]] \in Tables
                 /\ doomed'[r][ResetOrder[step[r]]] = table[ResetOrder[step[r]]]
                 /\ \A k \in Tables \ {ResetOrder[step[r]]} : doomed'[r][k] = doomed[r][k]
                 /\ \A q \in Runs \ {r} : /\ doomed'[q] = doomed[q]
                                          /\ doomed[q][ResetOrder[step[r]]] = {}
                 /\ step[r] = 5 => Held(r) = {}
<1>1. Len(ResetOrder) = 6 /\ \A i \in 1 .. 6 : ResetOrder[i] \in Tables
  BY ResetPlaces
<1>2. step[r] \in 1 .. 6 /\ pc[r] = "reset"
  BY <1>1 DEF ResetStatement, TypeOK
<1>3. ResetOrder[step[r]] \in Tables
  BY <1>1, <1>2
<1>4. UNCHANGED <<table, ledger, read, cited, dropped, met, prior, passes, broken, revoked>>
  BY DEF ResetStatement, writing, history
<1>5. ASSUME ~Leave(r)
      PROVE  /\ UNCHANGED <<pc, todo, pass, forced, limited>>
             /\ step' = [step EXCEPT ![r] = @ + 1]
             /\ doomed' = [doomed EXCEPT ![r][ResetOrder[step[r]]] = table[ResetOrder[step[r]]]]
             /\ \A q \in Runs \ {r} :
                  doomed[q][ResetOrder[step[r]]] \cap table[ResetOrder[step[r]]] = {}
             /\ ResetOrder[step[r]] = "evidence" => Held(r) = {}
  BY <1>5 DEF ResetStatement
<1>6. doomed \in [Runs -> [Tables -> SUBSET (Links \cup Errors \cup Rows)]]
  BY DEF TypeOK
<1>7. ASSUME ~Leave(r)
      PROVE  /\ doomed'[r][ResetOrder[step[r]]] = table[ResetOrder[step[r]]]
             /\ \A k \in Tables \ {ResetOrder[step[r]]} : doomed'[r][k] = doomed[r][k]
             /\ \A q \in Runs \ {r} : doomed'[q] = doomed[q]
  BY <1>3, <1>5, <1>6, <1>7
<1>8. \A q \in Runs, k \in Tables : doomed[q][k] \subseteq table[k]
  BY DEF ResetsStayApart
<1>9. ASSUME ~Leave(r), NEW q \in Runs \ {r} PROVE doomed[q][ResetOrder[step[r]]] = {}
  <2>1. doomed[q][ResetOrder[step[r]]] \subseteq table[ResetOrder[step[r]]]
    BY <1>3, <1>8
  <2> QED  BY <1>5, <1>9, <2>1
<1>10. step[r] = 5 => ResetOrder[step[r]] = "evidence"
  BY ResetPlaces
<1> QED  BY <1>2, <1>3, <1>4, <1>5, <1>7, <1>9, <1>10

\* What a reset is deleting nobody else takes away.
LEMMA DoomedStay ==
    ASSUME TypeOK, RunsKeepStep, ResetsStayApart, [Next]_vars, \A r \in Runs : ~ResetCommit(r),
           NEW k \in Tables, NEW q \in Runs
    PROVE  doomed[q][k] \subseteq table'[k]
<1>0. doomed[q][k] \subseteq table[k]
  BY DEF ResetsStayApart
<1>1. ASSUME NEW r \in Runs,
             \/ Launch(r) \/ ResetStatement(r) \/ InsertRun(r) \/ Select(r)
             \/ Process(r) \/ Complete(r) \/ Kill(r)
      PROVE  table[k] \subseteq table'[k]
  BY <1>1 DEF Launch, ResetStatement, InsertRun, Select, Process, Complete, Kill
<1>2. ASSUME NEW r \in Runs, NEW S, pc[r] = "save", table' = Saved(r, S)
      PROVE  table[k] \subseteq table'[k]
  <2>1. table \in [Tables -> SUBSET (Links \cup Errors \cup Rows)]
    BY DEF TypeOK
  <2> QED  BY <1>2, <2>1 DEF Saved
<1>3. ASSUME NEW r \in Runs, CommitPaper(r) \/ Fail(r)
      PROVE  table[k] \subseteq table'[k]
  BY <1>2, <1>3 DEF CommitPaper, Fail
<1>4. ASSUME NEW w \in Writers, ReadEvidence(w) \/ Cite(w)
      PROVE  table[k] \subseteq table'[k]
  <2>1. table \in [Tables -> SUBSET (Links \cup Errors \cup Rows)]
    BY DEF TypeOK
  <2> QED  BY <1>4, <2>1 DEF ReadEvidence, Cite
<1>5. CASE ReviewEvidence
  <2>1. table \in [Tables -> SUBSET (Links \cup Errors \cup Rows)]
    BY DEF TypeOK
  <2> QED  BY <1>0, <1>5, <2>1 DEF ReviewEvidence, Add
<1>6. CASE UNCHANGED vars
  BY <1>0, <1>6 DEF vars
<1>7. ASSUME NEW w \in Writers, Synthesize(w) PROVE doomed[q][k] \subseteq table'[k]
  <2>1. CASE k = "research_assessment_evidence"
    BY <1>0, <1>7, <2>1, SynthesizeFacts
  <2>2. CASE k # "research_assessment_evidence"
    BY <1>0, <1>7, <2>2, SynthesizeFacts
  <2> QED  BY <2>1, <2>2
<1>8. ASSUME NEW w \in Writers, DeleteAssessment(w) PROVE doomed[q][k] \subseteq table'[k]
  <2>1. CASE k = "research_assessment_evidence"
    BY <1>0, <1>8, <2>1, DeleteFacts
  <2>2. CASE k # "research_assessment_evidence"
    BY <1>0, <1>8, <2>2, DeleteFacts
  <2> QED  BY <2>1, <2>2
<1>9. CASE Revalidate
  <2>1. CASE k = "extracted_claims"
    BY <1>0, <1>9, <2>1, RevalidateFacts
  <2>2. CASE k # "extracted_claims"
    BY <1>0, <1>9, <2>2, RevalidateFacts
  <2> QED  BY <2>1, <2>2
<1> QED  BY <1>0, <1>1, <1>3, <1>4, <1>5, <1>6, <1>7, <1>8, <1>9 DEF Next

\* Every step but those of a reset leaves what is doomed as it is, except that
\* a process that ends forgets it.
LEMMA QuietForResets ==
    ASSUME TypeOK, RunsKeepStep, ResetsStayApart, [Next]_vars,
           \A r \in Runs : ~ResetStatement(r) /\ ~ResetCommit(r),
           NEW q \in Runs
    PROVE  /\ \/ doomed'[q] = doomed[q] /\ step'[q] = step[q]
              \/ doomed'[q] = Empty /\ step'[q] = 1 /\ pc'[q] = "end"
           /\ pc[q] \notin {"off", "reset"} => pc'[q] # "reset"
           /\ (pc'[q] = "reset" /\ pc[q] # "reset") => pc[q] = "off"
<1> USE DEF writing, history
<1>1. ASSUME NEW r \in Runs, Launch(r) \/ InsertRun(r) \/ Select(r) \/ Process(r) \/ CommitPaper(r)
      PROVE  /\ UNCHANGED <<doomed, step>>
             /\ pc[q] \notin {"off", "reset"} => pc'[q] # "reset"
             /\ (pc'[q] = "reset" /\ pc[q] # "reset") => pc[q] = "off"
  BY <1>1 DEF Launch, InsertRun, Select, Process, CommitPaper, TypeOK
<1>2. ASSUME NEW r \in Runs, Complete(r) \/ Fail(r) \/ Kill(r)
      PROVE  \/ doomed'[q] = doomed[q] /\ step'[q] = step[q] /\ pc'[q] = pc[q]
             \/ doomed'[q] = Empty /\ step'[q] = 1 /\ pc'[q] = "end"
  <2>1. Leave(r)
    BY <1>2 DEF Complete, Fail, Kill
  <2> QED  BY <2>1, LeaveFacts
<1>3. ASSUME Aside
      PROVE  UNCHANGED <<doomed, step, pc>>
  BY <1>3, AsideFacts
<1> QED  BY <1>1, <1>2, <1>3 DEF Next, Aside

\* What the commit of a reset does.
LEMMA CommitResetFacts ==
    ASSUME TypeOK, NEW r \in Runs, ResetCommit(r)
    PROVE  /\ pc[r] = "reset" /\ step[r] > 6
           /\ pc'[r] = "insert" /\ step'[r] = 1 /\ doomed'[r] = Empty
           /\ \A q \in Runs \ {r} :
                pc'[q] = pc[q] /\ step'[q] = step[q] /\ doomed'[q] = doomed[q]
           /\ \A k \in Tables : table'[k] = table[k] \ doomed[r][k]
           /\ UNCHANGED <<todo, pass, ledger, forced, limited, read, cited, dropped, met, prior, passes,
                        broken, revoked>>
BY ResetPlaces DEF ResetCommit, TypeOK, writing, history

\* Every step keeps resets apart.
LEMMA ApartStep ==
    TypeOK /\ RunsKeepStep /\ ResetsStayApart /\ [Next]_vars => ResetsStayApart'
<1> SUFFICES ASSUME TypeOK, RunsKeepStep, ResetsStayApart, [Next]_vars PROVE ResetsStayApart'
  OBVIOUS
<1>e. \A k \in Tables : Empty[k] = {}
  BY DEF Empty
<1>1. ASSUME NEW r \in Runs, ResetStatement(r) PROVE ResetsStayApart'
  <2>1. CASE Leave(r)
    BY <1>1, <1>e, <2>1, StatementFacts, LeaveFacts DEF ResetsStayApart
  <2>2. CASE ~Leave(r)
    <3> DEFINE s == ResetOrder[step[r]]
    <3>1. /\ UNCHANGED <<table, pc>>
          /\ pc[r] = "reset" /\ s \in Tables
          /\ doomed'[r][s] = table[s]
          /\ \A k \in Tables \ {s} : doomed'[r][k] = doomed[r][k]
          /\ \A q \in Runs \ {r} : doomed'[q] = doomed[q] /\ doomed[q][s] = {}
          /\ step' = [step EXCEPT ![r] = @ + 1]
      BY <1>1, <2>2, StatementFacts
    <3> HIDE DEF s
    <3>2. \A q \in Runs, k \in Tables : doomed'[q][k] \subseteq table'[k]
      BY <3>1 DEF ResetsStayApart
    <3>3. \A p, q \in Runs, k \in Tables : p # q => doomed'[p][k] \cap doomed'[q][k] = {}
      BY <3>1 DEF ResetsStayApart
    <3>4. \A q \in Runs : pc'[q] # "reset" => step'[q] = 1 /\ doomed'[q] = Empty
      BY <3>1 DEF ResetsStayApart, TypeOK
    <3> QED  BY <3>2, <3>3, <3>4 DEF ResetsStayApart
  <2> QED  BY <2>1, <2>2
<1>2. ASSUME NEW r \in Runs, ResetCommit(r) PROVE ResetsStayApart'
  BY <1>2, <1>e, CommitResetFacts DEF ResetsStayApart
<1>3. ASSUME \A r \in Runs : ~ResetStatement(r) /\ ~ResetCommit(r) PROVE ResetsStayApart'
  <2>1. \A q \in Runs, k \in Tables : doomed'[q][k] \subseteq doomed[q][k]
    BY <1>3, <1>e, QuietForResets
  <2>2. \A q \in Runs, k \in Tables : doomed[q][k] \subseteq table'[k]
    BY <1>3, DoomedStay
  <2>3. \A q \in Runs : pc'[q] # "reset" => step'[q] = 1 /\ doomed'[q] = Empty
    <3> TAKE q \in Runs
    <3>1. CASE pc[q] = "reset"
      <4>1. ASSUME NEW r \in Runs,
                   Launch(r) \/ InsertRun(r) \/ Select(r) \/ Process(r) \/ CommitPaper(r)
            PROVE  pc'[q] = "reset"
        BY <3>1, <4>1 DEF Launch, InsertRun, Select, Process, CommitPaper, TypeOK
      <4>2. ASSUME NEW r \in Runs, Complete(r) \/ Fail(r) \/ Kill(r)
            PROVE  pc'[q] = "reset" \/ (step'[q] = 1 /\ doomed'[q] = Empty)
        <5>1. Leave(r)
          BY <4>2 DEF Complete, Fail, Kill
        <5> QED  BY <3>1, <5>1, LeaveFacts
      <4>3. ASSUME Aside
            PROVE  pc'[q] = "reset"
        BY <3>1, <4>3, AsideFacts
      <4> QED  BY <1>3, <4>1, <4>2, <4>3 DEF Next, Aside
    <3>2. CASE pc[q] # "reset"
      BY <1>3, <3>2, QuietForResets DEF ResetsStayApart
    <3> QED  BY <3>1, <3>2
  <2>4. \A q \in Runs, k \in Tables : doomed'[q][k] \subseteq table'[k]
    BY <2>1, <2>2 DEF ResetsStayApart
  <2>5. \A p, q \in Runs, k \in Tables : p # q => doomed'[p][k] \cap doomed'[q][k] = {}
    BY <2>1 DEF ResetsStayApart
  <2> QED  BY <2>3, <2>4, <2>5 DEF ResetsStayApart
<1> QED  BY <1>1, <1>2, <1>3

-----------------------------------------------------------------------------
(* What becomes of claims, evidence and links.                             *)

New(r, S) == [run: {r}, paper: {pass[r].paper}, at: S]

\* Outside the commit of a reset claims appear when a paper is saved, whole or
\* as far as the failing run got, and evidence with them; and claims go when a
\* revalidation takes them.
LEMMA ClaimsStep ==
    ASSUME TypeOK, RunsKeepStep, [Next]_vars, \A r \in Runs : ~ResetCommit(r)
    PROVE  \/ /\ UNCHANGED <<table["evidence"], passes, broken>>
              /\ Claims' \subseteq Claims /\ Claims \ Claims' \subseteq revoked'
              /\ revoked \subseteq revoked'
           \/ \E r \in Runs : \E S \in SUBSET pass[r].accepted :
                /\ pc[r] = "save" /\ pass[r].paper \in Papers \ todo[r]
                /\ table'["evidence"] = table["evidence"] \cup New(r, S)
                /\ Claims' = Claims \cup New(r, S) /\ UNCHANGED revoked
                /\ \/ /\ S = pass[r].accepted
                      /\ passes' = passes \cup {[run |-> r, paper |-> pass[r].paper, accepted |-> S]}
                      /\ UNCHANGED broken /\ pc'[r] = "work"
                      /\ pass'[r] = NoPass /\ todo'[r] = todo[r]
                   \/ /\ broken' = broken \cup {<<r, pass[r].paper>>}
                      /\ UNCHANGED passes /\ pc'[r] = "end"
                      /\ pass'[r] = NoPass /\ todo'[r] = {}
<1> USE DEF writing, history
<1>1. ASSUME NEW r \in Runs,
             \/ Launch(r) \/ ResetStatement(r) \/ InsertRun(r) \/ Select(r)
             \/ Process(r) \/ Complete(r) \/ Kill(r)
      PROVE  UNCHANGED <<table["evidence"], Claims, passes, broken, revoked>>
  BY <1>1 DEF Launch, ResetStatement, InsertRun, Select, Process, Complete, Kill, Claims
<1>2. ASSUME NEW r \in Runs, CommitPaper(r)
      PROVE  /\ pc[r] = "save" /\ pass[r].paper \in Papers \ todo[r]
             /\ table'["evidence"] = table["evidence"] \cup New(r, pass[r].accepted)
             /\ Claims' = Claims \cup New(r, pass[r].accepted) /\ UNCHANGED revoked
             /\ passes' = passes \cup {[run |-> r, paper |-> pass[r].paper,
                                        accepted |-> pass[r].accepted]}
             /\ UNCHANGED broken /\ pc'[r] = "work"
             /\ pass'[r] = NoPass /\ todo'[r] = todo[r]
  <2>1. /\ pc[r] = "save" /\ pass[r].paper \in Papers \ todo[r]
        /\ pass[r].accepted \subseteq Positions
    BY <1>2 DEF CommitPaper, RunsKeepStep, TypeOK
  <2>2. pass[r].accepted \cap (Positions \cup {0}) = pass[r].accepted
    BY <2>1
  <2>3. table' = Saved(r, Positions \cup {0})
    BY <1>2 DEF CommitPaper
  <2>4. /\ table'["evidence"] = table["evidence"] \cup New(r, pass[r].accepted)
        /\ table'["extracted_claims"] = table["extracted_claims"] \cup New(r, pass[r].accepted)
    BY <2>1, <2>2, <2>3, SavedType DEF New
  <2> QED  BY <1>2, <2>1, <2>4 DEF CommitPaper, Claims, TypeOK
<1>3. ASSUME NEW r \in Runs, Fail(r), pc[r] = "save"
      PROVE  \E S \in SUBSET pass[r].accepted :
             /\ pc[r] = "save" /\ pass[r].paper \in Papers \ todo[r]
             /\ table'["evidence"] = table["evidence"] \cup New(r, S)
             /\ Claims' = Claims \cup New(r, S) /\ UNCHANGED revoked
             /\ broken' = broken \cup {<<r, pass[r].paper>>}
             /\ UNCHANGED passes /\ pc'[r] = "end"
             /\ pass'[r] = NoPass /\ todo'[r] = {}
  <2>1. pass[r].paper \in Papers \ todo[r]
    BY <1>3 DEF RunsKeepStep
  <2>2. PICK n \in Positions : table' = Saved(r, {i \in Positions : i < n})
    BY <1>3 DEF Fail
  <2> DEFINE S == pass[r].accepted \cap {i \in Positions : i < n}
  <2>3. /\ table'["evidence"] = table["evidence"] \cup New(r, S)
        /\ table'["extracted_claims"] = table["extracted_claims"] \cup New(r, S)
    BY <1>3, <2>1, <2>2, SavedType DEF New
  <2>4. Leave(r) /\ UNCHANGED <<passes, revoked>> /\ broken' = broken \cup {<<r, pass[r].paper>>}
    BY <1>3 DEF Fail
  <2>5. S \in SUBSET pass[r].accepted
    OBVIOUS
  <2> HIDE DEF S
  <2> QED  BY <1>3, <2>1, <2>3, <2>4, <2>5, LeaveFacts DEF Claims
<1>4. ASSUME NEW r \in Runs, Fail(r), pc[r] # "save"
      PROVE  UNCHANGED <<table["evidence"], Claims, passes, broken, revoked>>
  BY <1>4 DEF Fail, Claims
<1>5. ASSUME NEW w \in Writers, ReadEvidence(w)
      PROVE  UNCHANGED <<table["evidence"], Claims, passes, broken, revoked>>
  BY <1>5 DEF ReadEvidence, Claims
<1>6. ASSUME NEW w \in Writers, Cite(w)
      PROVE  UNCHANGED <<table["evidence"], Claims, passes, broken, revoked>>
  <2>1. table \in [Tables -> SUBSET (Links \cup Errors \cup Rows)]
    BY DEF TypeOK
  <2> DEFINE own == IF w \in Gaps THEN "candidate_gap_evidence" ELSE "research_assessment_evidence"
  <2>2. own # "evidence" /\ own # "extracted_claims"
    OBVIOUS
  <2>3. PICK claimed \in SUBSET read[w] :
           \/ table' = [table EXCEPT ![own] = @ \cup Built(w, read[w]),
                                     !["claim_evidence"] = @ \cup Built(w, claimed)]
           \/ UNCHANGED table
    BY <1>6 DEF Cite
  <2>4. UNCHANGED <<passes, broken, revoked>>
    BY <1>6 DEF Cite
  <2> HIDE DEF own
  <2>5. CASE UNCHANGED table
    BY <2>4, <2>5 DEF Claims
  <2>6. CASE table' = [table EXCEPT ![own] = @ \cup Built(w, read[w]),
                                   !["claim_evidence"] = @ \cup Built(w, claimed)]
    <3>1. \A k \in Tables : (k # own /\ k # "claim_evidence") => table'[k] = table[k]
      BY <2>1, <2>6
    <3>2. table'["evidence"] = table["evidence"]
      BY <2>2, <3>1, TableNames
    <3>3. table'["extracted_claims"] = table["extracted_claims"]
      BY <2>2, <3>1, TableNames
    <3> QED  BY <2>4, <3>2, <3>3 DEF Claims
  <2> QED  BY <2>3, <2>5, <2>6
<1>7. CASE ReviewEvidence
  BY <1>7, ReviewType, TableNames DEF ReviewEvidence, Claims
<1>8. CASE UNCHANGED vars
  BY <1>8 DEF vars, Claims
<1>9. ASSUME NEW w \in Writers, Synthesize(w)
      PROVE  UNCHANGED <<table["evidence"], Claims, passes, broken, revoked>>
  BY <1>9, SynthesizeFacts, TableNames DEF Synthesize, Claims
<1>10. ASSUME NEW w \in Writers, DeleteAssessment(w)
       PROVE  UNCHANGED <<table["evidence"], Claims, passes, broken, revoked>>
  BY <1>10, DeleteFacts, TableNames DEF DeleteAssessment, Claims
<1>11. CASE Revalidate
  <2>1. UNCHANGED <<passes, broken>> /\ table'["evidence"] = table["evidence"]
    BY <1>11, RevalidateFacts, TableNames DEF Revalidate
  <2> QED  BY <1>11, <2>1, RevalidateFacts DEF Claims
<1> QED  BY <1>1, <1>2, <1>3, <1>4, <1>5, <1>6, <1>7, <1>8, <1>9, <1>10, <1>11 DEF Next

\* What the commit of a gap or of an assessment does to links.
LEMMA CiteFacts ==
    ASSUME TypeOK, WritersCiteOnce, NEW w \in Writers, Cite(w)
    PROVE  /\ \A v \in Writers \ {w} : cited'[v] = cited[v] /\ read'[v] = read[v]
           /\ read'[w] = {}
           /\ \A k \in LinkTables : cited[w][k] = {}
           /\ \/ UNCHANGED <<table, cited>>
              \/ \A k \in LinkTables : table'[k] = table[k] \cup Built(w, cited'[w][k])
<1> DEFINE own == IF w \in Gaps THEN "candidate_gap_evidence" ELSE "research_assessment_evidence"
<1>1. own \in LinkTables /\ "claim_evidence" \in LinkTables /\ own # "claim_evidence"
  BY DEF LinkTables
<1>2. \A k \in LinkTables : cited[w][k] = {}
  BY DEF Cite, WritersCiteOnce
<1>3. /\ table \in [Tables -> SUBSET (Links \cup Errors \cup Rows)]
      /\ cited \in [Writers -> [LinkTables -> SUBSET Rows]]
      /\ read \in [Writers -> SUBSET Rows]
  BY DEF TypeOK
<1>4. PICK claimed \in SUBSET read[w] :
         \/ /\ table' = [table EXCEPT ![own] = @ \cup Built(w, read[w]),
                                      !["claim_evidence"] = @ \cup Built(w, claimed)]
            /\ cited' = [cited EXCEPT ![w][own] = read[w], ![w]["claim_evidence"] = claimed]
         \/ UNCHANGED <<table, cited>>
  BY DEF Cite
<1>5. \A v \in Writers \ {w} : read'[v] = read[v]
  BY <1>3 DEF Cite
<1>6. read'[w] = {}
  BY <1>3 DEF Cite
<1> HIDE DEF own
<1>7. CASE UNCHANGED <<table, cited>>
  BY <1>2, <1>5, <1>6, <1>7
<1>8. CASE /\ table' = [table EXCEPT ![own] = @ \cup Built(w, read[w]),
                                      !["claim_evidence"] = @ \cup Built(w, claimed)]
           /\ cited' = [cited EXCEPT ![w][own] = read[w], ![w]["claim_evidence"] = claimed]
  <2>1. /\ cited'[w][own] = read[w] /\ cited'[w]["claim_evidence"] = claimed
        /\ \A k \in LinkTables \ {own, "claim_evidence"} : cited'[w][k] = {}
        /\ \A v \in Writers \ {w} : cited'[v] = cited[v]
    BY <1>1, <1>2, <1>3, <1>8
  <2>2. /\ table'[own] = table[own] \cup Built(w, read[w])
        /\ table'["claim_evidence"] = table["claim_evidence"] \cup Built(w, claimed)
        /\ \A k \in LinkTables \ {own, "claim_evidence"} : table'[k] = table[k]
    BY <1>1, <1>3, <1>8, TableNames
  <2>3. Built(w, {}) = {}
    BY BuiltFacts
  <2>4. \A k \in LinkTables : table'[k] = table[k] \cup Built(w, cited'[w][k])
    BY <2>1, <2>2, <2>3
  <2> QED  BY <1>2, <1>5, <1>6, <2>1, <2>4
<1> QED  BY <1>4, <1>7, <1>8

\* Built links change by a commit that cites, by the commit of a reset, and by
\* the deletion of an assessment only.
LEMMA LinksStep ==
    ASSUME TypeOK, RunsKeepStep, [Next]_vars,
           \A r \in Runs : ~ResetCommit(r), \A w \in Writers : ~Cite(w)
    PROVE  /\ UNCHANGED cited
           /\ \A w \in Writers : read'[w] # {} =>
                 \/ read[w] # {}
                 \/ \A k \in LinkTables : cited[w][k] = {}
           /\ \/ UNCHANGED dropped /\ \A w \in Writers, k \in LinkTables : Linked(w, k)' = Linked(w, k)
              \/ \E w \in Writers : DeleteAssessment(w)
<1> USE DEF writing, history
<1>1. ASSUME NEW r \in Runs,
             \/ Launch(r) \/ ResetStatement(r) \/ InsertRun(r) \/ Select(r)
             \/ Process(r) \/ Complete(r) \/ Kill(r)
      PROVE  UNCHANGED <<table, read, cited, dropped>>
  BY <1>1 DEF Launch, ResetStatement, InsertRun, Select, Process, Complete, Kill
<1>2. ASSUME NEW r \in Runs, CommitPaper(r) \/ Fail(r)
      PROVE  UNCHANGED <<read, cited, dropped>> /\ \A k \in LinkTables : table'[k] = table[k]
  <2>1. pc[r] = "save" => pass[r].paper \in Papers
    BY DEF RunsKeepStep
  <2>2. ASSUME NEW S, pc[r] = "save", table' = Saved(r, S)
        PROVE  \A k \in LinkTables : table'[k] = table[k]
    BY <2>1, <2>2, SavedType
  <2>3. UNCHANGED <<read, cited, dropped>>
    BY <1>2 DEF CommitPaper, Fail
  <2>4. \/ UNCHANGED table
        \/ pc[r] = "save" /\ table' = Saved(r, Positions \cup {0})
        \/ pc[r] = "save" /\ \E n \in Positions : table' = Saved(r, {i \in Positions : i < n})
    BY <1>2 DEF CommitPaper, Fail
  <2> QED  BY <2>2, <2>3, <2>4
<1>3. ASSUME NEW w \in Writers, ReadEvidence(w)
      PROVE  /\ UNCHANGED <<table, cited, dropped>>
             /\ \A v \in Writers : read'[v] # {} =>
                  read[v] # {} \/ \A k \in LinkTables : cited[v][k] = {}
  BY <1>3 DEF ReadEvidence, TypeOK
<1>4. ASSUME ReviewEvidence
      PROVE  UNCHANGED <<read, cited, dropped>> /\ \A k \in LinkTables : table'[k] = table[k]
  <2>1. \A k \in LinkTables : k \in Tables \ {"evidence_reviews"}
    BY TableNames
  <2> QED  BY <1>4, <2>1, ReviewType DEF ReviewEvidence
<1>5. ASSUME UNCHANGED vars PROVE UNCHANGED <<table, read, cited, dropped>>
  BY <1>5 DEF vars
<1>6. ASSUME Revalidate
      PROVE  UNCHANGED <<read, cited, dropped>> /\ \A k \in LinkTables : table'[k] = table[k]
  <2>1. \A k \in LinkTables : k \in Tables \ {"extracted_claims"}
    BY TableNames
  <2> QED  BY <1>6, <2>1, RevalidateFacts
<1>7. ASSUME NEW v \in Writers, Synthesize(v)
      PROVE  /\ UNCHANGED <<read, cited, dropped>>
             /\ \A w \in Writers, k \in LinkTables : Linked(w, k)' = Linked(w, k)
  <2>1. \A k \in LinkTables : k \in Tables
    BY TableNames
  <2>2. ASSUME NEW k \in LinkTables, NEW l, l.role = "built"
        PROVE  l \in table'[k] <=> l \in table[k]
    BY <1>7, <2>1, <2>2, SynthesizeFacts
  <2>3. \A w \in Writers, k \in LinkTables : Linked(w, k)' = Linked(w, k)
    BY <2>2 DEF Linked, LinksOf
  <2> QED  BY <1>7, <2>3 DEF Synthesize
<1>8. ASSUME NEW w \in Writers, DeleteAssessment(w) PROVE UNCHANGED <<read, cited>>
  BY <1>8, DeleteFacts
<1>9. ASSUME \A k \in LinkTables : table'[k] = table[k]
      PROVE  \A w \in Writers, k \in LinkTables : Linked(w, k)' = Linked(w, k)
  BY <1>9 DEF Linked, LinksOf
<1> QED  BY <1>1, <1>2, <1>3, <1>4, <1>5, <1>6, <1>7, <1>8, <1>9 DEF Next

\* The deletion of an assessment takes its own built links, which no reset is
\* deleting, and those of no other.
LEMMA DeleteLinks ==
    ASSUME TypeOK, NEW w \in Writers, DeleteAssessment(w)
    PROVE  /\ \A v \in Writers \ {w}, k \in LinkTables : Linked(v, k)' = Linked(v, k)
           /\ \A k \in LinkTables :
                Linked(w, k)' = IF k = "research_assessment_evidence" THEN {} ELSE Linked(w, k)
           /\ \A r \in Runs : doomed[r]["research_assessment_evidence"]
                                \cap Linked(w, "research_assessment_evidence") = {}
           /\ w \in dropped' /\ dropped \subseteq dropped' /\ UNCHANGED <<read, cited>>
<1>1. \A k \in LinkTables : k \in Tables
  BY TableNames
<1>2. \A k \in LinkTables : k # "research_assessment_evidence" => table'[k] = table[k]
  BY <1>1, DeleteFacts
<1>3. table'["research_assessment_evidence"] =
        table["research_assessment_evidence"] \ LinksOf(w, "research_assessment_evidence")
  BY DeleteFacts
<1>4. ASSUME NEW v \in Writers \ {w}, NEW k \in LinkTables PROVE Linked(v, k)' = Linked(v, k)
  BY <1>2, <1>3, <1>4 DEF Linked, LinksOf
<1>5. ASSUME NEW k \in LinkTables
      PROVE  Linked(w, k)' = IF k = "research_assessment_evidence" THEN {} ELSE Linked(w, k)
  BY <1>2, <1>3, <1>5 DEF Linked, LinksOf
<1>6. Linked(w, "research_assessment_evidence") \subseteq LinksOf(w, "research_assessment_evidence")
  BY DEF Linked
<1> QED  BY <1>4, <1>5, <1>6, DeleteFacts

-----------------------------------------------------------------------------
(* Runs that met and runs that followed each other.                        *)

\* Runs only go forward, and Launch alone adds to the histories.
LEMMA PcStep ==
    ASSUME TypeOK, [Next]_vars, NEW q \in Runs
    PROVE  /\ pc[q] = "end" => pc'[q] = "end"
           /\ pc[q] \in {"work", "save"} => pc'[q] \in {"work", "save", "end"}
           /\ pc'[q] = "off" => pc[q] = "off"
           /\ pc[q] # "off" => pc'[q] # "off"
           /\ (\A r \in Runs : ~Launch(r)) =>
                (pc[q] = "off" => pc'[q] = "off") /\ UNCHANGED <<met, prior>>
<1> USE DEF writing, history
<1>1. ASSUME NEW r \in Runs, Launch(r)
      PROVE  /\ pc[q] = "end" => pc'[q] = "end"
             /\ pc[q] \in {"work", "save"} => pc'[q] \in {"work", "save", "end"}
             /\ pc'[q] = "off" => pc[q] = "off"
             /\ pc[q] # "off" => pc'[q] # "off"
  BY <1>1 DEF Launch, TypeOK
<1>2. ASSUME NEW r \in Runs,
             \/ ResetCommit(r) \/ InsertRun(r) \/ Select(r) \/ Process(r) \/ CommitPaper(r)
      PROVE  /\ pc[q] = "end" => pc'[q] = "end"
             /\ pc[q] \in {"work", "save"} => pc'[q] \in {"work", "save", "end"}
             /\ pc'[q] = "off" <=> pc[q] = "off"
             /\ UNCHANGED <<met, prior>>
  BY <1>2 DEF ResetCommit, InsertRun, Select, Process, CommitPaper, TypeOK
<1>3. ASSUME NEW r \in Runs, ResetStatement(r) \/ Complete(r) \/ Fail(r) \/ Kill(r)
      PROVE  /\ pc[q] = "end" => pc'[q] = "end"
             /\ pc[q] \in {"work", "save"} => pc'[q] \in {"work", "save", "end"}
             /\ pc'[q] = "off" <=> pc[q] = "off"
             /\ UNCHANGED <<met, prior>>
  <2>1. (Leave(r) \/ UNCHANGED pc) /\ UNCHANGED <<met, prior>>
    BY <1>3 DEF ResetStatement, Complete, Fail, Kill
  <2>2. pc[r] # "off"
    BY <1>3 DEF ResetStatement, Complete, Fail, Kill, Alive
  <2> QED  BY <2>1, <2>2, LeaveFacts
<1>4. ASSUME Aside
      PROVE  UNCHANGED <<pc, met, prior>>
  BY <1>4, AsideFacts
<1> QED  BY <1>1, <1>2, <1>3, <1>4 DEF Next, Aside

\* Every step keeps the histories of who met whom.
LEMMA MeetStep ==
    TypeOK /\ RunsMeetOrFollow /\ [Next]_vars => RunsMeetOrFollow'
<1> SUFFICES ASSUME TypeOK, RunsMeetOrFollow, [Next]_vars PROVE RunsMeetOrFollow'
  OBVIOUS
<1>1. ASSUME NEW r \in Runs, Launch(r) PROVE RunsMeetOrFollow'
  <2>1. /\ pc[r] = "off" /\ pc'[r] \in {"reset", "insert"}
        /\ \A q \in Runs \ {r} : pc'[q] = pc[q]
    BY <1>1 DEF Launch, TypeOK
  <2>2. met' = [q \in Runs |-> IF q = r THEN Alive
                               ELSE IF q \in Alive THEN met[q] \cup {r} ELSE met[q]]
    BY <1>1 DEF Launch
  <2>3. r \notin Alive /\ Alive \subseteq Runs /\ Alive' = Alive \cup {r}
    BY <2>1 DEF Alive
  <2>4. met'[r] = Alive
    BY <2>2
  <2>5. \A q \in Runs \ {r} : met'[q] = IF q \in Alive THEN met[q] \cup {r} ELSE met[q]
    BY <2>2
  <2>6. prior'[r] = {q \in Runs : pc[q] = "end"} /\ \A q \in Runs \ {r} : prior'[q] = prior[q]
    BY <1>1 DEF Launch, TypeOK
  <2>7. met[r] = {} /\ \A q \in Runs : r \notin met[q]
    BY <2>1 DEF RunsMeetOrFollow
  <2>a. \A q \in Alive : q # r /\ met'[q] = met[q] \cup {r}
    BY <2>3, <2>5
  <2>b. \A q \in Runs \ {r} : q \notin Alive => met'[q] = met[q]
    BY <2>5
  <2>c. \A q \in Runs : q \in Alive <=> pc[q] \notin {"off", "end"}
    BY DEF Alive
  <2>d. met \in [Runs -> SUBSET Runs]
    BY DEF TypeOK
  <2>e. /\ \A q, p \in Runs : q \in met[p] => p \in met[q]
        /\ \A q \in Runs : pc[q] = "off" => met[q] = {}
        /\ \A q, p \in Alive : q # p => q \in met[p]
        /\ \A q \in Alive, p \in Runs : pc[p] = "end" => p \in met[q] \cup prior[q]
    BY DEF RunsMeetOrFollow
  <2> HIDE DEF Alive
  <2>8. ASSUME NEW p \in Runs, NEW q \in Runs, p \in met'[q] PROVE q \in met'[p]
    <3>1. CASE q = r
      BY <2>8, <3>1, <2>4, <2>a
    <3>2. CASE q # r /\ p = r
      <4>1. q \in Alive
        BY <2>8, <3>2, <2>7, <2>b
      <4> QED  BY <3>2, <4>1, <2>4
    <3>3. CASE q # r /\ p # r
      <4>1. p \in met[q]
        BY <2>8, <3>3, <2>a, <2>b
      <4>2. q \in met[p]
        BY <4>1, <2>e
      <4> QED  BY <3>3, <4>2, <2>a, <2>b
    <3> QED  BY <3>1, <3>2, <3>3
  <2>9. ASSUME NEW q \in Runs, pc'[q] = "off" PROVE met'[q] = {}
    <3>1. q # r /\ pc[q] = "off"
      BY <2>1, <2>9
    <3> QED  BY <3>1, <2>b, <2>c, <2>e
  <2>10. ASSUME NEW p \in Alive', NEW q \in Alive', p # q PROVE p \in met'[q]
    <3>1. CASE q = r
      BY <2>10, <3>1, <2>3, <2>4
    <3>2. CASE q # r /\ p = r
      BY <3>2, <2>3, <2>a
    <3>3. CASE q # r /\ p # r
      BY <2>10, <3>3, <2>3, <2>a, <2>e
    <3> QED  BY <3>1, <3>2, <3>3
  <2>11. ASSUME NEW q \in Alive', NEW p \in Runs, pc'[p] = "end" PROVE p \in met'[q] \cup prior'[q]
    <3>1. p # r /\ pc[p] = "end"
      BY <2>1, <2>11
    <3>2. CASE q = r
      BY <3>1, <3>2, <2>6
    <3>3. CASE q # r
      <4>1. q \in Alive
        BY <3>3, <2>3
      <4>2. p \in met[q] \cup prior[q]
        BY <3>1, <4>1, <2>e
      <4> QED  BY <3>3, <4>1, <4>2, <2>3, <2>6, <2>a
    <3> QED  BY <3>2, <3>3
  <2>12. \A q \in Runs : \A p \in prior'[q] : pc'[p] = "end"
    <3>1. \A q \in Runs \ {r} : \A p \in prior[q] : p \in Runs /\ pc[p] = "end"
      BY DEF RunsMeetOrFollow, TypeOK
    <3> QED  BY <2>1, <2>6, <3>1
  <2> QED  BY <2>8, <2>9, <2>10, <2>11, <2>12 DEF RunsMeetOrFollow
<1>2. ASSUME \A r \in Runs : ~Launch(r) PROVE RunsMeetOrFollow'
  <2>1. UNCHANGED <<met, prior>>
    <3>1. CASE Runs = {}
      BY <1>2, <3>1, AsideFacts DEF Next, Aside
    <3>2. CASE Runs # {}
      BY <1>2, <3>2, PcStep
    <3> QED  BY <3>1, <3>2
  <2>2. \A q \in Runs : /\ pc[q] = "end" => pc'[q] = "end"
                        /\ pc'[q] = "off" <=> pc[q] = "off"
    BY <1>2, PcStep
  <2>3. Alive' \subseteq Alive
    BY <2>2 DEF Alive
  <2>4. \A q \in Alive', p \in Runs : pc'[p] = "end" => p \in met[q] \cup prior[q]
    <3> TAKE q \in Alive', p \in Runs
    <3>1. CASE pc[p] = "end"
      BY <2>3, <3>1 DEF RunsMeetOrFollow
    <3>2. CASE pc[p] # "end" /\ pc'[p] = "end"
      <4>1. p \in Alive
        BY <2>2, <3>2 DEF Alive
      <4>2. p # q
        BY <3>2 DEF Alive
      <4> QED  BY <2>3, <4>1, <4>2 DEF RunsMeetOrFollow
    <3> QED  BY <3>1, <3>2
  <2>5. \A q \in Runs : \A p \in prior[q] : p \in Runs /\ pc[p] = "end"
    BY DEF RunsMeetOrFollow, TypeOK
  <2> QED  BY <2>1, <2>2, <2>3, <2>4, <2>5 DEF RunsMeetOrFollow
<1> QED  BY <1>1, <1>2

-----------------------------------------------------------------------------
(* The work of a run.                                                      *)

\* Claims and passes are of runs and papers.
LEMMA ClaimRows ==
    ASSUME TypeOK
    PROVE  /\ table["evidence"] \subseteq Rows /\ Claims \subseteq Rows
           /\ \A c \in Claims \cup table["evidence"] : c.run \in Runs /\ c.paper \in Papers
           /\ \A d \in passes : d.run \in Runs /\ d.paper \in Papers
<1>1. \A k \in Tables : table[k] \subseteq RowsOf(k)
  BY DEF TypeOK
<1>2. table["evidence"] \subseteq Rows /\ Claims \subseteq Rows
  BY <1>1, RowTypes, TableNames DEF Claims
<1>3. \A d \in passes : d.run \in Runs /\ d.paper \in Papers
  BY DEF TypeOK
<1> QED  BY <1>2, <1>3 DEF Rows

\* The claims that appear are of a run that is saving a paper; the step is
\* none of a launch, and the run has not ended.
LEMMA SavingFacts ==
    ASSUME TypeOK, RunsKeepStep, RunsMeetOrFollow, [Next]_vars,
           NEW r \in Runs, pc[r] = "save", pc'[r] # "save"
    PROVE  /\ UNCHANGED <<met, prior>>
           /\ \A q \in Runs : r \notin prior[q]
<1>1. \A q \in Runs : ~Launch(q)
  BY DEF Launch, TypeOK
<1>2. UNCHANGED <<met, prior>>
  BY <1>1, PcStep
<1>3. \A q \in Runs : r \notin prior[q]
  BY DEF RunsMeetOrFollow
<1> QED  BY <1>2, <1>3

\* A run's history is written when it starts, and then it is at its beginning.
LEMMA PriorStep ==
    ASSUME TypeOK, RunsKeepStep, [Next]_vars, NEW q \in Runs
    PROVE  \/ prior'[q] = prior[q]
           \/ Launch(q) /\ pc'[q] \in {"reset", "insert"} /\ UNCHANGED <<table, ledger, step>>
<1>1. ASSUME NEW r \in Runs, Launch(r), r # q PROVE prior'[q] = prior[q]
  BY <1>1 DEF Launch, TypeOK
<1>2. CASE Launch(q)
  BY <1>2 DEF Launch, TypeOK
<1>3. CASE \A r \in Runs : ~Launch(r)
  BY <1>3, PcStep
<1> QED  BY <1>1, <1>2, <1>3

\* Work comes from the selection alone, and that leaves out what has claims.
LEMMA DueStep ==
    ASSUME TypeOK, RunsKeepStep, [Next]_vars, NEW q \in Runs, NEW p \in Papers, Due(q, p)'
    PROVE  Due(q, p) \/ (pc[q] = "select" /\ \A c \in Claims : c.paper # p)
<1> USE DEF writing, history
<1>1. p # NoPass.paper
  BY NoneAssumption DEF NoPass
<1>2. CASE UNCHANGED <<todo, pass>>
  BY <1>2 DEF Due
<1>3. CASE Select(q)
  <2>1. todo'[q] \subseteq Papers \ {c.paper : c \in Claims} /\ UNCHANGED pass /\ pc[q] = "select"
    BY <1>3 DEF Select, Claims, TypeOK
  <2> QED  BY <2>1 DEF Due
<1>4. CASE Process(q)
  <2>1. PICK x \in todo[q] : pass'[q].paper = x /\ todo' = [todo EXCEPT ![q] = @ \ {x}]
    BY <1>4, ProcessType
  <2>2. todo'[q] = todo[q] \ {x}
    BY <2>1 DEF TypeOK
  <2> QED  BY <2>1, <2>2 DEF Due
<1>5. CASE CommitPaper(q)
  BY <1>1, <1>5 DEF CommitPaper, Due, TypeOK
<1>6. CASE Leave(q)
  BY <1>1, <1>6, LeaveFacts DEF Due
<1>7. CASE todo'[q] = todo[q] /\ pass'[q] = pass[q]
  BY <1>7 DEF Due
<1>8. ASSUME NEW r \in Runs \ {q},
             \/ Launch(r) \/ ResetStatement(r) \/ ResetCommit(r) \/ InsertRun(r) \/ Select(r)
             \/ Process(r) \/ CommitPaper(r) \/ Complete(r) \/ Fail(r) \/ Kill(r)
      PROVE  todo'[q] = todo[q] /\ pass'[q] = pass[q]
  BY <1>8, OthersGoOn
<1>9. ASSUME Launch(q) \/ ResetStatement(q) \/ ResetCommit(q) \/ InsertRun(q)
             \/ Complete(q) \/ Fail(q) \/ Kill(q)
      PROVE  UNCHANGED <<todo, pass>> \/ Leave(q)
  BY <1>9 DEF Launch, ResetStatement, ResetCommit, InsertRun, Complete, Fail, Kill
<1>10. ASSUME Aside
       PROVE  UNCHANGED <<todo, pass>>
  BY <1>10, AsideFacts
<1> QED  BY <1>2, <1>3, <1>4, <1>5, <1>6, <1>7, <1>8, <1>9, <1>10 DEF Next, Aside

\* A run that is saving a paper has neither claims nor evidence of it yet, and
\* no earlier run has claims of it.
LEMMA SavingIsNew ==
    ASSUME WorkIsNew, NEW r \in Runs, NEW c \in Claims \cup table["evidence"],
           c.paper = pass[r].paper
    PROVE  c.run # r /\ (c \in Claims => c.run \notin prior[r])
BY DEF WorkIsNew, Due

\* Every step keeps work new.
LEMMA WorkStep ==
    TypeOK /\ RunsKeepStep /\ RunsMeetOrFollow /\ WorkIsNew /\ [Next]_vars => WorkIsNew'
<1> SUFFICES ASSUME TypeOK, RunsKeepStep, RunsMeetOrFollow, WorkIsNew, [Next]_vars
             PROVE  WorkIsNew'
  OBVIOUS
<1>0. \A q \in Runs : Selected(q) => Selected(q)'
  BY PcStep DEF Selected
<1>1. ASSUME NEW q \in Runs, NEW p \in Papers, Selected(q), ~Due(q, p) PROVE ~Due(q, p)'
  BY <1>1, DueStep DEF Selected
<1>2. \A c \in Claims \cup table["evidence"] : Selected(c.run)' /\ ~Due(c.run, c.paper)'
  BY <1>0, <1>1, ClaimRows DEF WorkIsNew
<1>3. \A d \in passes : Selected(d.run)' /\ ~Due(d.run, d.paper)'
  BY <1>0, <1>1, ClaimRows DEF WorkIsNew
<1>4. ASSUME NEW r \in Runs, NEW c \in Claims, c.run \in prior'[r] PROVE ~Due(r, c.paper)'
  <2>1. CASE prior'[r] = prior[r]
    <3>1. ~Due(r, c.paper)
      BY <1>4, <2>1 DEF WorkIsNew
    <3> QED  BY <3>1, DueStep, ClaimRows
  <2>2. CASE pc'[r] \in {"reset", "insert"}
    <3>1. RunsKeepStep'
      BY CourseStep
    <3>2. todo'[r] = {} /\ pass'[r] = NoPass
      BY <2>2, <3>1 DEF RunsKeepStep
    <3>3. c.paper # NoPass.paper
      BY ClaimRows, NoneAssumption DEF NoPass
    <3> QED  BY <3>2, <3>3 DEF Due
  <2> QED  BY <2>1, <2>2, PriorStep
<1>5. CASE Claims' \subseteq Claims /\ table'["evidence"] \subseteq table["evidence"] /\ UNCHANGED passes
  BY <1>2, <1>3, <1>4, <1>5 DEF WorkIsNew
<1>6. ASSUME NEW r \in Runs, NEW S \in SUBSET pass[r].accepted,
             pc[r] = "save", pass[r].paper \in Papers \ todo[r],
             Claims' = Claims \cup New(r, S), table'["evidence"] = table["evidence"] \cup New(r, S),
             pc'[r] \in {"work", "end"}, pass'[r] = NoPass, todo'[r] \subseteq todo[r],
             passes' \subseteq passes \cup {[run |-> r, paper |-> pass[r].paper, accepted |-> S]}
      PROVE  WorkIsNew'
  <2>1. Selected(r)'
    BY <1>6 DEF Selected
  <2>2. ASSUME NEW p \in Papers, p = pass[r].paper PROVE ~Due(r, p)'
    <3>1. p \notin todo'[r] /\ p # pass'[r].paper
      BY <1>6, <2>2, NoneAssumption DEF NoPass
    <3> QED  BY <3>1 DEF Due
  <2>3. \A c \in New(r, S) : c.run = r /\ c.paper = pass[r].paper
    BY DEF New
  <2>4. \A c \in Claims' \cup table'["evidence"] : Selected(c.run)' /\ ~Due(c.run, c.paper)'
    <3> TAKE c \in Claims' \cup table'["evidence"]
    <3>1. CASE c \in Claims \cup table["evidence"]
      BY <3>1, <1>2
    <3>2. CASE c \in New(r, S)
      <4>1. c.run = r /\ c.paper = pass[r].paper /\ c.paper \in Papers
        BY <1>6, <2>3, <3>2
      <4> QED  BY <4>1, <2>1, <2>2
    <3> QED  BY <1>6, <3>1, <3>2
  <2>5. \A d \in passes' : Selected(d.run)' /\ ~Due(d.run, d.paper)'
    <3> TAKE d \in passes'
    <3>1. CASE d \in passes
      BY <3>1, <1>3
    <3>2. CASE d = [run |-> r, paper |-> pass[r].paper, accepted |-> S]
      <4>1. d.run = r /\ d.paper = pass[r].paper /\ d.paper \in Papers
        BY <1>6, <3>2
      <4> QED  BY <4>1, <2>1, <2>2
    <3> QED  BY <1>6, <3>1, <3>2
  <2>6. \A q \in Runs : r \notin prior'[q]
    BY <1>6, SavingFacts
  <2>7. \A q \in Runs, c \in Claims' : c.run \in prior'[q] => ~Due(q, c.paper)'
    BY <1>4, <1>6, <2>3, <2>6
  <2> QED  BY <2>4, <2>5, <2>7 DEF WorkIsNew
<1>7. ASSUME NEW r \in Runs, ResetCommit(r) PROVE WorkIsNew'
  <2>1. Claims' \subseteq Claims /\ table'["evidence"] \subseteq table["evidence"] /\ UNCHANGED passes
    BY <1>7, CommitResetFacts, TableNames DEF Claims
  <2> QED  BY <1>5, <2>1
<1>8. ASSUME \A r \in Runs : ~ResetCommit(r) PROVE WorkIsNew'
  BY <1>5, <1>6, <1>8, ClaimsStep
<1> QED  BY <1>7, <1>8

\* Every step keeps claims with their evidence.
LEMMA EvidenceStep ==
    ASSUME TypeOK, RunsKeepStep, SweepsAreComplete, EvidenceHasItsClaim, [Next]_vars
    PROVE  EvidenceHasItsClaim'
<1>0. Claims \subseteq table["evidence"] /\ table["evidence"] \ Claims \subseteq revoked
  BY DEF EvidenceHasItsClaim
<1> DEFINE kept == Claims' \subseteq table'["evidence"] /\ table'["evidence"] \ Claims' \subseteq revoked'
<1>1. ASSUME NEW r \in Runs, ResetCommit(r) PROVE kept
  <2>1. pc[r] = "reset" /\ step[r] > 6 /\ UNCHANGED revoked
    BY <1>1, CommitResetFacts
  <2>2. step[r] > 5
    <3>1. step[r] \in 1 .. 7
      BY ResetPlaces DEF TypeOK
    <3> QED  BY <2>1, <3>1
  <2>3. doomed[r]["evidence"] \cap Claims = doomed[r]["extracted_claims"]
    BY <2>1, <2>2, SweptPlaces DEF SweepsAreComplete
  <2>4. /\ table'["evidence"] = table["evidence"] \ doomed[r]["evidence"]
        /\ Claims' = Claims \ doomed[r]["extracted_claims"]
    BY <1>1, CommitResetFacts, TableNames DEF Claims
  <2> QED  BY <1>0, <2>1, <2>3, <2>4
<1>2. ASSUME \A r \in Runs : ~ResetCommit(r) PROVE kept
  BY <1>0, <1>2, ClaimsStep
<1> QED  BY <1>1, <1>2 DEF EvidenceHasItsClaim, Claims

-----------------------------------------------------------------------------
(* What a reset has swept.                                                 *)

\* When nothing is held, the reset has deleted all claims and all links.
LEMMA HeldFacts ==
    ASSUME TypeOK, NEW r \in Runs, Held(r) = {}
    PROVE  /\ table["extracted_claims"] \subseteq doomed[r]["extracted_claims"]
           /\ \A k \in LinkTables : table[k] \subseteq doomed[r][k]
<1>1. table["extracted_claims"] \subseteq doomed[r]["extracted_claims"]
  BY DEF Held
<1>2. ASSUME NEW k \in LinkTables, NEW l \in table[k] \ doomed[r][k] PROVE FALSE
  <2>1. l \in UNION {table[x] \ doomed[r][x] : x \in LinkTables}
    BY <1>2
  <2>2. l.of \in Held(r)
    BY <2>1 DEF Held
  <2> QED  BY <2>2
<1> QED  BY <1>1, <1>2

\* The parts of the property, for one run, in the numbers of its statements.
LEMMA SweepsInNumbers ==
    ASSUME TypeOK
    PROVE  SweepsAreComplete <=>
             \A r \in Runs : pc[r] = "reset" =>
               /\ step[r] > 5 => doomed[r]["evidence"] \cap Claims = doomed[r]["extracted_claims"]
               /\ step[r] > 5 => \A q \in Runs, p \in Papers :
                     \/ EvidenceOf(q, p) \subseteq doomed[r]["evidence"]
                     \/ EvidenceOf(q, p) \cap doomed[r]["evidence"] = {}
               /\ step[r] > 5 => \A w \in Writers :
                     \/ \A k \in LinkTables : Linked(w, k) \subseteq doomed[r][k]
                     \/ \A k \in LinkTables : Linked(w, k) \cap doomed[r][k] = {}
BY SweptPlaces DEF SweepsAreComplete, Claims

\* The same of the next state.
LEMMA SweepsInNumbersNext ==
    ASSUME TypeOK'
    PROVE  SweepsAreComplete' <=>
             \A r \in Runs : pc'[r] = "reset" =>
               /\ step'[r] > 5 => doomed'[r]["evidence"] \cap Claims' = doomed'[r]["extracted_claims"]
               /\ step'[r] > 5 => \A q \in Runs, p \in Papers :
                     \/ EvidenceOf(q, p)' \subseteq doomed'[r]["evidence"]
                     \/ EvidenceOf(q, p)' \cap doomed'[r]["evidence"] = {}
               /\ step'[r] > 5 => \A w \in Writers :
                     \/ \A k \in LinkTables : Linked(w, k)' \subseteq doomed'[r][k]
                     \/ \A k \in LinkTables : Linked(w, k)' \cap doomed'[r][k] = {}
BY SweptPlacesNext DEF SweepsAreComplete, Claims

\* Before a writer's commit nothing of it is linked, and then it is in every
\* table as it has been cited.
LEMMA CiteLinks ==
    ASSUME TypeOK, WritersCiteOnce, CitationsComeTogether, NEW w \in Writers, Cite(w)
    PROVE  /\ \A v \in Writers \ {w}, k \in LinkTables : Linked(v, k)' = Linked(v, k)
           /\ \A k \in LinkTables : Linked(w, k) = {}
           /\ \/ \A v \in Writers, k \in LinkTables : Linked(v, k)' = Linked(v, k)
              \/ \A k \in LinkTables : Linked(w, k)' = Built(w, cited'[w][k])
<1>1. \A k \in LinkTables : Linked(w, k) = {}
  <2>1. \A k \in LinkTables : cited[w][k] = {}
    BY CiteFacts
  <2>2. Built(w, {}) = {}
    BY BuiltFacts
  <2>3. \A k \in LinkTables : Linked(w, k) = Built(w, cited[w][k]) \/ Linked(w, k) = {}
    BY DEF CitationsComeTogether
  <2> QED  BY <2>1, <2>2, <2>3
<1>2. CASE UNCHANGED table
  BY <1>1, <1>2 DEF Linked, LinksOf
<1>3. CASE \A k \in LinkTables : table'[k] = table[k] \cup Built(w, cited'[w][k])
  <2>1. \A k \in LinkTables : \A l \in Built(w, cited'[w][k]) : l.by = w /\ l.role = "built"
    BY BuiltFacts
  <2>2. \A v \in Writers \ {w}, k \in LinkTables : Linked(v, k)' = Linked(v, k)
    BY <1>3, <2>1 DEF Linked, LinksOf
  <2>3. \A k \in LinkTables : Linked(w, k)' = Linked(w, k) \cup Built(w, cited'[w][k])
    BY <1>3, <2>1 DEF Linked, LinksOf
  <2> QED  BY <1>1, <2>2, <2>3
<1> QED  BY <1>2, <1>3, CiteFacts

\* Outside the commit of a reset the evidence of a run on a paper stays as it
\* is, or is written, where there was none.
LEMMA HereStep ==
    ASSUME TypeOK, RunsKeepStep, WorkIsNew, [Next]_vars, \A r \in Runs : ~ResetCommit(r),
           NEW q \in Runs, NEW p \in Papers
    PROVE  \/ EvidenceOf(q, p)' = EvidenceOf(q, p) /\ passes \subseteq passes' /\ broken \subseteq broken'
           \/ /\ EvidenceOf(q, p) = {}
              /\ \E S : /\ EvidenceOf(q, p)' = [run: {q}, paper: {p}, at: S]
                        /\ \/ [run |-> q, paper |-> p, accepted |-> S] \in passes'
                           \/ <<q, p>> \in broken'
<1>1. CASE UNCHANGED <<table["evidence"], passes, broken>>
  BY <1>1 DEF EvidenceOf
<1>2. ASSUME NEW r \in Runs, NEW S \in SUBSET pass[r].accepted,
             table'["evidence"] = table["evidence"] \cup New(r, S),
             \/ /\ passes' = passes \cup {[run |-> r, paper |-> pass[r].paper, accepted |-> S]}
                /\ UNCHANGED broken
             \/ broken' = broken \cup {<<r, pass[r].paper>>} /\ UNCHANGED passes
      PROVE  \/ EvidenceOf(q, p)' = EvidenceOf(q, p) /\ passes \subseteq passes' /\ broken \subseteq broken'
             \/ /\ EvidenceOf(q, p) = {}
                /\ EvidenceOf(q, p)' = [run: {q}, paper: {p}, at: S]
                /\ \/ [run |-> q, paper |-> p, accepted |-> S] \in passes'
                   \/ <<q, p>> \in broken'
  <2>1. \A c \in New(r, S) : c.run = r /\ c.paper = pass[r].paper
    BY DEF New
  <2>2. CASE q = r /\ p = pass[r].paper
    <3>1. EvidenceOf(q, p) = {}
      BY <2>2, SavingIsNew DEF EvidenceOf
    <3>2. EvidenceOf(q, p)' = EvidenceOf(q, p) \cup New(r, S)
      BY <1>2, <2>1, <2>2 DEF EvidenceOf
    <3>3. New(r, S) = [run: {q}, paper: {p}, at: S]
      BY <2>2 DEF New
    <3> QED  BY <1>2, <2>2, <3>1, <3>2, <3>3
  <2>3. CASE ~(q = r /\ p = pass[r].paper)
    <3>1. EvidenceOf(q, p)' = EvidenceOf(q, p)
      BY <1>2, <2>1, <2>3 DEF EvidenceOf
    <3> QED  BY <1>2, <3>1
  <2> QED  BY <2>2, <2>3
<1> QED  BY <1>1, <1>2, ClaimsStep

\* Every step keeps what a reset has swept complete.
LEMMA SweepsStep ==
    ASSUME TypeOK, RunsKeepStep, ResetsStayApart, SweepsAreComplete, WorkIsNew, WritersCiteOnce,
           EvidenceHasItsClaim, CitationsComeTogether, [Next]_vars
    PROVE  SweepsAreComplete'
<1> DEFINE Whole(r) ==
             /\ step'[r] > 5 => doomed'[r]["evidence"] \cap Claims' = doomed'[r]["extracted_claims"]
             /\ step'[r] > 5 => \A q \in Runs, p \in Papers :
                   \/ EvidenceOf(q, p)' \subseteq doomed'[r]["evidence"]
                   \/ EvidenceOf(q, p)' \cap doomed'[r]["evidence"] = {}
             /\ step'[r] > 5 => \A w \in Writers :
                   \/ \A k \in LinkTables : Linked(w, k)' \subseteq doomed'[r][k]
                   \/ \A k \in LinkTables : Linked(w, k)' \cap doomed'[r][k] = {}
<1>0. TypeOK'
  BY TypeStep
<1> SUFFICES ASSUME NEW r \in Runs, pc'[r] = "reset" PROVE Whole(r)
  BY <1>0, SweepsInNumbersNext
<1>1. pc[r] = "reset" =>
        /\ step[r] > 5 => doomed[r]["evidence"] \cap Claims = doomed[r]["extracted_claims"]
        /\ step[r] > 5 => \A q \in Runs, p \in Papers :
              \/ EvidenceOf(q, p) \subseteq doomed[r]["evidence"]
              \/ EvidenceOf(q, p) \cap doomed[r]["evidence"] = {}
        /\ step[r] > 5 => \A w \in Writers :
              \/ \A k \in LinkTables : Linked(w, k) \subseteq doomed[r][k]
              \/ \A k \in LinkTables : Linked(w, k) \cap doomed[r][k] = {}
  BY SweepsInNumbers
<1>2. step[r] \in 1 .. 7 /\ step'[r] \in 1 .. 7
  BY <1>0, ResetPlaces DEF TypeOK
<1>3. ASSUME NEW x \in Runs, ResetStatement(x) PROVE Whole(r)
  <2>1. UNCHANGED <<table, Claims>> /\ \A q \in Runs, p \in Papers : EvidenceOf(q, p)' = EvidenceOf(q, p)
    BY <1>3, StatementFacts DEF EvidenceOf, Claims
  <2>2. \A w \in Writers, k \in LinkTables : Linked(w, k)' = Linked(w, k)
    BY <2>1 DEF Linked, LinksOf
  <2>3. CASE Leave(x)
    <3>1. r # x
      BY <2>3, LeaveFacts
    <3>2. pc'[r] = pc[r] /\ step'[r] = step[r] /\ doomed'[r] = doomed[r]
      BY <2>3, <3>1, LeaveFacts
    <3> QED  BY <1>1, <2>1, <2>2, <3>2
  <2>4. CASE ~Leave(x) /\ r # x
    <3>1. pc'[r] = pc[r] /\ step'[r] = step[r] /\ doomed'[r] = doomed[r]
      BY <1>3, <2>4, StatementFacts DEF TypeOK
    <3> QED  BY <1>1, <2>1, <2>2, <3>1
  <2>5. CASE ~Leave(x) /\ r = x
    <3> DEFINE s == ResetOrder[step[r]]
    <3>1. /\ pc[r] = "reset" /\ step[r] \in 1 .. 6 /\ s \in Tables
          /\ step' = [step EXCEPT ![r] = @ + 1]
          /\ doomed'[r][s] = table[s]
          /\ \A k \in Tables \ {s} : doomed'[r][k] = doomed[r][k]
          /\ step[r] = 5 => Held(r) = {}
      BY <1>3, <2>5, StatementFacts
    <3>2. step'[r] = step[r] + 1
      BY <3>1 DEF TypeOK
    <3>3. s = "extracted_claims" <=> step[r] = 4
      BY <3>1, ResetPlaces
    <3>4. s = "evidence" <=> step[r] = 5
      BY <3>1, ResetPlaces
    <3>5. s \in LinkTables <=> step[r] < 4
      BY <3>1, ResetPlaces
    <3> HIDE DEF s
    <3>6. CASE step[r] < 5
      BY <3>2, <3>6, <1>2
    <3>8. CASE step[r] = 5
      <4>1. Held(r) = {}
        BY <3>1, <3>8
      <4>2. /\ doomed[r]["extracted_claims"] = table["extracted_claims"]
            /\ \A k \in LinkTables : table[k] \subseteq doomed[r][k]
        <5>1. doomed[r]["extracted_claims"] \subseteq table["extracted_claims"]
          BY TableNames DEF ResetsStayApart
        <5>2. /\ table["extracted_claims"] \subseteq doomed[r]["extracted_claims"]
              /\ \A k \in LinkTables : table[k] \subseteq doomed[r][k]
          BY <4>1, HeldFacts
        <5> QED  BY <5>1, <5>2
      <4>3. /\ doomed'[r]["evidence"] = table["evidence"]
            /\ doomed'[r]["extracted_claims"] = doomed[r]["extracted_claims"]
        BY <3>1, <3>4, <3>8, TableNames
      <4>4. doomed'[r]["evidence"] \cap Claims' = doomed'[r]["extracted_claims"]
        BY <2>1, <4>2, <4>3 DEF EvidenceHasItsClaim, Claims
      <4>5. \A k \in LinkTables : doomed'[r][k] = doomed[r][k]
        BY <3>1, <3>5, <3>8, TableNames
      <4>6. \A w \in Writers, k \in LinkTables : Linked(w, k)' \subseteq doomed'[r][k]
        BY <2>2, <4>2, <4>5 DEF Linked, LinksOf
      <4>7. \A q \in Runs, p \in Papers : EvidenceOf(q, p) \subseteq doomed'[r]["evidence"]
        BY <4>3 DEF EvidenceOf
      <4> QED  BY <2>1, <4>4, <4>6, <4>7
    <3>9. CASE step[r] = 6
      <4>1. /\ doomed'[r]["evidence"] = doomed[r]["evidence"]
            /\ doomed'[r]["extracted_claims"] = doomed[r]["extracted_claims"]
            /\ \A k \in LinkTables : doomed'[r][k] = doomed[r][k]
        BY <3>1, <3>3, <3>4, <3>5, <3>9, TableNames
      <4> QED  BY <1>1, <2>1, <2>2, <3>1, <3>9, <4>1
    <3> QED  BY <3>1, <3>6, <3>8, <3>9
  <2> QED  BY <2>3, <2>4, <2>5
<1>4. ASSUME NEW x \in Runs, ResetCommit(x) PROVE Whole(r)
  <2>1. r # x
    BY <1>4, CommitResetFacts
  <2>2. /\ pc'[r] = pc[r] /\ step'[r] = step[r] /\ doomed'[r] = doomed[r]
        /\ \A k \in Tables : table'[k] \subseteq table[k]
    BY <1>4, <2>1, CommitResetFacts
  <2>3. \A q \in Runs, p \in Papers : EvidenceOf(q, p)' \subseteq EvidenceOf(q, p)
    BY <2>2, TableNames DEF EvidenceOf
  <2>4. \A w \in Writers, k \in LinkTables : Linked(w, k)' \subseteq Linked(w, k)
    BY <2>2, TableNames DEF Linked, LinksOf
  <2>5. step'[r] > 5 => doomed'[r]["evidence"] \cap Claims' = doomed'[r]["extracted_claims"]
    <3>1. Claims' = Claims \ doomed[x]["extracted_claims"]
      BY <1>4, CommitResetFacts, TableNames DEF Claims
    <3>2. doomed[r]["extracted_claims"] \cap doomed[x]["extracted_claims"] = {}
      BY <2>1, TableNames DEF ResetsStayApart
    <3> QED  BY <1>1, <2>2, <3>1, <3>2
  <2>6. ASSUME step'[r] > 5, NEW q \in Runs, NEW p \in Papers
        PROVE  \/ EvidenceOf(q, p)' \subseteq doomed'[r]["evidence"]
               \/ EvidenceOf(q, p)' \cap doomed'[r]["evidence"] = {}
    <3>1. \/ EvidenceOf(q, p) \subseteq doomed[r]["evidence"]
          \/ EvidenceOf(q, p) \cap doomed[r]["evidence"] = {}
      BY <1>1, <2>2, <2>6
    <3>2. EvidenceOf(q, p)' \subseteq EvidenceOf(q, p) /\ doomed'[r] = doomed[r]
      BY <2>2, <2>3
    <3> QED  BY <3>1, <3>2
  <2>7. ASSUME step'[r] > 5, NEW w \in Writers
        PROVE  \/ \A k \in LinkTables : Linked(w, k)' \subseteq doomed'[r][k]
               \/ \A k \in LinkTables : Linked(w, k)' \cap doomed'[r][k] = {}
    <3>1. \/ \A k \in LinkTables : Linked(w, k) \subseteq doomed[r][k]
          \/ \A k \in LinkTables : Linked(w, k) \cap doomed[r][k] = {}
      BY <1>1, <2>2, <2>7
    <3>2. (\A k \in LinkTables : Linked(w, k)' \subseteq Linked(w, k)) /\ doomed'[r] = doomed[r]
      BY <2>2, <2>4
    <3> QED  BY <3>1, <3>2
  <2> QED  BY <2>5, <2>6, <2>7
<1>5. ASSUME \A x \in Runs : ~ResetStatement(x) /\ ~ResetCommit(x) PROVE Whole(r)
  <2>1. pc[r] = "reset" \/ (pc[r] = "off" /\ step'[r] = step[r])
    BY <1>5, QuietForResets
  <2>2. pc[r] # "reset" => step[r] = 1
    BY DEF ResetsStayApart
  <2>3. CASE pc[r] # "reset"
    BY <2>1, <2>2, <2>3
  <2>4. CASE pc[r] = "reset"
    <3>1. doomed'[r] = doomed[r] /\ step'[r] = step[r]
      BY <1>5, QuietForResets
    <3>2. \A k \in Tables : doomed[r][k] \subseteq table[k]
      BY DEF ResetsStayApart
    <3>3. step'[r] > 5 => doomed'[r]["evidence"] \cap Claims' = doomed'[r]["extracted_claims"]
      <4>1. doomed[r]["extracted_claims"] \subseteq Claims'
        BY <1>5, DoomedStay, TableNames DEF Claims
      <4>2. ASSUME NEW c \in doomed[r]["evidence"], c \in Claims' PROVE c \in Claims
        <5>1. c \in table["evidence"]
          BY <3>2, <4>2, TableNames
        <5>2. ASSUME NEW x \in Runs, NEW S, c \in New(x, S) PROVE FALSE
          <6>1. c.run = x /\ c.paper = pass[x].paper
            BY <5>2 DEF New
          <6> QED  BY <5>1, <6>1, SavingIsNew
        <5> QED  BY <1>5, <4>2, <5>2, ClaimsStep
      <4> QED  BY <1>1, <2>4, <3>1, <4>1, <4>2
    <3>4. ASSUME step'[r] > 5, NEW q \in Runs, NEW p \in Papers
          PROVE  \/ EvidenceOf(q, p)' \subseteq doomed'[r]["evidence"]
                 \/ EvidenceOf(q, p)' \cap doomed'[r]["evidence"] = {}
      <4>1. CASE EvidenceOf(q, p)' = EvidenceOf(q, p)
        BY <1>1, <2>4, <3>1, <3>4, <4>1
      <4>2. ASSUME NEW S, EvidenceOf(q, p) = {}, EvidenceOf(q, p)' = [run: {q}, paper: {p}, at: S]
            PROVE  EvidenceOf(q, p)' \cap doomed'[r]["evidence"] = {}
        <5>1. \A c \in doomed[r]["evidence"] : c \in table["evidence"]
          BY <3>2, TableNames
        <5>2. \A c \in doomed[r]["evidence"] : ~(c.run = q /\ c.paper = p)
          BY <4>2, <5>1 DEF EvidenceOf
        <5>3. \A c \in EvidenceOf(q, p)' : c.run = q /\ c.paper = p
          BY <4>2
        <5> QED  BY <3>1, <5>2, <5>3
      <4> QED  BY <1>5, <4>1, <4>2, HereStep
    <3>5. ASSUME step'[r] > 5, NEW w \in Writers
          PROVE  \/ \A k \in LinkTables : Linked(w, k)' \subseteq doomed'[r][k]
                 \/ \A k \in LinkTables : Linked(w, k)' \cap doomed'[r][k] = {}
      <4>1. \/ \A k \in LinkTables : Linked(w, k) \subseteq doomed[r][k]
            \/ \A k \in LinkTables : Linked(w, k) \cap doomed[r][k] = {}
        BY <1>1, <2>4, <3>1, <3>5
      <4>2. CASE \A k \in LinkTables : Linked(w, k)' = Linked(w, k)
        BY <3>1, <4>1, <4>2
      <4>3. CASE Cite(w) /\ \A k \in LinkTables : Linked(w, k)' = Built(w, cited'[w][k])
        <5>1. \A k \in LinkTables : \A l \in doomed[r][k] : l \in table[k] /\ l \notin Linked(w, k)
          BY <3>2, <4>3, CiteLinks, TableNames
        <5>2. \A k \in LinkTables : \A l \in doomed[r][k] : ~(l.by = w /\ l.role = "built")
          BY <5>1 DEF Linked, LinksOf
        <5>3. \A k \in LinkTables : \A l \in Linked(w, k)' : l.by = w /\ l.role = "built"
          BY DEF Linked, LinksOf
        <5> QED  BY <3>1, <5>2, <5>3
      <4>4. CASE \A v \in Writers : ~Cite(v)
        <5>1. CASE DeleteAssessment(w)
          <6>1. \A k \in LinkTables :
                  Linked(w, k)' = IF k = "research_assessment_evidence" THEN {} ELSE Linked(w, k)
            BY <5>1, DeleteLinks
          <6>2. \A k \in LinkTables : Linked(w, k)' \subseteq Linked(w, k)
            BY <6>1
          <6> QED  BY <3>1, <4>1, <6>2
        <5>2. CASE \E v \in Writers \ {w} : DeleteAssessment(v)
          BY <4>2, <5>2, DeleteLinks
        <5>3. CASE \A v \in Writers : ~DeleteAssessment(v)
          <6>1. \A k \in LinkTables : Linked(w, k)' = Linked(w, k)
            BY <1>5, <4>4, <5>3, LinksStep
          <6> QED  BY <4>2, <6>1
        <5> QED  BY <5>1, <5>2, <5>3
      <4>5. CASE \E v \in Writers \ {w} : Cite(v)
        BY <4>2, <4>5, CiteLinks
      <4> QED  BY <4>2, <4>3, <4>4, <4>5, CiteLinks
    <3> QED  BY <3>3, <3>4, <3>5
  <2> QED  BY <2>3, <2>4
<1> QED  BY <1>3, <1>4, <1>5

-----------------------------------------------------------------------------
(* The properties, step by step.                                           *)

\* Every step keeps papers whole.
LEMMA PapersStep ==
    ASSUME TypeOK, RunsKeepStep, SweepsAreComplete, WorkIsNew, PapersAreWhole, [Next]_vars
    PROVE  PapersAreWhole'
<1>0. \A q \in Runs, p \in Papers : <<q, p>> \notin broken =>
        \/ EvidenceOf(q, p) = {}
        \/ [run |-> q, paper |-> p, accepted |-> {e.at : e \in EvidenceOf(q, p)}] \in passes
  BY DEF PapersAreWhole
<1> SUFFICES ASSUME NEW q \in Runs, NEW p \in Papers, <<q, p>> \notin broken'
             PROVE  \/ EvidenceOf(q, p)' = {}
                    \/ [run |-> q, paper |-> p, accepted |-> {e.at : e \in EvidenceOf(q, p)'}] \in passes'
  BY DEF PapersAreWhole
<1> DEFINE places == {e.at : e \in EvidenceOf(q, p)'}
           whole == EvidenceOf(q, p)' = {} \/ [run |-> q, paper |-> p, accepted |-> places] \in passes'
<1>1. ASSUME NEW r \in Runs, ResetCommit(r)
      PROVE  whole
  <2>1. pc[r] = "reset" /\ step[r] > 6 /\ UNCHANGED <<passes, broken>>
    BY <1>1, CommitResetFacts
  <2>2. step[r] > 5
    <3>1. step[r] \in 1 .. 7
      BY ResetPlaces DEF TypeOK
    <3> QED  BY <2>1, <3>1
  <2>3. \/ EvidenceOf(q, p) \subseteq doomed[r]["evidence"]
        \/ EvidenceOf(q, p) \cap doomed[r]["evidence"] = {}
    BY <2>1, <2>2, SweepsInNumbers
  <2>4. table'["evidence"] = table["evidence"] \ doomed[r]["evidence"]
    BY <1>1, CommitResetFacts, TableNames
  <2>5. EvidenceOf(q, p)' = EvidenceOf(q, p) \ doomed[r]["evidence"]
    BY <2>4 DEF EvidenceOf
  <2>6. EvidenceOf(q, p)' = {} \/ EvidenceOf(q, p)' = EvidenceOf(q, p)
    BY <2>3, <2>5
  <2> QED  BY <1>0, <2>1, <2>6
<1>2. ASSUME EvidenceOf(q, p)' = EvidenceOf(q, p), passes \subseteq passes', broken \subseteq broken'
      PROVE  whole
  BY <1>0, <1>2
<1>3. ASSUME NEW S, EvidenceOf(q, p)' = [run: {q}, paper: {p}, at: S],
             [run |-> q, paper |-> p, accepted |-> S] \in passes'
      PROVE  whole
  <2>1. \A i \in S : [run |-> q, paper |-> p, at |-> i] \in EvidenceOf(q, p)'
    BY <1>3
  <2>2. \A c \in EvidenceOf(q, p)' : c.at \in S
    BY <1>3
  <2>3. places = S
    <3>1. ASSUME NEW i \in S PROVE i \in places
      <4>1. [run |-> q, paper |-> p, at |-> i].at = i
        OBVIOUS
      <4> QED  BY <2>1, <4>1
    <3> QED  BY <2>2, <3>1
  <2> HIDE DEF places
  <2> QED  BY <1>3, <2>3
<1> HIDE DEF whole
<1>4. ASSUME \A r \in Runs : ~ResetCommit(r)
      PROVE  whole
  <2>1. CASE EvidenceOf(q, p)' = EvidenceOf(q, p) /\ passes \subseteq passes' /\ broken \subseteq broken'
    BY <1>2, <2>1
  <2>2. CASE \E S : /\ EvidenceOf(q, p)' = [run: {q}, paper: {p}, at: S]
                    /\ \/ [run |-> q, paper |-> p, accepted |-> S] \in passes'
                       \/ <<q, p>> \in broken'
    <3>1. PICK S : /\ EvidenceOf(q, p)' = [run: {q}, paper: {p}, at: S]
                   /\ [run |-> q, paper |-> p, accepted |-> S] \in passes'
      BY <2>2
    <3> QED  BY <1>3, <3>1
  <2> QED  BY <1>4, <2>1, <2>2, HereStep
<1> QED  BY <1>1, <1>4 DEF whole

\* Every step keeps citations together.
LEMMA CitationsStep ==
    ASSUME TypeOK, RunsKeepStep, SweepsAreComplete, WritersCiteOnce, CitationsComeTogether,
           [Next]_vars
    PROVE  WritersCiteOnce' /\ CitationsComeTogether'
<1>0. \A w \in Writers :
        \/ \A k \in LinkTables : Linked(w, k) = Built(w, cited[w][k])
        \/ \A k \in LinkTables : Linked(w, k) = {}
        \/ /\ w \in dropped
           /\ \A k \in LinkTables : Linked(w, k) =
                IF k = "research_assessment_evidence" THEN {} ELSE Built(w, cited[w][k])
  BY DEF CitationsComeTogether
<1> DEFINE Together(w) ==
             \/ \A k \in LinkTables : Linked(w, k)' = Built(w, cited'[w][k])
             \/ \A k \in LinkTables : Linked(w, k)' = {}
             \/ /\ w \in dropped'
                /\ \A k \in LinkTables : Linked(w, k)' =
                     IF k = "research_assessment_evidence" THEN {} ELSE Built(w, cited'[w][k])
<1>s. ASSUME NEW w \in Writers, \A k \in LinkTables : Linked(w, k)' = Linked(w, k),
             cited'[w] = cited[w], w \in dropped => w \in dropped'
      PROVE  Together(w)
  <2>1. CASE \A k \in LinkTables : Linked(w, k) = Built(w, cited[w][k])
    BY <1>s, <2>1
  <2>2. CASE \A k \in LinkTables : Linked(w, k) = {}
    BY <1>s, <2>2
  <2>3. CASE /\ w \in dropped
             /\ \A k \in LinkTables : Linked(w, k) =
                  IF k = "research_assessment_evidence" THEN {} ELSE Built(w, cited[w][k])
    BY <1>s, <2>3
  <2> QED  BY <1>0, <2>1, <2>2, <2>3
<1>1. ASSUME NEW r \in Runs, ResetCommit(r)
      PROVE  WritersCiteOnce' /\ \A w \in Writers : Together(w)
  <2>1. pc[r] = "reset" /\ step[r] > 6 /\ UNCHANGED <<read, cited, dropped>>
    BY <1>1, CommitResetFacts
  <2>2. step[r] > 5
    <3>1. step[r] \in 1 .. 7
      BY ResetPlaces DEF TypeOK
    <3> QED  BY <2>1, <3>1
  <2>3. \A w \in Writers : \/ \A k \in LinkTables : Linked(w, k) \subseteq doomed[r][k]
                           \/ \A k \in LinkTables : Linked(w, k) \cap doomed[r][k] = {}
    BY <2>1, <2>2, SweepsInNumbers
  <2>4. \A k \in LinkTables : table'[k] = table[k] \ doomed[r][k]
    BY <1>1, CommitResetFacts, TableNames
  <2>5. \A w \in Writers, k \in LinkTables : Linked(w, k)' = Linked(w, k) \ doomed[r][k]
    BY <2>4 DEF Linked, LinksOf
  <2>6. ASSUME NEW w \in Writers PROVE Together(w)
    <3>1. CASE \A k \in LinkTables : Linked(w, k) \subseteq doomed[r][k]
      BY <2>5, <3>1
    <3>2. CASE \A k \in LinkTables : Linked(w, k) \cap doomed[r][k] = {}
      <4>1. \A k \in LinkTables : Linked(w, k)' = Linked(w, k)
        BY <2>5, <3>2
      <4> QED  BY <1>s, <2>1, <4>1
    <3> QED  BY <2>3, <3>1, <3>2
  <2> QED  BY <2>1, <2>6 DEF WritersCiteOnce
<1>2. ASSUME NEW w \in Writers, Cite(w)
      PROVE  WritersCiteOnce' /\ \A v \in Writers : Together(v)
  <2>0. UNCHANGED dropped
    BY <1>2 DEF Cite
  <2>1. /\ \A v \in Writers \ {w} : cited'[v] = cited[v] /\ read'[v] = read[v]
        /\ read'[w] = {}
        /\ \A k \in LinkTables : cited[w][k] = {}
    BY <1>2, CiteFacts
  <2>2. WritersCiteOnce'
    BY <2>1 DEF WritersCiteOnce
  <2>3. ASSUME NEW v \in Writers \ {w} PROVE Together(v)
    <3>1. \A k \in LinkTables : Linked(v, k)' = Linked(v, k)
      BY <1>2, CiteLinks
    <3> QED  BY <1>s, <2>0, <2>1, <3>1
  <2>4. Together(w)
    <3>1. \A k \in LinkTables : Linked(w, k) = {}
      BY <1>2, CiteLinks
    <3> QED  BY <1>2, <3>1, CiteLinks
  <2> QED  BY <2>2, <2>3, <2>4
<1>3. ASSUME \A r \in Runs : ~ResetCommit(r), \A w \in Writers : ~Cite(w)
      PROVE  WritersCiteOnce' /\ \A w \in Writers : Together(w)
  <2>1. /\ UNCHANGED cited
        /\ \A w \in Writers : read'[w] # {} =>
              read[w] # {} \/ \A k \in LinkTables : cited[w][k] = {}
    BY <1>3, LinksStep
  <2>2. WritersCiteOnce'
    BY <2>1 DEF WritersCiteOnce
  <2>3. ASSUME UNCHANGED dropped, \A w \in Writers, k \in LinkTables : Linked(w, k)' = Linked(w, k)
        PROVE  \A w \in Writers : Together(w)
    BY <1>s, <2>1, <2>3
  <2>4. ASSUME NEW v \in Writers, DeleteAssessment(v), NEW w \in Writers \ {v} PROVE Together(w)
    <3>1. (\A k \in LinkTables : Linked(w, k)' = Linked(w, k)) /\ dropped \subseteq dropped'
      BY <2>4, DeleteLinks
    <3> QED  BY <1>s, <2>1, <3>1
  <2>5. ASSUME NEW w \in Writers, DeleteAssessment(w) PROVE Together(w)
    <3>1. /\ \A k \in LinkTables :
               Linked(w, k)' = IF k = "research_assessment_evidence" THEN {} ELSE Linked(w, k)
          /\ w \in dropped'
      BY <2>5, DeleteLinks
    <3>2. CASE \A k \in LinkTables : Linked(w, k) = {}
      BY <3>1, <3>2
    <3>3. CASE \A k \in LinkTables \ {"research_assessment_evidence"} :
                 Linked(w, k) = Built(w, cited[w][k])
      BY <2>1, <3>1, <3>3
    <3> QED  BY <1>0, <3>2, <3>3
  <2> HIDE DEF Together
  <2> QED  BY <1>3, <2>2, <2>3, <2>4, <2>5, LinksStep
<1> QED  BY <1>1, <1>2, <1>3 DEF CitationsComeTogether

\* Who has met stays met.
LEMMA MetGrows ==
    ASSUME TypeOK, RunsMeetOrFollow, [Next]_vars, NEW q \in Runs
    PROVE  met[q] \subseteq met'[q]
<1>1. ASSUME NEW r \in Runs, Launch(r) PROVE met[q] \subseteq met'[q]
  <2>1. met[r] = {}
    BY <1>1 DEF Launch, RunsMeetOrFollow
  <2>2. met' = [p \in Runs |-> IF p = r THEN Alive
                               ELSE IF p \in Alive THEN met[p] \cup {r} ELSE met[p]]
    BY <1>1 DEF Launch
  <2> HIDE DEF Alive
  <2> QED  BY <2>1, <2>2
<1>2. CASE \A r \in Runs : ~Launch(r)
  BY <1>2, PcStep
<1> QED  BY <1>1, <1>2

\* Every step keeps duplicates to runs that met.
LEMMA OverlapStep ==
    ASSUME TypeOK, RunsKeepStep, RunsMeetOrFollow, WorkIsNew, DuplicatesNeedOverlap, [Next]_vars
    PROVE  DuplicatesNeedOverlap'
<1>0. \A c, d \in Claims : (c.paper = d.paper /\ c.run # d.run) => c.run \in met'[d.run]
  BY MetGrows, ClaimRows DEF DuplicatesNeedOverlap, Claims
<1>1. CASE Claims' \subseteq Claims
  BY <1>0, <1>1 DEF DuplicatesNeedOverlap, Claims
<1>2. ASSUME NEW r \in Runs, NEW S, pc[r] = "save", pc'[r] # "save",
             Claims' = Claims \cup New(r, S)
      PROVE  DuplicatesNeedOverlap'
  <2>1. \A c \in New(r, S) : c.run = r /\ c.paper = pass[r].paper
    BY DEF New
  <2>2. UNCHANGED met
    BY <1>2, SavingFacts
  <2>3. ASSUME NEW c \in Claims, c.paper = pass[r].paper
        PROVE  c.run \in met[r] /\ r \in met[c.run]
    <3>1. c.run \in Runs /\ c.run # r /\ c.run \notin prior[r]
      BY <2>3, SavingIsNew, ClaimRows
    <3>2. pc[c.run] \in {"work", "save", "end"}
      BY DEF WorkIsNew, Selected
    <3>3. r \in Alive
      BY <1>2 DEF Alive
    <3>4. c.run \in Alive \/ pc[c.run] = "end"
      BY <3>1, <3>2 DEF Alive
    <3>5. c.run \in met[r]
      BY <3>1, <3>3, <3>4 DEF RunsMeetOrFollow
    <3> QED  BY <3>1, <3>5 DEF RunsMeetOrFollow
  <2>4. \A c, d \in Claims' : (c.paper = d.paper /\ c.run # d.run) => c.run \in met'[d.run]
    <3> TAKE c, d \in Claims'
    <3>1. CASE c \in Claims /\ d \in Claims
      BY <1>0, <3>1
    <3>2. CASE c \in Claims /\ d \in New(r, S)
      BY <2>1, <2>2, <2>3, <3>2
    <3>3. CASE c \in New(r, S) /\ d \in Claims
      BY <2>1, <2>2, <2>3, <3>3
    <3>4. CASE c \in New(r, S) /\ d \in New(r, S)
      BY <2>1, <3>4
    <3> QED  BY <1>2, <3>1, <3>2, <3>3, <3>4
  <2> QED  BY <2>4 DEF DuplicatesNeedOverlap, Claims
<1>3. ASSUME NEW r \in Runs, ResetCommit(r) PROVE Claims' \subseteq Claims
  BY <1>3, CommitResetFacts, TableNames DEF Claims
<1>4. ASSUME \A r \in Runs : ~ResetCommit(r) PROVE DuplicatesNeedOverlap'
  BY <1>1, <1>2, <1>4, ClaimsStep
<1> QED  BY <1>1, <1>3, <1>4

-----------------------------------------------------------------------------
(* A forced run.                                                           *)

\* How a run that is not being started moves.
LEMMA Moves ==
    ASSUME TypeOK, RunsKeepStep, [Next]_vars, NEW r \in Runs, ~Launch(r)
    PROVE  /\ pc'[r] = "insert" => pc[r] = "insert" \/ ResetCommit(r)
           /\ r \in forced' <=> r \in forced
           /\ ledger'[r] # "none" => ledger[r] # "none" \/ pc[r] = "insert"
           /\ ledger'[r] = "completed" =>
                ledger[r] = "completed" \/ (pc[r] = "work" /\ todo[r] = {})
           /\ r \notin limited' => r \notin limited
<1> USE DEF writing, history
<1> DEFINE goal == /\ pc'[r] = "insert" => pc[r] = "insert" \/ ResetCommit(r)
                   /\ r \in forced' <=> r \in forced
                   /\ ledger'[r] # "none" => ledger[r] # "none" \/ pc[r] = "insert"
                   /\ ledger'[r] = "completed" =>
                        ledger[r] = "completed" \/ (pc[r] = "work" /\ todo[r] = {})
                   /\ r \notin limited' => r \notin limited
<1>1. ASSUME NEW x \in Runs \ {r},
             \/ Launch(x) \/ ResetStatement(x) \/ ResetCommit(x) \/ InsertRun(x) \/ Select(x)
             \/ Process(x) \/ CommitPaper(x) \/ Complete(x) \/ Fail(x) \/ Kill(x)
      PROVE  goal
  <2>1. /\ pc'[r] = pc[r] /\ ledger'[r] = ledger[r]
        /\ r \in forced' <=> r \in forced
        /\ r \in limited' <=> r \in limited
    BY <1>1, OthersGoOn
  <2> QED  BY <2>1
<1>2. CASE ResetStatement(r)
  BY <1>2, LeaveFacts DEF ResetStatement, TypeOK
<1>3. CASE ResetCommit(r)
  BY <1>3, CommitResetFacts
<1>4. CASE InsertRun(r) \/ Select(r) \/ Process(r) \/ CommitPaper(r)
  BY <1>4 DEF InsertRun, Select, Process, CommitPaper, TypeOK
<1>5. CASE Complete(r)
  BY <1>5, LeaveFacts DEF Complete, TypeOK, RunsKeepStep
<1>6. CASE Fail(r)
  BY <1>6, LeaveFacts DEF Fail, TypeOK, RunsKeepStep
<1>7. CASE Kill(r)
  BY <1>7, LeaveFacts DEF Kill, TypeOK
<1>8. ASSUME Aside
      PROVE  goal
  <2>1. UNCHANGED <<pc, ledger, forced, limited>>
    BY <1>8, AsideFacts
  <2> QED  BY <2>1
<1> QED  BY <1>1, <1>2, <1>3, <1>4, <1>5, <1>6, <1>7, <1>8 DEF Next, Aside

\* Claims of runs that have ended do not appear any more.
LEMMA OldClaims ==
    ASSUME TypeOK, RunsKeepStep, RunsMeetOrFollow, [Next]_vars,
           NEW r \in Runs, NEW c \in Claims', c.run \in prior[r]
    PROVE  c \in Claims
<1>1. ASSUME NEW x \in Runs, ResetCommit(x) PROVE c \in Claims
  BY <1>1, CommitResetFacts, TableNames DEF Claims
<1>2. ASSUME NEW x \in Runs, NEW S, pc[x] = "save", c \in New(x, S) PROVE FALSE
  BY <1>2 DEF New, RunsMeetOrFollow
<1>3. ASSUME \A x \in Runs : ~ResetCommit(x) PROVE c \in Claims
  BY <1>2, <1>3, ClaimsStep
<1> QED  BY <1>1, <1>3

\* A pass that is done stays done.
LEMMA PassesGrow ==
    ASSUME TypeOK, RunsKeepStep, [Next]_vars
    PROVE  passes \subseteq passes'
<1>1. ASSUME NEW x \in Runs, ResetCommit(x) PROVE passes \subseteq passes'
  BY <1>1, CommitResetFacts
<1>2. ASSUME \A x \in Runs : ~ResetCommit(x) PROVE passes \subseteq passes'
  BY <1>2, ClaimsStep
<1> QED  BY <1>1, <1>2

\* What a forced run that meets nobody has before it and behind it.
LEMMA CorpusStep ==
    ASSUME TypeOK, RunsKeepStep, ResetsStayApart, RunsMeetOrFollow, WorkIsNew, ForcedRunsAreAhead,
           ForceStartsOver, [Next]_vars,
           NEW r \in Runs, ~Launch(r), r \in forced,
           pc'[r] \in {"work", "save"}, r \notin limited', met'[r] = {}, NEW p \in Papers
    PROVE  Due(r, p)' \/ \E done \in passes' : done.run = r /\ done.paper = p
<1> USE DEF writing, history
<1>1. met[r] = {} /\ r \notin limited /\ passes \subseteq passes'
  BY MetGrows, Moves, PassesGrow
<1>2. pc[r] \in {"work", "save"} =>
        Due(r, p) \/ \E done \in passes' : done.run = r /\ done.paper = p
  BY <1>1 DEF ForcedRunsAreAhead
<1>3. CASE Select(r)
  <2>1. pc[r] = "select" /\ ledger[r] # "none"
    BY <1>3 DEF Select, RunsKeepStep
  <2>2. \A c \in Claims : c.run \notin prior[r]
    BY <2>1 DEF ForceStartsOver
  <2>3. ASSUME NEW c \in Claims PROVE FALSE
    <3>1. c.run \in Runs /\ c.run # r
      BY <2>1, ClaimRows DEF WorkIsNew, Selected
    <3>2. pc[c.run] \in {"work", "save", "end"}
      BY DEF WorkIsNew, Selected
    <3>3. r \in Alive /\ (c.run \in Alive \/ pc[c.run] = "end")
      BY <2>1, <3>1, <3>2 DEF Alive
    <3>4. c.run \in met[r] \cup prior[r]
      BY <3>1, <3>3 DEF RunsMeetOrFollow
    <3> QED  BY <1>1, <2>2, <3>4
  <2>4. PICK chosen \in SUBSET (Papers \ {c.paper : c \in Claims}) :
          /\ todo' = [todo EXCEPT ![r] = chosen]
          /\ limited' = IF chosen = Papers \ {c.paper : c \in Claims}
                        THEN limited ELSE limited \cup {r}
    BY <1>3 DEF Select, Claims
  <2>5. chosen = Papers \ {c.paper : c \in Claims}
    BY <2>4
  <2>6. p \in chosen
    BY <2>3, <2>5
  <2>7. todo'[r] = chosen
    BY <2>4 DEF TypeOK
  <2> QED  BY <2>6, <2>7 DEF Due
<1>4. CASE Process(r)
  <2>1. PICK x \in todo[r] : pass'[r].paper = x /\ todo' = [todo EXCEPT ![r] = @ \ {x}]
    BY <1>4, ProcessType
  <2>2. todo'[r] = todo[r] \ {x}
    BY <2>1 DEF TypeOK
  <2>3. pc[r] = "work" /\ pass[r] = NoPass
    BY <1>4 DEF Process, RunsKeepStep
  <2>4. Due(r, p) => p \in todo[r]
    BY <2>3, NoneAssumption DEF Due, NoPass
  <2> QED  BY <1>2, <2>1, <2>2, <2>3, <2>4 DEF Due
<1>5. CASE CommitPaper(r)
  <2>1. pc[r] = "save" /\ UNCHANGED todo
    BY <1>5 DEF CommitPaper
  <2>2. [run |-> r, paper |-> pass[r].paper, accepted |-> pass[r].accepted] \in passes'
    BY <1>5 DEF CommitPaper
  <2>3. CASE p = pass[r].paper
    BY <2>2, <2>3
  <2>4. CASE p # pass[r].paper
    BY <1>2, <2>1, <2>4 DEF Due
  <2> QED  BY <2>3, <2>4
<1>6. CASE pc'[r] = pc[r] /\ todo'[r] = todo[r] /\ pass'[r] = pass[r]
  BY <1>2, <1>6 DEF Due
<1>7. ASSUME NEW x \in Runs \ {r},
             \/ Launch(x) \/ ResetStatement(x) \/ ResetCommit(x) \/ InsertRun(x) \/ Select(x)
             \/ Process(x) \/ CommitPaper(x) \/ Complete(x) \/ Fail(x) \/ Kill(x)
      PROVE  pc'[r] = pc[r] /\ todo'[r] = todo[r] /\ pass'[r] = pass[r]
  BY <1>7, OthersGoOn
<1>8. ~ResetCommit(r) /\ ~InsertRun(r) /\ ~Leave(r)
  <2>1. ~Leave(r)
    BY LeaveFacts
  <2>2. ~ResetCommit(r) /\ ~InsertRun(r)
    BY DEF ResetCommit, InsertRun, TypeOK
  <2> QED  BY <2>1, <2>2
<1>9. ~ResetStatement(r) /\ ~Complete(r) /\ ~Fail(r) /\ ~Kill(r)
  <2>1. ResetStatement(r) => pc[r] = "reset" /\ UNCHANGED pc
    BY <1>8, StatementFacts
  <2>2. ~ResetStatement(r)
    BY <2>1
  <2> QED  BY <1>8, <2>2 DEF Complete, Fail, Kill
<1>10. ASSUME Aside
       PROVE  pc'[r] = pc[r] /\ todo'[r] = todo[r] /\ pass'[r] = pass[r]
  BY <1>10, AsideFacts
<1> QED  BY <1>3, <1>4, <1>5, <1>6, <1>7, <1>8, <1>9, <1>10 DEF Next, Aside

\* Every step keeps a forced run's promise.
LEMMA AheadStep ==
    ASSUME TypeOK, RunsKeepStep, ResetsStayApart, RunsMeetOrFollow, WorkIsNew, ForcedRunsAreAhead,
           ForceStartsOver, [Next]_vars
    PROVE  ForcedRunsAreAhead' /\ ForceStartsOver'
<1>0. TypeOK' /\ RunsKeepStep'
  BY TypeStep, CourseStep
<1> DEFINE Ahead(r) ==
             /\ (pc'[r] = "reset" /\ step'[r] > 4) =>
                  \A c \in Claims' : c.run \in prior'[r] => c \in doomed'[r]["extracted_claims"]
             /\ pc'[r] = "insert" => \A c \in Claims' : c.run \notin prior'[r]
             /\ (pc'[r] \in {"work", "save"} /\ r \notin limited' /\ met'[r] = {}) =>
                  \A p \in Papers : Due(r, p)' \/ \E d \in passes' : d.run = r /\ d.paper = p
           Over(r) ==
             /\ ledger'[r] # "none" => \A c \in Claims' : c.run \notin prior'[r]
             /\ (ledger'[r] = "completed" /\ r \notin limited' /\ met'[r] = {}) =>
                  \A p \in Papers : \E d \in passes' : d.run = r /\ d.paper = p
<1> SUFFICES ASSUME NEW r \in Runs, r \in forced' PROVE Ahead(r) /\ Over(r)
  <2>1. forced' \subseteq Runs
    BY <1>0 DEF TypeOK
  <2> QED  BY <1>0, <2>1, SweptPlacesNext DEF ForcedRunsAreAhead, ForceStartsOver
<1>1. CASE Launch(r)
  <2>1. pc[r] = "off" /\ UNCHANGED <<step, ledger>>
    BY <1>1 DEF Launch
  <2>2. r \notin forced /\ ledger'[r] = "none" /\ step'[r] = 1
    BY <2>1 DEF RunsKeepStep, ResetsStayApart
  <2>3. pc'[r] = "reset"
    BY <1>1, <2>2 DEF Launch, TypeOK
  <2> QED  BY <2>2, <2>3
<1>2. CASE ~Launch(r)
  <2>1. prior'[r] = prior[r] /\ r \in forced
    BY <1>2, PriorStep, Moves
  <2>2. \A c \in Claims' : c.run \in prior'[r] => c \in Claims
    BY <2>1, OldClaims
  <2>3. pc[r] = "insert" => \A c \in Claims' : c.run \notin prior'[r]
    BY <2>1, <2>2 DEF ForcedRunsAreAhead
  <2>4. step[r] \in 1 .. 7 /\ step'[r] \in 1 .. 7
    BY <1>0, ResetPlaces DEF TypeOK
  <2>5. (pc[r] = "reset" /\ step[r] > 4) =>
           \A c \in Claims : c.run \in prior[r] => c \in doomed[r]["extracted_claims"]
    BY <2>1, SweptPlaces DEF ForcedRunsAreAhead
  <2>6. ASSUME pc'[r] = "reset", step'[r] > 4, NEW c \in Claims', c.run \in prior'[r]
        PROVE  c \in doomed'[r]["extracted_claims"]
    <3>1. c \in Claims /\ c.run \in prior[r]
      BY <2>1, <2>2, <2>6
    <3>2. CASE pc[r] = "reset" /\ step'[r] = step[r] /\ doomed'[r] = doomed[r]
      BY <2>5, <2>6, <3>1, <3>2
    <3>3. CASE ResetStatement(r)
      <4> DEFINE s == ResetOrder[step[r]]
      <4>1. ~Leave(r)
        BY <2>6, LeaveFacts
      <4>2. /\ pc[r] = "reset" /\ step[r] \in 1 .. 6 /\ s \in Tables
            /\ step' = [step EXCEPT ![r] = @ + 1]
            /\ doomed'[r][s] = table[s]
            /\ \A k \in Tables \ {s} : doomed'[r][k] = doomed[r][k]
        BY <3>3, <4>1, StatementFacts
      <4>3. step'[r] = step[r] + 1
        BY <4>2 DEF TypeOK
      <4>4. s = "extracted_claims" <=> step[r] = 4
        BY <4>2, ResetPlaces
      <4> HIDE DEF s
      <4>5. CASE step[r] = 4
        BY <3>1, <4>2, <4>4, <4>5 DEF Claims
      <4>6. CASE step[r] > 4
        <5>1. doomed'[r]["extracted_claims"] = doomed[r]["extracted_claims"]
          BY <4>2, <4>4, <4>6, TableNames
        <5> QED  BY <2>5, <3>1, <4>2, <4>6, <5>1
      <4> QED  BY <2>4, <2>6, <4>3, <4>5, <4>6
    <3>4. ASSUME NEW x \in Runs \ {r}, ResetStatement(x) \/ ResetCommit(x)
          PROVE  pc'[r] = pc[r] /\ step'[r] = step[r] /\ doomed'[r] = doomed[r]
      BY <3>4, OthersGoOn
    <3>5. ~ResetCommit(r)
      BY <2>6, CommitResetFacts
    <3>6. ASSUME \A x \in Runs : ~ResetStatement(x) /\ ~ResetCommit(x)
          PROVE  pc[r] = "reset" /\ step'[r] = step[r] /\ doomed'[r] = doomed[r]
      <4>1. step'[r] # 1
        BY <2>4, <2>6
      <4>2. step'[r] = step[r] /\ doomed'[r] = doomed[r]
        BY <3>6, <4>1, QuietForResets
      <4> QED  BY <4>1, <4>2 DEF ResetsStayApart
    <3> QED  BY <2>6, <3>2, <3>3, <3>4, <3>5, <3>6
  <2>7. ASSUME pc'[r] = "insert", NEW c \in Claims', c.run \in prior'[r] PROVE FALSE
    <3>1. CASE pc[r] = "insert"
      BY <2>3, <2>7, <3>1
    <3>2. CASE ResetCommit(r)
      <4>1. pc[r] = "reset" /\ step[r] > 6
        BY <3>2, CommitResetFacts
      <4>2. c \in doomed[r]["extracted_claims"]
        BY <2>1, <2>2, <2>4, <2>5, <2>7, <4>1
      <4>3. Claims' = Claims \ doomed[r]["extracted_claims"]
        BY <3>2, CommitResetFacts, TableNames DEF Claims
      <4> QED  BY <2>7, <4>2, <4>3
    <3> QED  BY <1>2, <2>7, <3>1, <3>2, Moves
  <2>8. ASSUME pc'[r] \in {"work", "save"}, r \notin limited', met'[r] = {}, NEW p \in Papers
        PROVE  Due(r, p)' \/ \E d \in passes' : d.run = r /\ d.paper = p
    BY <1>2, <2>1, <2>8, CorpusStep
  <2>9. Ahead(r)
    BY <2>6, <2>7, <2>8
  <2>10. ASSUME ledger'[r] # "none" PROVE \A c \in Claims' : c.run \notin prior'[r]
    <3>1. CASE pc[r] = "insert"
      BY <2>3, <3>1
    <3>2. CASE ledger[r] # "none"
      BY <2>1, <2>2, <3>2 DEF ForceStartsOver
    <3> QED  BY <1>2, <2>10, <3>1, <3>2, Moves
  <2>11. ASSUME ledger'[r] = "completed", r \notin limited', met'[r] = {}, NEW p \in Papers
         PROVE  \E d \in passes' : d.run = r /\ d.paper = p
    <3>1. met[r] = {} /\ r \notin limited /\ passes \subseteq passes'
      BY <1>2, <2>11, MetGrows, Moves, PassesGrow
    <3>2. CASE ledger[r] = "completed"
      BY <2>1, <3>1, <3>2 DEF ForceStartsOver
    <3>3. CASE pc[r] = "work" /\ todo[r] = {}
      <4>1. ~Due(r, p)
        BY <3>3, NoneAssumption DEF Due, NoPass, RunsKeepStep
      <4>2. \E d \in passes : d.run = r /\ d.paper = p
        BY <2>1, <3>1, <3>3, <4>1 DEF ForcedRunsAreAhead
      <4> QED  BY <3>1, <4>2
    <3> QED  BY <1>2, <2>11, <3>2, <3>3, Moves
  <2> QED  BY <2>9, <2>10, <2>11
<1> QED  BY <1>1, <1>2

-----------------------------------------------------------------------------
(* The invariant.                                                          *)

\* The invariant holds at the start.
LEMMA InitIInv == Init => IInv
<1> SUFFICES ASSUME Init PROVE IInv
  OBVIOUS
<1>1. TypeOK
  BY InitType
<1>2. /\ \A k \in Tables : table[k] = {}
      /\ \A r \in Runs : /\ pc[r] = "off" /\ step[r] = 1 /\ doomed[r] = Empty /\ todo[r] = {}
                         /\ pass[r] = NoPass /\ ledger[r] = "none"
                         /\ met[r] = {} /\ prior[r] = {}
      /\ forced = {} /\ passes = {}
      /\ \A w \in Writers : read[w] = {}
  BY DEF Init, Empty
<1>3. Claims = {} /\ table["evidence"] = {} /\ \A k \in Tables : Empty[k] = {}
  BY <1>2, TableNames DEF Claims, Empty
<1>4. ResetsStayApart
  BY <1>2, <1>3 DEF ResetsStayApart
<1>5. SweepsAreComplete
  BY <1>2 DEF SweepsAreComplete, Swept
<1>6. RunsMeetOrFollow
  BY <1>2 DEF RunsMeetOrFollow, Alive
<1>7. RunsKeepStep
  BY <1>2 DEF RunsKeepStep
<1>8. WorkIsNew /\ DuplicatesNeedOverlap /\ EvidenceHasItsClaim
  BY <1>2, <1>3 DEF WorkIsNew, DuplicatesNeedOverlap, EvidenceHasItsClaim
<1>9. ForcedRunsAreAhead /\ ForceStartsOver /\ WritersCiteOnce
  BY <1>2 DEF ForcedRunsAreAhead, ForceStartsOver, WritersCiteOnce
<1>10. PapersAreWhole
  BY <1>3 DEF PapersAreWhole, EvidenceOf
<1>11. CitationsComeTogether
  BY <1>2, TableNames DEF CitationsComeTogether, Linked, LinksOf
<1> QED  BY <1>1, <1>4, <1>5, <1>6, <1>7, <1>8, <1>9, <1>10, <1>11 DEF IInv

\* Every step keeps the invariant.
LEMMA NextIInv == IInv /\ [Next]_vars => IInv'
<1> SUFFICES ASSUME IInv, [Next]_vars PROVE IInv'
  OBVIOUS
<1>1. /\ TypeOK /\ ResetsStayApart /\ SweepsAreComplete /\ RunsMeetOrFollow /\ RunsKeepStep
      /\ WorkIsNew /\ ForcedRunsAreAhead /\ WritersCiteOnce /\ EvidenceHasItsClaim
      /\ PapersAreWhole /\ DuplicatesNeedOverlap /\ ForceStartsOver /\ CitationsComeTogether
  BY DEF IInv
<1>2. TypeOK' /\ RunsKeepStep' /\ ResetsStayApart'
  BY <1>1, TypeStep, CourseStep, ApartStep
<1>3. SweepsAreComplete'
  BY <1>1, SweepsStep
<1>4. RunsMeetOrFollow' /\ WorkIsNew'
  BY <1>1, MeetStep, WorkStep
<1>5. ForcedRunsAreAhead' /\ ForceStartsOver'
  BY <1>1, AheadStep
<1>6. WritersCiteOnce' /\ CitationsComeTogether'
  BY <1>1, CitationsStep
<1>7. EvidenceHasItsClaim'
  BY <1>1, EvidenceStep
<1>8. PapersAreWhole'
  BY <1>1, PapersStep
<1>9. DuplicatesNeedOverlap'
  BY <1>1, OverlapStep
<1> QED  BY <1>2, <1>3, <1>4, <1>5, <1>6, <1>7, <1>8, <1>9 DEF IInv

\* The invariant holds in every state the program can reach.
THEOREM Inductive == Spec => []IInv
<1>1. Init => IInv
  BY InitIInv
<1>2. IInv /\ [Next]_vars => IInv'
  BY NextIInv
<1> QED  BY <1>1, <1>2, PTL DEF Spec

\* Every variable keeps its type, whatever the processes, the reviews and the
\* writers do.
THEOREM TypeCorrect == Spec => []TypeOK
<1>1. IInv => TypeOK
  BY DEF IInv
<1> QED  BY <1>1, Inductive, PTL

\* A claim has its evidence, and evidence that has no claim lost it to a
\* revalidation: no reset that has run into the commits of other runs or into a
\* revalidation takes one without the other.
THEOREM EvidencePaired == Spec => []EvidenceHasItsClaim
<1>1. IInv => EvidenceHasItsClaim
  BY DEF IInv
<1> QED  BY <1>1, Inductive, PTL

\* The evidence of a pass over a paper is all there or all gone, unless the run
\* failed on that paper.
THEOREM PapersWhole == Spec => []PapersAreWhole
<1>1. IInv => PapersAreWhole
  BY DEF IInv
<1> QED  BY <1>1, Inductive, PTL

\* A paper has claims of two runs only if both processes were alive at once.
THEOREM OverlapNeeded == Spec => []DuplicatesNeedOverlap
<1>1. IInv => DuplicatesNeedOverlap
  BY DEF IInv
<1> QED  BY <1>1, Inductive, PTL

\* A forced run that is recorded has nothing of an earlier run left, and if it
\* completes alone and without --limit it has been over every paper.
THEOREM ForcedFromScratch == Spec => []ForceStartsOver
<1>1. IInv => ForceStartsOver
  BY DEF IInv
<1> QED  BY <1>1, Inductive, PTL

\* What the save of a gap or the build of an assessment linked is there in every
\* table or in none; deleting the assessment leaves the links of its claim, whole.
THEOREM CitationsTogether == Spec => []CitationsComeTogether
<1>1. IInv => CitationsComeTogether
  BY DEF IInv
<1> QED  BY <1>1, Inductive, PTL
=============================================================================
