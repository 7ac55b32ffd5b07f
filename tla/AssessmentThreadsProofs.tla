------------------------ MODULE AssessmentThreadsProofs ------------------------
(***************************************************************************)
(* Proofs about the requests on the reports of one research input, for any *)
(* number of requests, reports and pieces of evidence.                     *)
(***************************************************************************)
EXTENDS AssessmentThreads, TLAPS

-----------------------------------------------------------------------------
(* Links and idle transactions *)

\* The links of a report are the pairs of it and what is cited.
LEMMA LinksOfMember ==
    ASSUME NEW a, NEW S, NEW l
    PROVE  l \in LinksOf(a, S) <=> \E e \in S : l = <<a, e>>
BY DEF LinksOf

LEMMA LinksOfPairs ==
    ASSUME NEW a \in Reports, NEW S \in SUBSET (Evidence \cup {None})
    PROVE  LinksOf(a, S) \subseteq Pairs /\ \A l \in LinksOf(a, S) : l[1] = a
BY DEF LinksOf, Pairs

LEMMA LinksOfNothing ==
    ASSUME NEW a, NEW S, S # {}
    PROVE  LinksOf(a, S) # {}
<1>1. PICK e \in S : TRUE
    OBVIOUS
<1>2. <<a, e>> \in LinksOf(a, S)
    BY LinksOfMember
<1> QED
    BY <1>2

\* An idle transaction holds nothing and is in nobody's way.
LEMMA IdleIsHarmless ==
    /\ Idle \in Transactions
    /\ Sound(Idle)
    /\ Sweeps(Idle)
    /\ ~OnReport(Idle)
    /\ \A t \in Transactions : Sound(t) => Apart(t, Idle) /\ Apart(Idle, t)
<1>1. Idle \in Transactions
    BY DEF Idle, Transactions, Stages
<1>2. Sound(Idle)
    BY DEF Idle, Sound, OnNew, OnReport, Writing
<1>3. Sweeps(Idle) /\ ~OnReport(Idle)
    BY DEF Idle, Sweeps, OnReport, Writing
<1>4. ASSUME NEW t \in Transactions, Sound(t)
      PROVE  Apart(t, Idle) /\ Apart(Idle, t)
    BY <1>4, NoneAssumption DEF Idle, Sound, Apart, OnNew
<1> QED
    BY <1>1, <1>2, <1>3, <1>4

-----------------------------------------------------------------------------
(* Steps of one transaction that change no table *)

\* What must be known of the transaction as the step leaves it.
LEMMA LocalInvariant ==
    ASSUME IInv, NEW r \in Requests, NEW t \in Transactions,
           Sound(t),
           \A q \in Requests : q # r => Apart(t, tx[q]) /\ Apart(tx[q], t),
           r \in alone' \/ (t.locked /\ t.a \notin doubt) => Sweeps(t),
           OnReport(t) => OnReport(tx[r]) /\ t.a = tx[r].a /\ t.seen = tx[r].seen,
           r \in alone' => OnReport(t),
           alone' \subseteq alone,
           tx' = [tx EXCEPT ![r] = t],
           UNCHANGED <<database, doubt>>
    PROVE  IInv'
<1>1. /\ tx' \in [Requests -> Transactions]
      /\ tx'[r] = t
      /\ \A q \in Requests : q # r => tx'[q] = tx[q]
    BY DEF IInv, TypeOK
<1>2. /\ input' = input /\ opps' = opps /\ links' = links /\ kept' = kept
      /\ project' = project /\ member' = member /\ doubt' = doubt
    BY DEF database
<1>3. TypeOK'
    BY <1>1, <1>2 DEF IInv, TypeOK
<1>4. RowsRefer'
    BY <1>2 DEF IInv, RowsRefer
<1>5. ASSUME NEW q \in Requests
      PROVE  Sound(tx[q])'
    <2>1. Sound(tx'[q])
        BY <1>1 DEF IInv
    <2> QED
        BY <2>1, <1>2 DEF Sound
<1>6. ASSUME NEW p \in Requests, NEW q \in Requests, p # q
      PROVE  Apart(tx[p], tx[q])'
    <2>1. Apart(tx'[p], tx'[q])
        BY <1>1, <1>6 DEF IInv
    <2> QED
        BY <2>1 DEF Apart
<1>7. ASSUME NEW q \in Requests, q \in alone' \/ (tx'[q].locked /\ tx'[q].a \notin doubt')
      PROVE  Sweeps(tx[q])'
    <2>1. Sweeps(tx'[q])
        BY <1>1, <1>2, <1>7 DEF IInv
    <2> QED
        BY <2>1, <1>2 DEF Sweeps
<1>8. AloneIsAlone'
    <2> SUFFICES ASSUME NEW q \in alone'
                 PROVE  /\ OnReport(tx'[q])
                        /\ \A p \in Requests : OnReport(tx'[p]) /\ tx'[p].a = tx'[q].a => p = q
                        /\ tx'[q].a \in DOMAIN opps => tx'[q].seen = opps[tx'[q].a]
        BY <1>2 DEF AloneIsAlone, OnReport, Writing
    <2>1. q \in Requests /\ q \in alone
        BY DEF IInv, TypeOK
    <2>2. OnReport(tx'[q])
        BY <1>1, <2>1 DEF IInv, AloneIsAlone
    <2>3. \A p \in Requests : OnReport(tx'[p]) => OnReport(tx[p]) /\ tx'[p].a = tx[p].a /\ tx'[p].seen = tx[p].seen
        BY <1>1
    <2> QED
        BY <2>1, <2>2, <2>3 DEF IInv, AloneIsAlone
<1>9. LinksFollowOpportunities'
    BY <1>2 DEF IInv, LinksFollowOpportunities
<1> QED
    BY <1>3, <1>4, <1>5, <1>6, <1>7, <1>8, <1>9 DEF IInv

\* A transaction that rolls back leaves everything as it was.
LEMMA AbortInvariant ==
    ASSUME IInv, NEW r \in Requests, Abort(r)
    PROVE  IInv'
<1>1. \A q \in Requests : Apart(Idle, tx[q]) /\ Apart(tx[q], Idle)
    BY IdleIsHarmless DEF IInv, TypeOK
<1>2. tx' = [tx EXCEPT ![r] = Idle] /\ alone' = alone \ {r} /\ UNCHANGED <<database, doubt>>
    BY DEF Abort, Set
<1> QED
    BY <1>1, <1>2, IdleIsHarmless, LocalInvariant

\* One that goes on is as sound as before.
LEMMA StepInvariant ==
    ASSUME IInv, NEW r \in Requests, NEW t \in Transactions,
           Sound(t),
           \A q \in Requests : q # r => Apart(t, tx[q]) /\ Apart(tx[q], t),
           r \in alone \/ (t.locked /\ t.a \notin doubt) => Sweeps(t),
           OnReport(t) <=> OnReport(tx[r]),
           OnReport(t) => t.a = tx[r].a /\ t.seen = tx[r].seen,
           Step(r, t)
    PROVE  IInv'
<1>1. tx' = [tx EXCEPT ![r] = t] /\ alone' = alone /\ UNCHANGED <<database, doubt>>
    BY DEF Step, Set, history
<1>2. r \in alone => OnReport(tx[r])
    BY DEF IInv, AloneIsAlone
<1> QED
    BY <1>1, <1>2, LocalInvariant

\* What an action may use of its transaction.
LEMMA Known ==
    ASSUME IInv, NEW r \in Requests
    PROVE  /\ tx[r] \in Transactions /\ Sound(tx[r])
           /\ \A q \in Requests : /\ tx[q] \in Transactions /\ Sound(tx[q])
                                  /\ q # r => Apart(tx[r], tx[q]) /\ Apart(tx[q], tx[r])
           /\ r \in alone => OnReport(tx[r])
           /\ r \in alone \/ (tx[r].locked /\ tx[r].a \notin doubt) => Sweeps(tx[r])
           /\ RowsRefer
           /\ TypeOK
BY DEF IInv, TypeOK, AloneIsAlone

LEMMA TablesKnown ==
    ASSUME IInv
    PROVE  links \in SUBSET Pairs /\ DOMAIN opps \in SUBSET Reports
BY DEF IInv, TypeOK

\* A report that is to be is nobody's yet.
LEMMA NewIsFree ==
    ASSUME IInv, NEW a \in New
    PROVE  /\ a \in Reports /\ a \notin DOMAIN opps
           /\ \A q \in Requests : tx[q].a # a
BY DEF New

LEMMA StartInvariant ==
    ASSUME IInv, NEW r \in Requests, NEW pc \in {"create", "build"}, NEW a \in New,
           tx[r].pc \in {"idle", "listed"},
           pc = "create" => input = "none" /\ \A q \in Requests : tx[q].pc # "create",
           pc = "build" => input # "none",
           Step(r, [Idle EXCEPT !.pc = pc, !.a = a])
    PROVE  IInv'
<1> DEFINE t == [Idle EXCEPT !.pc = pc, !.a = a]
<1>1. /\ t \in Transactions /\ ~OnReport(t) /\ Sweeps(t)
    BY DEF New, Idle, Transactions, Stages, OnReport, Writing, Sweeps
<1>2. Sound(t)
    BY NewIsFree DEF Sound, Idle, OnNew, OnReport, Writing
<1>3. ASSUME NEW q \in Requests, q # r
      PROVE  Apart(t, tx[q]) /\ Apart(tx[q], t)
    <2>1. Apart(t, tx[q])
        BY NewIsFree DEF Apart, Idle, OnNew
    <2>2. Apart(tx[q], t)
        BY NewIsFree DEF Apart, Idle, OnNew
    <2> QED
        BY <2>1, <2>2
<1>4. ~OnReport(tx[r])
    BY DEF OnReport, Writing
<1> QED
    BY <1>1, <1>2, <1>3, <1>4, StepInvariant

LEMMA CreateInvariant == ASSUME IInv, NEW r \in Requests, Create(r) PROVE IInv'
BY StartInvariant DEF Create

LEMMA RerunInvariant == ASSUME IInv, NEW r \in Requests, Rerun(r) PROVE IInv'
BY Known, StartInvariant DEF Rerun, RowsRefer

LEMMA RefreshNextInvariant == ASSUME IInv, NEW r \in Requests, RefreshNext(r) PROVE IInv'
BY StartInvariant, AbortInvariant DEF RefreshNext

\* A request that has only begun.
LEMMA BeginInvariant ==
    ASSUME IInv, NEW r \in Requests, NEW pc \in {"listed", "unlink", "join"}, tx[r].pc = "idle",
           input # "none",
           Step(r, [Idle EXCEPT !.pc = pc])
    PROVE  IInv'
<1> DEFINE t == [Idle EXCEPT !.pc = pc]
<1>1. /\ t \in Transactions /\ ~OnReport(t) /\ Sweeps(t) /\ Sound(t)
    BY DEF Idle, Transactions, Stages, OnReport, Writing, Sweeps, Sound, OnNew
<1>2. ASSUME NEW q \in Requests, q # r
      PROVE  Apart(t, tx[q]) /\ Apart(tx[q], t)
    BY Known, NoneAssumption DEF Idle, Sound, Apart, OnNew
<1>3. ~OnReport(tx[r])
    BY DEF OnReport, Writing
<1> QED
    BY <1>1, <1>2, <1>3, StepInvariant

LEMMA BeginningsInvariant ==
    ASSUME IInv, NEW r \in Requests, Refresh(r) \/ Delete(r) \/ Join(r)
    PROVE  IInv'
BY Known, BeginInvariant DEF Refresh, Delete, Join, RowsRefer

\* The flush of a new report, or of a membership, finds the input and keeps it.
LEMMA EnterInvariant ==
    ASSUME IInv, NEW r \in Requests, NEW pc \in {"inserted", "joined"},
           pc = "inserted" => tx[r].pc = "build",
           pc = "joined" => tx[r].pc = "join",
           input = "here",
           \A q \in Requests : q # r => tx[q].pc # "dropped",
           Step(r, [tx[r] EXCEPT !.pc = pc])
    PROVE  IInv'
<1> DEFINE t == [tx[r] EXCEPT !.pc = pc]
<1>1. /\ t \in Transactions /\ ~OnReport(t) /\ Sweeps(t) /\ ~OnReport(tx[r])
    BY Known DEF Transactions, Stages, OnReport, Writing, Sweeps
<1>2. Sound(t)
    BY Known DEF Sound, Transactions, OnNew, OnReport, Writing
<1>3. ASSUME NEW q \in Requests, q # r
      PROVE  Apart(t, tx[q]) /\ Apart(tx[q], t)
    BY <1>3, Known DEF Sound, Apart, OnNew, Transactions
<1> QED
    BY <1>1, <1>2, <1>3, StepInvariant

LEMMA RerunInsertInvariant == ASSUME IInv, NEW r \in Requests, RerunInsert(r) PROVE IInv'
<1>1. CASE input = "here"
    <2>1. \A q \in Requests : q # r => tx[q].pc # "dropped"
        BY DEF RerunInsert, Waits, WaitsFor
    <2> QED
        BY <1>1, <2>1, EnterInvariant DEF RerunInsert
<1> QED
    BY <1>1, AbortInvariant DEF RerunInsert

LEMMA JoinInsertInvariant == ASSUME IInv, NEW r \in Requests, JoinInsert(r) PROVE IInv'
<1>1. CASE project = "here" /\ input = "here" /\ ~member
    <2>1. \A q \in Requests : q # r => tx[q].pc # "dropped"
        BY DEF JoinInsert, Waits, WaitsFor
    <2> QED
        BY <1>1, <2>1, EnterInvariant DEF JoinInsert
<1> QED
    BY <1>1, AbortInvariant DEF JoinInsert

-----------------------------------------------------------------------------
(* The statements of a deletion *)

LEMMA DeleteLinksInvariant == ASSUME IInv, NEW r \in Requests, DeleteLinks(r) PROVE IInv'
<1> DEFINE t == [tx[r] EXCEPT !.pc = "unlinking", !.want = links]
<1>a. tx[r] \in Transactions /\ links \in SUBSET Pairs
    BY Known, TablesKnown
<1>0. t \in Transactions /\ t.pc = "unlinking"
    BY <1>a DEF Transactions, Stages
<1>1. ~OnReport(t) /\ Sweeps(t) /\ ~OnReport(tx[r])
    BY <1>0 DEF DeleteLinks, OnReport, Writing, Sweeps
<1>2. Sound(t)
    BY Known DEF DeleteLinks, Sound, Transactions, OnNew, OnReport, Writing
<1>3. ASSUME NEW q \in Requests, q # r
      PROVE  Apart(t, tx[q]) /\ Apart(tx[q], t)
    BY <1>3, Known DEF DeleteLinks, Sound, Apart, OnNew, Transactions
<1> QED
    BY <1>0, <1>1, <1>2, <1>3, StepInvariant DEF DeleteLinks

LEMMA DeleteLinksDoneInvariant ==
    ASSUME IInv, NEW r \in Requests, DeleteLinksDone(r) PROVE IInv'
<1> DEFINE t == [tx[r] EXCEPT !.pc = "purge", !.cut = @ \cup (tx[r].want \cap links), !.want = {}]
<1>a. tx[r] \in Transactions /\ links \in SUBSET Pairs
    BY Known, TablesKnown
<1>b. tx[r].cut \cup (tx[r].want \cap links) \in SUBSET Pairs
    BY <1>a DEF Transactions
<1>0. t \in Transactions /\ t.pc = "purge"
    BY <1>a, <1>b DEF Transactions, Stages
<1>1. ~OnReport(t) /\ Sweeps(t) /\ ~OnReport(tx[r])
    BY <1>0 DEF DeleteLinksDone, OnReport, Writing, Sweeps
<1>2. Sound(t)
    BY Known DEF DeleteLinksDone, Sound, Transactions, OnNew, OnReport, Writing
<1>3. ASSUME NEW q \in Requests, q # r
      PROVE  Apart(t, tx[q]) /\ Apart(tx[q], t)
    BY <1>3, Known DEF DeleteLinksDone, Sound, Apart, OnNew, Transactions
<1> QED
    BY <1>0, <1>1, <1>2, <1>3, StepInvariant DEF DeleteLinksDone

\* Nobody holds a row of a report, or has inserted a link to one.
LEMMA DeleteReportsInvariant ==
    ASSUME IInv, NEW r \in Requests, DeleteReports(r) PROVE IInv'
<1>1. CASE links \subseteq tx[r].cut
    <2> DEFINE t == [tx[r] EXCEPT !.pc = "drop", !.dead = DOMAIN opps]
    <2>a. tx[r] \in Transactions /\ DOMAIN opps \in SUBSET Reports
        BY Known, TablesKnown
    <2>0. t \in Transactions /\ t.pc = "drop"
        BY <2>a DEF Transactions, Stages
    <2>1. ~OnReport(t) /\ Sweeps(t) /\ ~OnReport(tx[r])
        BY <2>0 DEF DeleteReports, OnReport, Writing, Sweeps
    <2>2. Sound(t)
        BY <1>1, Known DEF DeleteReports, Sound, Transactions, OnNew, OnReport, Writing
    <2>3. ASSUME NEW q \in Requests, q # r
          PROVE  Apart(t, tx[q]) /\ Apart(tx[q], t)
        <3>1. \A b \in DOMAIN opps : ~HoldsRow(q, b) /\ ~RefersTo(q, b)
            BY <2>3 DEF DeleteReports, Waits, WaitsFor
        <3>2. tx[q].dead = {}
            BY <3>1, Known DEF HoldsRow, Sound
        <3>3. tx[q].locked => tx[q].a \notin DOMAIN opps
            BY <3>1 DEF HoldsRow
        <3>4. tx[q].pc = "save" => tx[q].a \notin DOMAIN opps
            <4> SUFFICES ASSUME tx[q].pc = "save", tx[q].a \in DOMAIN opps PROVE FALSE
                OBVIOUS
            <4>1. tx[q].put = LinksOf(tx[q].a, tx[q].value) /\ tx[q].value # {} /\ tx[q].a \in Reports
                  /\ tx[q].value \in SUBSET (Evidence \cup {None})
                BY Known DEF Sound, OnReport, Writing, Transactions
            <4>2. \E l \in tx[q].put : l[1] = tx[q].a
                BY <4>1, LinksOfNothing, LinksOfPairs
            <4> QED
                BY <3>1, <4>2 DEF RefersTo
        <3>5. Apart(t, tx[q])
            BY <2>3, <3>2, Known DEF DeleteReports, Sound, Apart, OnNew, Transactions, Writing
        <3>6. Apart(tx[q], t)
            BY <2>3, <3>2, <3>3, <3>4, Known DEF DeleteReports, Sound, Apart, OnNew, Transactions
        <3> QED
            BY <3>5, <3>6
    <2> QED
        BY <1>1, <2>0, <2>1, <2>2, <2>3, StepInvariant DEF DeleteReports
<1> QED
    BY <1>1, AbortInvariant DEF DeleteReports

\* Nobody has inserted a report or a membership that refers to the input.
LEMMA DeleteInputInvariant ==
    ASSUME IInv, NEW r \in Requests, DeleteInput(r) PROVE IInv'
<1>1. CASE DOMAIN opps \subseteq tx[r].dead
    <2> DEFINE t == [tx[r] EXCEPT !.pc = "dropped"]
    <2>1. /\ t \in Transactions /\ ~OnReport(t) /\ Sweeps(t) /\ ~OnReport(tx[r])
        BY Known DEF DeleteInput, TypeOK, Transactions, Stages, OnReport, Writing, Sweeps
    <2>2. Sound(t)
        BY <1>1, Known DEF DeleteInput, Sound, Transactions, OnNew, OnReport, Writing
    <2>3. ASSUME NEW q \in Requests, q # r
          PROVE  Apart(t, tx[q]) /\ Apart(tx[q], t)
        <3>1. tx[q].pc \notin {"inserted", "joined"}
            BY <2>3 DEF DeleteInput, Waits, WaitsFor
        <3> QED
            BY <2>3, <3>1, Known DEF DeleteInput, Sound, Apart, OnNew, Transactions
    <2> QED
        BY <1>1, <2>1, <2>2, <2>3, StepInvariant DEF DeleteInput
<1> QED
    BY <1>1, AbortInvariant DEF DeleteInput
-----------------------------------------------------------------------------
(* The statements of a synthesis *)

\* A synthesis that begins ends the solitude of those under way on its report.
LEMMA SynthesisInvariant == ASSUME IInv, NEW r \in Requests, Synthesis(r) PROVE IInv'
<1> PICK a \in DOMAIN opps :
        LET rivals == {q \in Requests : Synthesizing(q, a)}
        IN  /\ Set(r, [Idle EXCEPT !.pc = "ask", !.a = a, !.seen = opps[a]])
            /\ alone' = IF rivals = {} THEN alone \cup {r} ELSE alone \ rivals
    BY DEF Synthesis
<1> DEFINE t == [Idle EXCEPT !.pc = "ask", !.a = a, !.seen = opps[a]]
           rivals == {q \in Requests : Synthesizing(q, a)}
<1>1. /\ input' = input /\ opps' = opps /\ links' = links /\ kept' = kept
      /\ project' = project /\ member' = member /\ doubt' = doubt /\ tx[r].pc = "idle"
    BY DEF Synthesis, database
<1>2. a \in Reports /\ opps[a] \in SUBSET Evidence /\ input = "here"
    BY DEF IInv, TypeOK, RowsRefer
<1>3. /\ t \in Transactions /\ OnReport(t) /\ Sweeps(t) /\ t.a = a /\ t.seen = opps[a]
      /\ ~OnReport(tx[r]) /\ t.locked = FALSE
    BY <1>1, <1>2 DEF Idle, Transactions, Stages, OnReport, Writing, Sweeps
<1>4. Sound(t)
    BY <1>2 DEF Sound, Idle, OnNew, OnReport, Writing
<1>5. ASSUME NEW q \in Requests, q # r
      PROVE  Apart(t, tx[q]) /\ Apart(tx[q], t)
    BY <1>5, Known DEF Sound, Apart, Idle, OnNew, Transactions
<1>6. /\ tx' \in [Requests -> Transactions]
      /\ tx'[r] = t
      /\ \A q \in Requests : q # r => tx'[q] = tx[q]
    BY <1>3 DEF Set, IInv, TypeOK
<1> HIDE DEF t
<1>7. /\ rivals = {q \in Requests : OnReport(tx[q]) /\ tx[q].a = a}
      /\ alone' \subseteq alone \cup {r}
      /\ r \in alone' => rivals = {}
      /\ rivals \cap alone' = {}
    <2>1. rivals = {q \in Requests : OnReport(tx[q]) /\ tx[q].a = a}
        BY DEF Synthesizing, OnReport, Writing
    <2>2. r \notin alone
        BY <1>3, Known
    <2> QED
        BY <1>3, <2>1, <2>2
<1>8. TypeOK'
    BY <1>1, <1>6, <1>7 DEF IInv, TypeOK
<1>9. RowsRefer'
    BY <1>1 DEF IInv, RowsRefer
<1>10. ASSUME NEW q \in Requests
       PROVE  Sound(tx[q])'
    <2>1. Sound(tx'[q])
        BY <1>4, <1>6 DEF IInv
    <2> QED
        BY <2>1, <1>1 DEF Sound
<1>11. ASSUME NEW p \in Requests, NEW q \in Requests, p # q
       PROVE  Apart(tx[p], tx[q])'
    <2>1. Apart(tx'[p], tx'[q])
        BY <1>5, <1>6, <1>11 DEF IInv
    <2> QED
        BY <2>1 DEF Apart
<1>12. ASSUME NEW q \in Requests, q \in alone' \/ (tx'[q].locked /\ tx'[q].a \notin doubt')
       PROVE  Sweeps(tx[q])'
    <2>1. Sweeps(tx'[q])
        BY <1>1, <1>3, <1>6, <1>7, <1>12 DEF IInv
    <2> QED
        BY <2>1, <1>1 DEF Sweeps
<1>13. AloneIsAlone'
    <2> SUFFICES ASSUME NEW q \in alone'
                 PROVE  /\ OnReport(tx'[q])
                        /\ \A p \in Requests : OnReport(tx'[p]) /\ tx'[p].a = tx'[q].a => p = q
                        /\ tx'[q].a \in DOMAIN opps => tx'[q].seen = opps[tx'[q].a]
        BY <1>1 DEF AloneIsAlone, OnReport, Writing
    <2>1. CASE q = r
        BY <1>3, <1>6, <1>7, <2>1
    <2>2. CASE q # r
        <3>1. q \in alone /\ q \in Requests /\ q \notin rivals /\ tx'[q] = tx[q]
            BY <1>6, <1>7, <2>2 DEF IInv, TypeOK
        <3>2. /\ OnReport(tx[q]) /\ tx[q].a # a
              /\ \A p \in Requests : OnReport(tx[p]) /\ tx[p].a = tx[q].a => p = q
              /\ tx[q].a \in DOMAIN opps => tx[q].seen = opps[tx[q].a]
            BY <1>7, <3>1 DEF IInv, AloneIsAlone
        <3> QED
            BY <1>3, <1>6, <3>1, <3>2
    <2> QED
        BY <2>1, <2>2
<1>14. LinksFollowOpportunities'
    BY <1>1 DEF IInv, LinksFollowOpportunities
<1> QED
    BY <1>8, <1>9, <1>10, <1>11, <1>12, <1>13, <1>14 DEF IInv

\* An answer that differs is to be written; an equal one writes no row.
LEMMA SynthesisAnswerInvariant ==
    ASSUME IInv, NEW r \in Requests, SynthesisAnswer(r) PROVE IInv'
<1>1. ASSUME NEW cites \in (SUBSET Evidence) \ {{}}, NEW pc \in {"update", "cut"},
             pc = "cut" => cites = tx[r].seen,
             Step(r, [tx[r] EXCEPT !.pc = pc, !.value = cites])
      PROVE  IInv'
    <2> DEFINE t == [tx[r] EXCEPT !.pc = pc, !.value = cites]
    <2>1. /\ t \in Transactions /\ t.pc = pc /\ t.value = cites
          /\ t.a = tx[r].a /\ t.seen = tx[r].seen /\ t.locked = tx[r].locked
          /\ t.want = tx[r].want /\ t.cut = tx[r].cut /\ t.put = tx[r].put /\ t.dead = tx[r].dead
        BY <1>1, Known DEF SynthesisAnswer, Transactions, Stages
    <2>2. Step(r, t)
        BY <1>1
    <2>3. tx[r].pc = "ask" /\ pc \in {"update", "cut"} /\ cites # {} /\ (pc = "cut" => cites = tx[r].seen)
        BY <1>1 DEF SynthesisAnswer
    <2> HIDE DEF t
    <2>4. OnReport(t) /\ OnReport(tx[r]) /\ Sweeps(t)
        BY <2>1, <2>3 DEF OnReport, Writing, Sweeps
    <2>5. Sound(t)
        BY <2>1, <2>3, Known DEF Sound, OnNew, OnReport, Writing
    <2>6. ASSUME NEW q \in Requests, q # r
          PROVE  Apart(t, tx[q]) /\ Apart(tx[q], t)
        BY <2>1, <2>3, <2>6, Known DEF Sound, Apart, OnNew
    <2> QED
        BY <2>1, <2>2, <2>4, <2>5, <2>6, StepInvariant
<1>2. CASE Abort(r)
    BY <1>2, AbortInvariant
<1>3. ASSUME NEW cites \in (SUBSET Evidence) \ {{}},
             Step(r, [tx[r] EXCEPT !.pc = "update", !.value = cites])
      PROVE  IInv'
    BY <1>1, <1>3
<1>4. ASSUME NEW cites \in (SUBSET Evidence) \ {{}}, cites = tx[r].seen,
             Step(r, [tx[r] EXCEPT !.pc = "cut", !.value = cites])
      PROVE  IInv'
    BY <1>1, <1>4
<1> QED
    BY <1>2, <1>3, <1>4 DEF SynthesisAnswer

\* The UPDATE takes a row that nobody holds.
LEMMA SynthesisUpdateInvariant ==
    ASSUME IInv, NEW r \in Requests, SynthesisUpdate(r) PROVE IInv'
<1>1. CASE tx[r].a \in DOMAIN opps
    <2> DEFINE t == [tx[r] EXCEPT !.pc = "cut", !.locked = TRUE]
    <2>1. /\ t \in Transactions /\ OnReport(t) /\ OnReport(tx[r]) /\ Sweeps(t)
          /\ t.a = tx[r].a /\ t.seen = tx[r].seen
        BY Known DEF SynthesisUpdate, Transactions, Stages, OnReport, Writing, Sweeps
    <2>2. Sound(t)
        BY <1>1, Known DEF SynthesisUpdate, Sound, Transactions, OnNew, OnReport, Writing
    <2>3. ASSUME NEW q \in Requests, q # r
          PROVE  Apart(t, tx[q]) /\ Apart(tx[q], t)
        <3>1. ~HoldsRow(q, tx[r].a)
            BY <2>3 DEF SynthesisUpdate, Waits, WaitsFor
        <3> QED
            BY <2>3, <3>1, Known DEF SynthesisUpdate, HoldsRow, Sound, Apart, OnNew, Transactions
    <2> QED
        BY <1>1, <2>1, <2>2, <2>3, StepInvariant DEF SynthesisUpdate
<1> QED
    BY <1>1, AbortInvariant DEF SynthesisUpdate

LEMMA SynthesisUnlinkInvariant ==
    ASSUME IInv, NEW r \in Requests, SynthesisUnlink(r) PROVE IInv'
<1> DEFINE t == [tx[r] EXCEPT !.pc = "cutting", !.want = links \cap LinksOf(tx[r].a, Evidence)]
<1>1. links \cap LinksOf(tx[r].a, Evidence) \in SUBSET Pairs
    BY DEF IInv, TypeOK
<1>2. /\ t \in Transactions /\ OnReport(t) /\ OnReport(tx[r]) /\ Sweeps(t)
      /\ t.a = tx[r].a /\ t.seen = tx[r].seen
    BY <1>1, Known DEF SynthesisUnlink, Transactions, Stages, OnReport, Writing, Sweeps
<1>3. Sound(t)
    BY Known DEF SynthesisUnlink, Sound, Transactions, OnNew, OnReport, Writing
<1>4. ASSUME NEW q \in Requests, q # r
      PROVE  Apart(t, tx[q]) /\ Apart(tx[q], t)
    BY <1>4, Known DEF SynthesisUnlink, Sound, Apart, OnNew, Transactions
<1> QED
    BY <1>2, <1>3, <1>4, StepInvariant DEF SynthesisUnlink

LEMMA SynthesisUnlinkDoneInvariant ==
    ASSUME IInv, NEW r \in Requests, SynthesisUnlinkDone(r) PROVE IInv'
<1> DEFINE t == [tx[r] EXCEPT !.pc = "put", !.cut = tx[r].want \cap links, !.want = {}]
<1>1. /\ t \in Transactions /\ OnReport(t) /\ OnReport(tx[r])
      /\ t.a = tx[r].a /\ t.seen = tx[r].seen /\ t.locked = tx[r].locked
    BY Known DEF SynthesisUnlinkDone, Transactions, Stages, OnReport, Writing
<1>2. Sweeps(tx[r]) => Sweeps(t)
    BY Known DEF SynthesisUnlinkDone, Transactions, Sweeps
<1>3. Sound(t)
    BY Known DEF SynthesisUnlinkDone, Sound, Transactions, OnNew, OnReport, Writing
<1>4. ASSUME NEW q \in Requests, q # r
      PROVE  Apart(t, tx[q]) /\ Apart(tx[q], t)
    BY <1>4, Known DEF SynthesisUnlinkDone, Sound, Apart, OnNew, Transactions
<1>5. Step(r, t)
    BY DEF SynthesisUnlinkDone
<1> HIDE DEF t
<1>6. r \in alone \/ (t.locked /\ t.a \notin doubt) => Sweeps(t)
    BY <1>1, <1>2, Known
<1> QED
    BY <1>1, <1>3, <1>4, <1>5, <1>6, StepInvariant

\* A link that is inserted keeps its report from being deleted.
LEMMA SynthesisLinkInvariant ==
    ASSUME IInv, NEW r \in Requests, SynthesisLink(r) PROVE IInv'
<1> DEFINE new == LinksOf(tx[r].a, tx[r].value)
<1>1. CASE tx[r].a \in DOMAIN opps /\ kept /\ new \cap (links \ tx[r].cut) = {}
    <2> DEFINE t == [tx[r] EXCEPT !.pc = "save", !.put = new]
    <2>1. new \in SUBSET Pairs
        BY <1>1, Known, LinksOfPairs DEF TypeOK, Transactions
    <2>0. /\ t \in Transactions /\ t.pc = "save" /\ t.cut = tx[r].cut
          /\ t.a = tx[r].a /\ t.seen = tx[r].seen /\ t.locked = tx[r].locked
        BY <2>1, Known DEF SynthesisLink, Transactions, Stages
    <2>2. /\ OnReport(t) /\ OnReport(tx[r])
          /\ Sweeps(tx[r]) => Sweeps(t)
        BY <2>0 DEF SynthesisLink, OnReport, Writing, Sweeps
    <2>3. Sound(t)
        BY <1>1, Known DEF SynthesisLink, Sound, Transactions, OnNew, OnReport, Writing
    <2>4. ASSUME NEW q \in Requests, q # r
          PROVE  Apart(t, tx[q]) /\ Apart(tx[q], t)
        <3>1. tx[r].a \notin tx[q].dead
            BY <2>4 DEF SynthesisLink, Waits, WaitsFor
        <3> QED
            BY <2>4, <3>1, Known DEF SynthesisLink, Sound, Apart, OnNew, Transactions
    <2>5. Step(r, t)
        BY <1>1 DEF SynthesisLink
    <2> HIDE DEF t
    <2>6. r \in alone \/ (t.locked /\ t.a \notin doubt) => Sweeps(t)
        BY <2>0, <2>2, Known
    <2> QED
        BY <2>0, <2>2, <2>3, <2>4, <2>5, <2>6, StepInvariant
<1> QED
    BY <1>1, AbortInvariant DEF SynthesisLink
-----------------------------------------------------------------------------
(* Commits *)

\* A commit leaves to others what they have, but for the rows it has deleted.
LEMMA CommitFrame ==
    ASSUME IInv, NEW r \in Requests, Commit(r)
    PROVE  /\ tx' \in [Requests -> Transactions]
           /\ tx'[r] = Idle
           /\ \A q \in Requests : q # r =>
                /\ tx'[q].pc = tx[q].pc /\ tx'[q].a = tx[q].a /\ tx'[q].seen = tx[q].seen
                /\ tx'[q].value = tx[q].value /\ tx'[q].locked = tx[q].locked
                /\ tx'[q].want = tx[q].want \ tx[r].cut
                /\ tx'[q].cut = tx[q].cut /\ tx'[q].put = tx[q].put /\ tx'[q].dead = tx[q].dead
<1>1. \A q \in Requests : tx[q] \in Transactions
    BY DEF IInv, TypeOK
<1>2. ASSUME NEW q \in Requests
      PROVE  /\ [tx[q] EXCEPT !.want = @ \ tx[r].cut] \in Transactions
             /\ q # r => tx'[q] = [tx[q] EXCEPT !.want = @ \ tx[r].cut]
    BY <1>1 DEF Commit, Transactions
<1>3. tx'[r] = Idle
    BY DEF Commit
<1>4. tx' \in [Requests -> Transactions]
    BY <1>2, IdleIsHarmless DEF Commit
<1>5. ASSUME NEW q \in Requests, q # r
      PROVE  /\ tx'[q].pc = tx[q].pc /\ tx'[q].a = tx[q].a /\ tx'[q].seen = tx[q].seen
             /\ tx'[q].value = tx[q].value /\ tx'[q].locked = tx[q].locked
             /\ tx'[q].want = tx[q].want \ tx[r].cut
             /\ tx'[q].cut = tx[q].cut /\ tx'[q].put = tx[q].put /\ tx'[q].dead = tx[q].dead
    BY <1>1, <1>2, <1>5 DEF Transactions
<1> QED
    BY <1>3, <1>4, <1>5

\* And they stay apart.
LEMMA CommitApart ==
    ASSUME IInv, NEW r \in Requests, Commit(r), NEW p \in Requests, NEW q \in Requests, p # q
    PROVE  Apart(tx[p], tx[q])'
<1>1. Apart(tx'[p], tx'[q])
    <2>1. CASE p # r /\ q # r
        <3>1. Apart(tx[p], tx[q])
            BY DEF IInv
        <3> QED
            BY <2>1, <3>1, CommitFrame DEF Apart, OnNew
    <2>2. CASE p = r
        BY <2>2, CommitFrame DEF Apart, OnNew, Idle
    <2>3. CASE q = r
        <3>1. p # r /\ tx[p] \in Transactions /\ Sound(tx[p])
            BY <2>3, Known
        <3>2. OnNew(tx'[p]) => tx'[p].a \in Reports
            BY <3>1, CommitFrame DEF Sound, OnNew
        <3> QED
            BY <2>3, <3>2, CommitFrame, NoneAssumption DEF Apart, OnNew, Idle
    <2> QED
        BY <2>1, <2>2, <2>3
<1> QED
    BY <1>1 DEF Apart, OnNew

\* A synthesis that is alone stays so if its report is as it was.
LEMMA CommitAlone ==
    ASSUME IInv, NEW r \in Requests, Commit(r), alone' = alone \ {r},
           \A q \in alone : q # r /\ tx[q].a \in DOMAIN opps' =>
                tx[q].a \in DOMAIN opps /\ opps'[tx[q].a] = opps[tx[q].a]
    PROVE  AloneIsAlone'
<1> SUFFICES ASSUME NEW q \in alone'
             PROVE  /\ OnReport(tx'[q])
                    /\ \A p \in Requests : OnReport(tx'[p]) /\ tx'[p].a = tx'[q].a => p = q
                    /\ tx'[q].a \in DOMAIN opps' => tx'[q].seen = opps'[tx'[q].a]
    BY DEF AloneIsAlone, OnReport, Writing
<1>1. q \in alone /\ q \in Requests /\ q # r
    BY DEF IInv, TypeOK
<1>2. /\ OnReport(tx[q])
      /\ \A p \in Requests : OnReport(tx[p]) /\ tx[p].a = tx[q].a => p = q
      /\ tx[q].a \in DOMAIN opps => tx[q].seen = opps[tx[q].a]
    BY <1>1 DEF IInv, AloneIsAlone
<1>3. \A p \in Requests : p # r => (OnReport(tx'[p]) <=> OnReport(tx[p])) /\ tx'[p].a = tx[p].a
    BY CommitFrame DEF OnReport, Writing
<1>4. ~OnReport(tx'[r])
    BY CommitFrame, IdleIsHarmless
<1>5. tx'[q].seen = tx[q].seen
    BY <1>1, CommitFrame
<1> QED
    BY <1>1, <1>2, <1>3, <1>4, <1>5

\* The transaction that has ended is sound.
LEMMA CommittedIsSound ==
    ASSUME IInv, NEW r \in Requests, Commit(r)
    PROVE  Sound(tx[r])' /\ Sweeps(tx[r])'
<1>1. tx'[r] = Idle
    BY CommitFrame
<1> QED
    BY <1>1 DEF Sound, Sweeps, Idle, OnNew, OnReport, Writing

LEMMA JoinCommitInvariant == ASSUME IInv, NEW r \in Requests, JoinCommit(r) PROVE IInv'
<1>1. /\ Commit(r) /\ input' = input /\ opps' = opps /\ links' = links /\ kept' = kept
      /\ project' = project /\ doubt' = doubt /\ alone' = alone /\ member' = TRUE
    BY DEF JoinCommit, history
<1>2. r \notin alone /\ tx[r].cut = {} /\ input = "here"
    BY Known DEF JoinCommit, Sound, OnReport, Writing
<1>3. TypeOK'
    BY <1>1, CommitFrame DEF IInv, TypeOK
<1>4. RowsRefer'
    BY <1>1, <1>2 DEF IInv, RowsRefer
<1>5. ASSUME NEW q \in Requests
      PROVE  Sound(tx[q])'
    <2>1. CASE q # r
        <3>1. Sound(tx[q])
            BY Known
        <3> QED
            BY <1>1, <1>2, <2>1, <3>1, CommitFrame DEF Sound, OnNew, OnReport, Writing
    <2> QED
        BY <1>1, <2>1, CommittedIsSound
<1>6. ASSUME NEW q \in Requests, q \in alone' \/ (tx'[q].locked /\ tx'[q].a \notin doubt')
      PROVE  Sweeps(tx[q])'
    <2>1. CASE q # r
        <3>1. Sweeps(tx[q])
            BY <1>1, <1>6, <2>1, CommitFrame, Known
        <3> QED
            BY <1>1, <1>2, <2>1, <3>1, CommitFrame DEF Sweeps
    <2> QED
        BY <1>1, <2>1, CommittedIsSound
<1>7. AloneIsAlone'
    BY <1>1, <1>2, CommitAlone
<1>8. LinksFollowOpportunities'
    BY <1>1 DEF IInv, LinksFollowOpportunities
<1> QED
    BY <1>1, <1>3, <1>4, <1>5, <1>6, <1>7, <1>8, CommitApart DEF IInv

\* The first report: nothing else is under way.
LEMMA CreateCommitInvariant == ASSUME IInv, NEW r \in Requests, CreateCommit(r) PROVE IInv'
<1> PICK cites \in SUBSET (IF kept THEN Evidence ELSE {}) :
        /\ opps' = [a \in {tx[r].a} |-> cites]
        /\ links' = LinksOf(tx[r].a, cites \cup {None})
    BY DEF CreateCommit
<1> DEFINE a == tx[r].a
<1>1. /\ Commit(r) /\ input' = "here" /\ kept' = kept /\ project' = project /\ member' = member
      /\ doubt' = doubt /\ alone' = alone
    BY DEF CreateCommit, history
<1>2. a \in Reports /\ input = "none" /\ cites \subseteq Evidence /\ ~member
    BY Known DEF CreateCommit, Sound, OnNew, RowsRefer
<1>3. DOMAIN opps' = {a} /\ opps'[a] = cites
    OBVIOUS
<1>4. \A q \in Requests : q # r => tx[q].pc = "idle"
    BY <1>2, Known DEF CreateCommit, Sound, Apart
<1>5. alone = {}
    <2>1. \A q \in alone : q \in Requests /\ OnReport(tx[q])
        BY DEF IInv, TypeOK, AloneIsAlone
    <2>2. \A q \in Requests : ~OnReport(tx[q])
        BY <1>4 DEF CreateCommit, OnReport, Writing
    <2> QED
        BY <2>1, <2>2
<1>6. links' \subseteq Pairs /\ \A l \in links' : l[1] = a
    BY <1>2, LinksOfPairs
<1>7. TypeOK'
    <2>1. opps' \in [DOMAIN opps' -> SUBSET Evidence]
        BY <1>2, <1>3
    <2> QED
        BY <1>1, <1>2, <1>3, <1>6, <2>1, CommitFrame DEF IInv, TypeOK
<1>8. RowsRefer'
    BY <1>1, <1>3, <1>6 DEF RowsRefer
<1>9. ASSUME NEW q \in Requests
      PROVE  Sound(tx[q])' /\ Sweeps(tx[q])'
    <2>1. CASE q # r
        <3>1. Sound(tx[q]) /\ tx[q].pc = "idle"
            BY <1>4, <2>1, Known
        <3>2. tx[q].cut = {} /\ tx[q].dead = {} /\ ~tx[q].locked /\ tx[q].put = {}
            BY <3>1 DEF Sound, Writing
        <3> QED
            BY <1>1, <2>1, <3>1, <3>2, CommitFrame DEF Sound, Sweeps, OnNew, OnReport, Writing
    <2> QED
        BY <1>1, <2>1, CommittedIsSound
<1>10. AloneIsAlone'
    BY <1>1, <1>5, CommitAlone
<1>11. LinksFollowOpportunities'
    <2>1. {e \in Evidence : <<a, e>> \in links'} = cites
        <3>1. \A e \in Evidence : <<a, e>> \in links' <=> e \in cites \cup {None}
            BY LinksOfMember
        <3> QED
            BY <1>2, <3>1, NoneAssumption
    <2> QED
        BY <1>3, <2>1 DEF LinksFollowOpportunities
<1> QED
    BY <1>1, <1>7, <1>8, <1>9, <1>10, <1>11, CommitApart DEF IInv
\* A further report: the others' reports and links are not its own.
LEMMA RerunCommitInvariant == ASSUME IInv, NEW r \in Requests, RerunCommit(r) PROVE IInv'
<1> PICK cites \in SUBSET (IF kept THEN Evidence ELSE {}) :
        /\ opps' = [a \in DOMAIN opps \cup {tx[r].a} |-> IF a = tx[r].a THEN cites ELSE opps[a]]
        /\ links' = links \cup LinksOf(tx[r].a, cites \cup {None})
    BY DEF RerunCommit
<1> DEFINE new == tx[r].a
           more == LinksOf(new, cites \cup {None})
<1>1. /\ Commit(r) /\ input' = input /\ kept' = kept /\ project' = project /\ member' = member
      /\ doubt' = doubt /\ alone' = alone
    BY DEF RerunCommit, history
<1>2. /\ new \in Reports /\ new \notin DOMAIN opps /\ input = "here" /\ cites \subseteq Evidence
      /\ tx[r].cut = {} /\ r \notin alone
    BY Known DEF RerunCommit, Sound, OnNew, OnReport, Writing
<1>3. /\ DOMAIN opps' = DOMAIN opps \cup {new} /\ opps'[new] = cites
      /\ \A a \in DOMAIN opps : opps'[a] = opps[a]
    BY <1>2
<1>4. more \subseteq Pairs /\ \A l \in more : l[1] = new
    BY <1>2, LinksOfPairs
<1>5. \A q \in Requests : q # r => tx[q].pc \notin {"create", "dropped"} /\ tx[q].a # new
    BY <1>2, Known DEF RerunCommit, Sound, Apart, OnNew
<1>6. TypeOK'
    <2>1. opps' \in [DOMAIN opps' -> SUBSET Evidence]
        BY <1>2, <1>3 DEF IInv, TypeOK
    <2> QED
        BY <1>1, <1>2, <1>3, <1>4, <2>1, CommitFrame DEF IInv, TypeOK
<1>7. RowsRefer'
    BY <1>1, <1>2, <1>3, <1>4, Known DEF RowsRefer
<1>8. ASSUME NEW q \in Requests
      PROVE  Sound(tx[q])'
    <2>1. CASE q # r
        <3>1. Sound(tx[q]) /\ tx[q].pc \notin {"create", "dropped"} /\ tx[q].a # new
            BY <1>5, <2>1, Known
        <3>2. \A l \in links' : l[1] \in tx[q].dead => l \in links
            BY <1>2, <1>4, <3>1 DEF Sound
        <3>3. /\ tx'[q].pc = tx[q].pc /\ tx'[q].a = tx[q].a /\ tx'[q].seen = tx[q].seen
              /\ tx'[q].value = tx[q].value /\ tx'[q].locked = tx[q].locked
              /\ tx'[q].want \subseteq tx[q].want
              /\ tx'[q].cut = tx[q].cut /\ tx'[q].put = tx[q].put /\ tx'[q].dead = tx[q].dead
            BY <1>1, <2>1, CommitFrame
        <3>4. input' = input /\ kept' = kept /\ DOMAIN opps' = DOMAIN opps \cup {new}
            BY <1>1, <1>3
        <3> HIDE DEF new
        <3> QED
            BY <3>1, <3>2, <3>3, <3>4 DEF Sound, OnNew, OnReport, Writing
    <2> QED
        BY <1>1, <2>1, CommittedIsSound
<1>9. ASSUME NEW q \in Requests, q \in alone' \/ (tx'[q].locked /\ tx'[q].a \notin doubt')
      PROVE  Sweeps(tx[q])'
    <2>1. CASE q # r
        <3>1. Sweeps(tx[q])
            BY <1>1, <1>9, <2>1, CommitFrame, Known
        <3>2. links' \cap LinksOf(tx[q].a, Evidence) = links \cap LinksOf(tx[q].a, Evidence)
            BY <1>4, <1>5, <2>1, LinksOfMember
        <3>3. /\ tx'[q].pc = tx[q].pc /\ tx'[q].a = tx[q].a
              /\ tx'[q].want = tx[q].want \ tx[r].cut /\ tx'[q].cut = tx[q].cut
            BY <1>1, <2>1, CommitFrame
        <3> QED
            BY <1>2, <3>1, <3>2, <3>3 DEF Sweeps
    <2> QED
        BY <1>1, <2>1, CommittedIsSound
<1>10. AloneIsAlone'
    <2>1. \A q \in alone : q \in Requests
        BY DEF IInv, TypeOK
    <2> QED
        BY <1>1, <1>2, <1>3, <1>5, <2>1, CommitAlone
<1>11. LinksFollowOpportunities'
    <2>1. {e \in Evidence : <<new, e>> \in links'} = cites
        <3>1. \A e \in Evidence : <<new, e>> \in more <=> e \in cites \cup {None}
            BY LinksOfMember
        <3>2. \A e \in Evidence : <<new, e>> \notin links
            BY <1>2, Known DEF RowsRefer
        <3> QED
            BY <1>2, <3>1, <3>2, NoneAssumption
    <2>2. ASSUME NEW a \in DOMAIN opps
          PROVE  {e \in Evidence : <<a, e>> \in links'} = {e \in Evidence : <<a, e>> \in links}
        BY <1>2, LinksOfMember
    <2> QED
        BY <1>1, <1>3, <2>1, <2>2 DEF IInv, LinksFollowOpportunities
<1> QED
    BY <1>1, <1>6, <1>7, <1>8, <1>9, <1>10, <1>11, CommitApart DEF IInv

\* The thread goes: nobody holds any of its rows.
LEMMA DeleteCommitInvariant == ASSUME IInv, NEW r \in Requests, DeleteCommit(r) PROVE IInv'
<1>1. /\ Commit(r) /\ input' = "gone" /\ kept' = kept /\ project' = project /\ member' = FALSE
      /\ doubt' = doubt /\ alone' = alone /\ links' = links \ tx[r].cut
      /\ opps' = [a \in DOMAIN opps \ tx[r].dead |-> opps[a]] /\ tx[r].pc = "dropped"
    BY DEF DeleteCommit, history
<1>2. DOMAIN opps = tx[r].dead /\ \A l \in links : l[1] \in tx[r].dead => l \in tx[r].cut
    BY <1>1, Known DEF Sound
<1>3. DOMAIN opps' = {} /\ links' = {}
    BY <1>1, <1>2, Known DEF RowsRefer
<1>4. input # "none" /\ r \notin alone
    BY <1>1, Known DEF Sound, OnReport, Writing
<1>5. TypeOK'
    BY <1>1, <1>3, CommitFrame DEF IInv, TypeOK
<1>6. RowsRefer'
    BY <1>1, <1>3 DEF RowsRefer
<1>7. ASSUME NEW q \in Requests
      PROVE  Sound(tx[q])' /\ Sweeps(tx[q])'
    <2>1. CASE q # r
        <3>1. Sound(tx[q]) /\ Apart(tx[q], tx[r]) /\ Apart(tx[r], tx[q])
            BY <2>1, Known
        <3>2. /\ tx[q].pc \notin {"create", "inserted", "joined", "save"}
              /\ tx[q].dead = {} /\ ~tx[q].locked
            BY <1>1, <1>2, <1>4, <3>1 DEF Sound, Apart
        <3>3. tx'[q].want \subseteq tx[q].want
            BY <1>1, <2>1, CommitFrame
        <3>4. Sound(tx[q])'
            BY <1>1, <1>3, <2>1, <3>1, <3>2, <3>3, CommitFrame DEF Sound, OnNew, OnReport, Writing
        <3> QED
            BY <1>3, <3>4 DEF Sweeps
    <2> QED
        BY <1>1, <2>1, CommittedIsSound
<1>8. AloneIsAlone'
    BY <1>1, <1>3, <1>4, CommitAlone
<1>9. LinksFollowOpportunities'
    BY <1>3 DEF LinksFollowOpportunities
<1> QED
    BY <1>1, <1>5, <1>6, <1>7, <1>8, <1>9, CommitApart DEF IInv

\* A synthesis replaces the links of its report and no others.
LEMMA SynthesisCommitInvariant ==
    ASSUME IInv, NEW r \in Requests, SynthesisCommit(r) PROVE IInv'
<1> DEFINE a == tx[r].a
           t == tx[r]
<1>1. /\ Commit(r) /\ input' = input /\ kept' = kept /\ project' = project /\ member' = member
      /\ alone' = alone \ {r} /\ links' = (links \ t.cut) \cup t.put /\ t.pc = "save"
      /\ opps' = IF t.locked THEN [opps EXCEPT ![a] = t.value] ELSE opps
      /\ doubt' = IF r \in alone THEN doubt \ {a}
                  ELSE IF t.locked THEN doubt ELSE doubt \cup {a}
    BY DEF SynthesisCommit
<1>2. /\ a \in Reports /\ a \in DOMAIN opps /\ kept /\ t.put = LinksOf(a, t.value)
      /\ t.cut \subseteq LinksOf(a, Evidence) /\ t.value \in SUBSET Evidence
      /\ t.locked \/ t.value = t.seen
      /\ t.locked \in BOOLEAN
    BY <1>1, Known DEF Sound, OnReport, Writing, Transactions
<1>3. /\ DOMAIN opps' = DOMAIN opps
      /\ \A b \in DOMAIN opps : b # a => opps'[b] = opps[b]
      /\ t.locked => opps'[a] = t.value
      /\ ~t.locked => opps'[a] = opps[a]
    BY <1>1, <1>2
<1>4. /\ t.put \subseteq Pairs
      /\ \A l \in t.put : l[1] = a
      /\ \A l \in t.cut : l[1] = a
    BY <1>2, LinksOfPairs, LinksOfMember
<1>5. \A q \in Requests : q # r => a \notin tx[q].dead /\ (t.locked => ~(tx[q].locked /\ tx[q].a = a))
    BY <1>1, Known DEF Apart
<1>6. ASSUME NEW q \in alone, q # r
      PROVE  tx[q].a # a
    BY <1>1, <1>6 DEF IInv, AloneIsAlone, TypeOK, OnReport, Writing
<1> HIDE DEF t, a
<1>7. TypeOK'
    <2>1. opps' \in [DOMAIN opps' -> SUBSET Evidence]
        BY <1>1, <1>2, <1>3 DEF IInv, TypeOK
    <2> QED
        BY <1>1, <1>2, <1>3, <1>4, <2>1, CommitFrame DEF IInv, TypeOK
<1>8. RowsRefer'
    BY <1>1, <1>2, <1>3, <1>4 DEF IInv, RowsRefer
<1>9. ASSUME NEW q \in Requests
      PROVE  Sound(tx[q])'
    <2>1. CASE q # r
        <3>1. Sound(tx[q])
            BY Known
        <3>2. \A l \in links' : l[1] \in tx[q].dead => l \in links
            BY <1>1, <1>4, <1>5, <2>1
        <3>3. tx'[q].want \subseteq tx[q].want
            BY <1>1, <2>1, CommitFrame DEF t
        <3> QED
            BY <1>1, <1>3, <2>1, <3>1, <3>2, <3>3, CommitFrame DEF Sound, OnNew, OnReport, Writing
    <2> QED
        BY <1>1, <2>1, CommittedIsSound
<1>10. ASSUME NEW q \in Requests, q \in alone' \/ (tx'[q].locked /\ tx'[q].a \notin doubt')
       PROVE  Sweeps(tx[q])'
    <2>1. CASE q # r
        <3>1. tx[q].a # a
            <4>1. CASE q \in alone'
                BY <1>1, <1>6, <2>1, <4>1
            <4>2. CASE tx'[q].locked /\ tx'[q].a \notin doubt' /\ tx[q].a = a
                <5>1. tx[q].locked
                    BY <1>1, <2>1, <4>2, CommitFrame
                <5>2. ~t.locked
                    BY <1>5, <2>1, <4>2, <5>1
                <5>3. r \notin alone
                    <6>1. OnReport(tx[q])
                        BY <5>1, Known DEF Sound, OnReport
                    <6> QED
                        BY <2>1, <4>2, <6>1 DEF IInv, AloneIsAlone, a
                <5>4. a \in doubt'
                    BY <1>1, <5>2, <5>3
                <5> QED
                    BY <1>1, <2>1, <4>2, <5>4, CommitFrame
            <4> QED
                BY <1>10, <4>1, <4>2
        <3>2. Sweeps(tx[q])
            <4>1. tx[q].a \notin doubt' => tx[q].a \notin doubt
                BY <1>1, <3>1
            <4> QED
                BY <1>1, <1>10, <2>1, <4>1, CommitFrame, Known
        <3>3. links' \cap LinksOf(tx[q].a, Evidence) = links \cap LinksOf(tx[q].a, Evidence)
            BY <1>1, <1>4, <3>1, LinksOfMember
        <3>4. LinksOf(tx[q].a, Evidence) \cap t.cut = {}
            BY <1>4, <3>1, LinksOfMember
        <3>5. /\ tx'[q].pc = tx[q].pc /\ tx'[q].a = tx[q].a /\ tx'[q].cut = tx[q].cut
              /\ tx'[q].want = tx[q].want \ t.cut
            BY <1>1, <2>1, CommitFrame DEF t
        <3> QED
            BY <3>2, <3>3, <3>4, <3>5 DEF Sweeps
    <2> QED
        BY <1>1, <2>1, CommittedIsSound
<1>11. AloneIsAlone'
    BY <1>1, <1>3, <1>6, CommitAlone DEF a
<1>12. LinksFollowOpportunities'
    <2>1. ASSUME NEW b \in DOMAIN opps, b # a
          PROVE  \A e \in Evidence : <<b, e>> \in links' <=> <<b, e>> \in links
        BY <1>1, <1>4, <2>1
    <2>2. ASSUME r \in alone \/ (t.locked /\ a \notin doubt)
          PROVE  {e \in Evidence : <<a, e>> \in links'} = opps'[a]
        <3>1. Sweeps(tx[r])
            BY <2>2, Known DEF t, a
        <3>2. \A e \in Evidence : <<a, e>> \in links => <<a, e>> \in t.cut
            BY <1>1, <3>1, LinksOfMember DEF Sweeps, t, a
        <3>3. \A e \in Evidence : <<a, e>> \in t.put <=> e \in t.value
            BY <1>2, LinksOfMember
        <3>4. opps'[a] = t.value
            <4>1. CASE t.locked
                BY <1>3, <4>1
            <4>2. CASE ~t.locked
                <5>1. r \in alone /\ t.value = t.seen
                    BY <1>2, <2>2, <4>2
                <5>2. t.seen = opps[a]
                    BY <1>2, <5>1 DEF IInv, AloneIsAlone, t, a
                <5> QED
                    BY <1>3, <4>2, <5>1, <5>2
            <4> QED
                BY <4>1, <4>2
        <3> QED
            BY <1>1, <1>2, <3>2, <3>3, <3>4
    <2>3. ~(r \in alone \/ (t.locked /\ a \notin doubt)) => a \in doubt'
        BY <1>1
    <2>4. \A b \in DOMAIN opps : b # a => (b \in doubt' <=> b \in doubt)
        BY <1>1
    <2>5. \A b \in DOMAIN opps : \/ b \in doubt
                                 \/ {e \in Evidence : <<b, e>> \in links} = opps[b]
        BY <1>2 DEF IInv, LinksFollowOpportunities
    <2>6. ASSUME NEW b \in DOMAIN opps, b # a
          PROVE  b \in doubt' \/ {e \in Evidence : <<b, e>> \in links'} = opps'[b]
        BY <1>3, <2>1, <2>4, <2>5, <2>6
    <2> QED
        BY <1>3, <2>2, <2>3, <2>6 DEF LinksFollowOpportunities
<1> QED
    BY <1>1, <1>7, <1>8, <1>9, <1>10, <1>11, <1>12, CommitApart DEF IInv
-----------------------------------------------------------------------------
(* Projects, and a forced extraction *)

\* The rows of projects concern no transaction.
LEMMA ProjectInvariant ==
    ASSUME IInv, CreateProject \/ Leave \/ DeleteProject
    PROVE  IInv'
<1>1. /\ input' = input /\ opps' = opps /\ links' = links /\ kept' = kept /\ tx' = tx
      /\ alone' = alone /\ doubt' = doubt
      /\ project' = project \/ project' = "here" \/ project' = "gone"
      /\ member' = member \/ member' = FALSE
    BY DEF CreateProject, Leave, DeleteProject, history
<1>2. TypeOK' /\ RowsRefer'
    <2>1. CASE member' = member
        BY <1>1, <2>1 DEF IInv, TypeOK, RowsRefer
    <2>2. CASE member' = FALSE
        BY <1>1, <2>2 DEF IInv, TypeOK, RowsRefer
    <2> QED
        BY <1>1, <2>1, <2>2
<1>3. ASSUME NEW r \in Requests
      PROVE  /\ Sound(tx[r])'
             /\ r \in alone' \/ (tx'[r].locked /\ tx'[r].a \notin doubt') => Sweeps(tx[r])'
    <2>1. Sound(tx[r])'
        BY <1>1 DEF IInv, Sound
    <2>2. Sweeps(tx[r]) => Sweeps(tx[r])'
        BY <1>1 DEF Sweeps
    <2> QED
        BY <1>1, <2>1, <2>2 DEF IInv
<1>4. \A r, q \in Requests : r # q => Apart(tx[r], tx[q])'
    BY <1>1 DEF IInv, Apart
<1>5. AloneIsAlone' /\ LinksFollowOpportunities'
    BY <1>1 DEF IInv, AloneIsAlone, LinksFollowOpportunities
<1> QED
    BY <1>2, <1>3, <1>4, <1>5 DEF IInv

\* A forced extraction takes all links at a time when nobody has changed any.
LEMMA ResetInvariant == ASSUME IInv, Reset PROVE IInv'
<1>1. /\ input' = input /\ opps' = opps /\ links' = {} /\ kept' = FALSE /\ project' = project
      /\ member' = member /\ tx' = tx /\ alone' = alone /\ doubt' = doubt
    BY DEF Reset, history
<1>2. \A r \in Requests : tx[r].put = {}
    BY DEF Reset
<1>3. TypeOK' /\ RowsRefer'
    BY <1>1 DEF IInv, TypeOK, RowsRefer
<1>4. ASSUME NEW r \in Requests
      PROVE  Sound(tx[r])' /\ Sweeps(tx[r])'
    <2>1. tx[r].pc # "save"
        <3> SUFFICES ASSUME tx[r].pc = "save" PROVE FALSE
            OBVIOUS
        <3>1. tx[r].put = LinksOf(tx[r].a, tx[r].value) /\ tx[r].value # {}
            BY Known DEF Sound, OnReport, Writing
        <3> QED
            BY <1>2, <3>1, LinksOfNothing
    <2>2. Sound(tx[r])
        BY Known
    <2>3. Sound(tx[r])'
        BY <1>1, <2>1, <2>2 DEF Sound
    <2> QED
        BY <1>1, <2>3 DEF Sweeps
<1>5. \A r, q \in Requests : r # q => Apart(tx[r], tx[q])'
    BY <1>1 DEF IInv, Apart
<1>6. AloneIsAlone' /\ LinksFollowOpportunities'
    BY <1>1 DEF IInv, AloneIsAlone, LinksFollowOpportunities
<1> QED
    BY <1>3, <1>4, <1>5, <1>6 DEF IInv

-----------------------------------------------------------------------------
(* The invariant *)

LEMMA InitInvariant == Init => IInv
<1> SUFFICES ASSUME Init PROVE IInv
    OBVIOUS
<1>1. \A r \in Requests : tx[r] = Idle
    BY DEF Init
<1>2. DOMAIN opps = {}
    BY DEF Init
<1>3. TypeOK
    <2>1. tx \in [Requests -> Transactions]
        BY IdleIsHarmless DEF Init
    <2>2. opps \in [DOMAIN opps -> SUBSET Evidence]
        BY <1>2 DEF Init
    <2> QED
        BY <1>2, <2>1, <2>2 DEF Init, TypeOK
<1>4. RowsRefer
    BY <1>2 DEF Init, RowsRefer
<1>5. AloneIsAlone /\ LinksFollowOpportunities
    BY <1>2 DEF Init, AloneIsAlone, LinksFollowOpportunities
<1> QED
    BY <1>1, <1>3, <1>4, <1>5, IdleIsHarmless DEF IInv

LEMMA NextInvariant == IInv /\ [Next]_vars => IInv'
<1> SUFFICES ASSUME IInv, [Next]_vars PROVE IInv'
    OBVIOUS
<1>1. ASSUME NEW r \in Requests, Create(r) \/ CreateCommit(r) PROVE IInv'
    BY <1>1, CreateInvariant, CreateCommitInvariant
<1>2. ASSUME NEW r \in Requests,
             Rerun(r) \/ Refresh(r) \/ RefreshNext(r) \/ RerunInsert(r) \/ RerunCommit(r)
      PROVE  IInv'
    BY <1>2, RerunInvariant, BeginningsInvariant, RefreshNextInvariant, RerunInsertInvariant,
       RerunCommitInvariant
<1>3. ASSUME NEW r \in Requests,
             \/ Delete(r) \/ DeleteLinks(r) \/ DeleteLinksDone(r)
             \/ DeleteReports(r) \/ DeleteInput(r) \/ DeleteCommit(r)
      PROVE  IInv'
    BY <1>3, BeginningsInvariant, DeleteLinksInvariant, DeleteLinksDoneInvariant,
       DeleteReportsInvariant, DeleteInputInvariant, DeleteCommitInvariant
<1>4. ASSUME NEW r \in Requests,
             \/ Synthesis(r) \/ SynthesisAnswer(r) \/ SynthesisUpdate(r)
             \/ SynthesisUnlink(r) \/ SynthesisUnlinkDone(r)
             \/ SynthesisLink(r) \/ SynthesisCommit(r)
      PROVE  IInv'
    BY <1>4, SynthesisInvariant, SynthesisAnswerInvariant, SynthesisUpdateInvariant,
       SynthesisUnlinkInvariant, SynthesisUnlinkDoneInvariant, SynthesisLinkInvariant,
       SynthesisCommitInvariant
<1>5. ASSUME NEW r \in Requests, Join(r) \/ JoinInsert(r) \/ JoinCommit(r) PROVE IInv'
    BY <1>5, BeginningsInvariant, JoinInsertInvariant, JoinCommitInvariant
<1>6. ASSUME NEW r \in Requests, Victim(r) PROVE IInv'
    BY <1>6, AbortInvariant DEF Victim
<1>7. CASE CreateProject \/ Leave \/ DeleteProject
    BY <1>7, ProjectInvariant
<1>8. CASE Reset
    BY <1>8, ResetInvariant
<1>9. CASE UNCHANGED vars
    <2>1. /\ input' = input /\ opps' = opps /\ links' = links /\ kept' = kept
          /\ project' = project /\ member' = member /\ tx' = tx /\ alone' = alone /\ doubt' = doubt
        BY <1>9 DEF vars, database, history
    <2> QED
        BY <2>1 DEF IInv, TypeOK, RowsRefer, Sound, Apart, Sweeps, AloneIsAlone, OnNew, OnReport,
            Writing, LinksFollowOpportunities
<1> QED
    BY <1>1, <1>2, <1>3, <1>4, <1>5, <1>6, <1>7, <1>8, <1>9 DEF Next

LEMMA Inductive == Spec => []IInv
<1> QED
    BY InitInvariant, NextInvariant, PTL DEF Spec

\* Every variable keeps its type, for any number of requests and reports.
THEOREM TypeCorrect == Spec => []TypeOK
<1>1. IInv => TypeOK
    BY DEF IInv
<1> QED
    BY <1>1, Inductive, PTL

\* The links of a report are those its opportunities cite, unless a synthesis
\* confirmed what it had loaded while another was under way.
THEOREM LinksFollow == Spec => []LinksFollowOpportunities
<1>1. IInv => LinksFollowOpportunities
    BY DEF IInv
<1> QED
    BY <1>1, Inductive, PTL

\* Input, reports, links and membership come and go together: nothing ever
\* refers to a row that is gone.
THEOREM ReferencesHold == Spec => []RowsRefer
<1>1. IInv => RowsRefer
    BY DEF IInv
<1> QED
    BY <1>1, Inductive, PTL

-----------------------------------------------------------------------------
(* The promise *)

LEMMA InitPromise == Init => Promise!Init
BY DEF Init, Promise!Init

\* A transaction that changes nothing committed is a stutter.
LEMMA QuietPromise ==
    ASSUME NEW r \in Requests, NEW t, Step(r, t) \/ Abort(r)
    PROVE  UNCHANGED Promise!vars
BY DEF Step, Abort, database, Promise!vars

LEMMA CreateCommitPromise ==
    ASSUME IInv, NEW r \in Requests, CreateCommit(r) PROVE Promise!Next
<1> PICK cites \in SUBSET (IF kept THEN Evidence ELSE {}) : opps' = [a \in {tx[r].a} |-> cites]
    BY DEF CreateCommit
<1>1. /\ tx[r].a \in Reports /\ input = "none" /\ DOMAIN opps = {} /\ cites \in SUBSET Evidence
      /\ input' = "here" /\ member' = member
    BY Known DEF CreateCommit, Sound, OnNew, RowsRefer
<1>2. opps' = [b \in DOMAIN opps \cup {tx[r].a} |-> IF b = tx[r].a THEN cites ELSE opps[b]]
    BY <1>1
<1>3. Promise!Add(tx[r].a, cites)
    BY <1>1, <1>2 DEF Promise!Add
<1> QED
    BY <1>1, <1>3 DEF Promise!Next

LEMMA RerunCommitPromise ==
    ASSUME IInv, NEW r \in Requests, RerunCommit(r) PROVE Promise!Next
<1> PICK cites \in SUBSET (IF kept THEN Evidence ELSE {}) :
        opps' = [b \in DOMAIN opps \cup {tx[r].a} |-> IF b = tx[r].a THEN cites ELSE opps[b]]
    BY DEF RerunCommit
<1>1. /\ tx[r].a \in Reports /\ tx[r].a \notin DOMAIN opps /\ input = "here" /\ DOMAIN opps # {}
      /\ cites \in SUBSET Evidence /\ input' = input /\ member' = member
    BY Known DEF RerunCommit, Sound, OnNew, RowsRefer
<1>2. Promise!Add(tx[r].a, cites)
    BY <1>1 DEF Promise!Add
<1> QED
    BY <1>1, <1>2 DEF Promise!Next

\* The deletion that comes second finds nothing.
LEMMA DeleteCommitPromise ==
    ASSUME IInv, NEW r \in Requests, DeleteCommit(r)
    PROVE  Promise!Next \/ UNCHANGED Promise!vars
<1>1. /\ DOMAIN opps = tx[r].dead /\ input \in {"here", "gone"}
      /\ input' = "gone" /\ member' = FALSE /\ member \in BOOLEAN
      /\ opps' = [a \in DOMAIN opps \ tx[r].dead |-> opps[a]]
    BY Known DEF DeleteCommit, Sound, TypeOK
<1>2. opps' = <<>>
    BY <1>1
<1>3. CASE input = "here"
    BY <1>1, <1>2, <1>3 DEF Promise!Delete, Promise!Next
<1>4. CASE input = "gone"
    <2>1. DOMAIN opps = {} /\ ~member
        BY <1>4, Known DEF RowsRefer
    <2>2. opps = <<>>
        BY <2>1, Known DEF TypeOK
    <2> QED
        BY <1>1, <1>2, <1>4, <2>1, <2>2 DEF Promise!vars
<1> QED
    BY <1>1, <1>3, <1>4

LEMMA SynthesisCommitPromise ==
    ASSUME IInv, NEW r \in Requests, SynthesisCommit(r)
    PROVE  Promise!Next \/ UNCHANGED Promise!vars
<1>1. /\ tx[r].a \in Reports /\ tx[r].a \in DOMAIN opps /\ tx[r].value \in SUBSET Evidence
      /\ tx[r].locked \in BOOLEAN
      /\ input' = input /\ member' = member
      /\ opps' = IF tx[r].locked THEN [opps EXCEPT ![tx[r].a] = tx[r].value] ELSE opps
    BY Known DEF SynthesisCommit, Sound, OnReport, Writing, Transactions
<1>2. CASE tx[r].locked
    BY <1>1, <1>2 DEF Promise!Synthesize, Promise!Next
<1>3. CASE ~tx[r].locked
    BY <1>1, <1>3 DEF Promise!vars
<1> QED
    BY <1>1, <1>2, <1>3

LEMMA MembershipPromise ==
    ASSUME IInv, \/ \E r \in Requests : JoinCommit(r)
                 \/ CreateProject \/ Leave \/ DeleteProject \/ Reset
    PROVE  Promise!Next \/ UNCHANGED Promise!vars
<1>1. ASSUME NEW r \in Requests, JoinCommit(r) PROVE Promise!Next
    <2>1. input = "here"
        BY <1>1, Known DEF JoinCommit, Sound
    <2> QED
        BY <1>1, <2>1 DEF JoinCommit, Promise!Enlist, Promise!Next
<1>2. CASE Leave \/ DeleteProject
    BY <1>2 DEF Leave, DeleteProject, Promise!Unlist, Promise!Next
<1>3. CASE CreateProject \/ Reset
    BY <1>3 DEF CreateProject, Reset, Promise!vars
<1> QED
    BY <1>1, <1>2, <1>3

\* The commits are the steps of the history; everything else is none.
LEMMA NextPromise == IInv /\ [Next]_vars => [Promise!Next]_(Promise!vars)
<1> SUFFICES ASSUME IInv, [Next]_vars PROVE Promise!Next \/ UNCHANGED Promise!vars
    OBVIOUS
<1>1. ASSUME NEW r \in Requests,
             CreateCommit(r) \/ RerunCommit(r) \/ DeleteCommit(r) \/ SynthesisCommit(r)
      PROVE  Promise!Next \/ UNCHANGED Promise!vars
    BY <1>1, CreateCommitPromise, RerunCommitPromise, DeleteCommitPromise, SynthesisCommitPromise
<1>2. ASSUME NEW r \in Requests,
             \/ Create(r) \/ Rerun(r) \/ Refresh(r) \/ RefreshNext(r) \/ RerunInsert(r)
             \/ Delete(r) \/ DeleteLinks(r) \/ DeleteLinksDone(r) \/ DeleteReports(r) \/ DeleteInput(r)
      PROVE  UNCHANGED Promise!vars
    BY <1>2, QuietPromise DEF Create, Rerun, Refresh, RefreshNext, RerunInsert, Delete, DeleteLinks,
        DeleteLinksDone, DeleteReports, DeleteInput
<1>3. ASSUME NEW r \in Requests, Synthesis(r) PROVE UNCHANGED Promise!vars
    BY <1>3 DEF Synthesis, database, Promise!vars
<1>4. ASSUME NEW r \in Requests,
             \/ SynthesisAnswer(r) \/ SynthesisUpdate(r) \/ SynthesisUnlink(r)
             \/ SynthesisUnlinkDone(r) \/ SynthesisLink(r) \/ Join(r) \/ JoinInsert(r) \/ Victim(r)
      PROVE  UNCHANGED Promise!vars
    BY <1>4, QuietPromise DEF SynthesisAnswer, SynthesisUpdate, SynthesisUnlink,
        SynthesisUnlinkDone, SynthesisLink, Join, JoinInsert, Victim
<1>5. CASE \/ \E r \in Requests : JoinCommit(r)
           \/ CreateProject \/ Leave \/ DeleteProject \/ Reset
    BY <1>5, MembershipPromise
<1>6. CASE UNCHANGED vars
    BY <1>6 DEF vars, database, Promise!vars
<1> QED
    BY <1>1, <1>2, <1>3, <1>4, <1>5, <1>6 DEF Next

\* Statement by statement, overlapping and failing, the requests implement the
\* history of a thread that grows, or goes as a whole and for good.
THEOREM ImplementsHistory == Spec => KeepsItsPromise
<1> QED
    BY InitPromise, NextPromise, Inductive, PTL DEF Spec, KeepsItsPromise, Promise!Spec
=============================================================================
