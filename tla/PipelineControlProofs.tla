------------------------ MODULE PipelineControlProofs ------------------------
(***************************************************************************)
(* Proofs about PipelineControl, for any number of keys, processes, pids,  *)
(* threads and restarts.                                                   *)
(***************************************************************************)
EXTENDS PipelineControl, FiniteSetTheorems, TLAPS

-----------------------------------------------------------------------------
\* Lemmas about what a poll does to the processes.

\* A poll only moves zombies, so what is up, unused or gone stays so.
LEMMA ReapFacts ==
    ASSUME TypeOK, NEW S
    PROVE  /\ Reap(S) \in [Procs -> OsStates]
           /\ \A p \in Procs : os[p] # "zombie" => Reap(S)[p] = os[p]
           /\ \A p \in Procs : os[p] = "zombie" => Reap(S)[p] \in {"zombie", "gone"}
BY DEF TypeOK, Reap, OsStates, Up

LEMMA NoRequestType == NoRequest \in Requests /\ NoRequest.pc \notin KeyedPCs
BY DEF NoRequest, Requests, PCs, KeyedPCs

\* A well-formed request may replace any other.
LEMMA NewRequest ==
    ASSUME TypeOK, NEW h \in Handlers, NEW r \in Requests,
           r.pc \in KeyedPCs => r.key \in Keys, req' = [req EXCEPT ![h] = r]
    PROVE  /\ req' \in [Handlers -> Requests]
           /\ \A g \in Handlers : req'[g].pc \in KeyedPCs => req'[g].key \in Keys
BY DEF TypeOK

\* Seen from the ledger, nothing happens when zombies are waited for.
LEMMA ReapIsInvisible ==
    ASSUME TypeOK, NEW S, os' = Reap(S)
    PROVE  life' = life
<1>1. \A p \in Procs : /\ (os'[p] = "unused") <=> (os[p] = "unused")
                       /\ (os'[p] \in Up) <=> (os[p] \in Up)
  BY ReapFacts DEF Up, TypeOK, OsStates
<1> QED
  BY <1>1 DEF life, IsUp

-----------------------------------------------------------------------------
\* Type correctness.

LEMMA InitTypeOK == Init => TypeOK
BY RestartsAssumption, NoRequestType DEF Init, TypeOK, OsStates, Statuses

LEMMA NextTypeOK == TypeOK /\ [Next]_vars => TypeOK'
<1> SUFFICES ASSUME TypeOK, [Next]_vars PROVE TypeOK'
  OBVIOUS
<1> USE KeysAssumption DEF KeyedPCs
<1>1. ASSUME NEW p \in Procs, Process(p) PROVE TypeOK'
  <2>1. ASSUME NEW i \in Pids, ShellStart(p, i) PROVE TypeOK'
    BY <2>1 DEF ShellStart, TypeOK, rowVars, OsStates, Up
  <2>2. CASE InsertRow(p)
    <3>1. Cardinality({q \in Procs : row[q] # "none"}) \in Nat
      BY ProcsAssumption, FS_Subset, FS_CardinalityType
    <3> QED
      BY <2>2, <3>1 DEF InsertRow, TypeOK, OsStates, Up, Statuses
  <2>3. ASSUME NEW outcome \in {"completed", "failed"}, Conclude(p, outcome)
        PROVE  TypeOK'
    BY <2>3 DEF Conclude, TypeOK, OsStates, Up, Statuses
  <2>4. CASE Exit(p)
    BY <2>4 DEF Exit, TypeOK, rowVars, OsStates, Up
  <2> QED
    BY <1>1, <2>1, <2>2, <2>3, <2>4 DEF Process
<1>2. ASSUME NEW h \in Handlers, Arrive(h) PROVE TypeOK'
  <2>1. ASSUME NEW k \in Keys, TriggerBegin(h, k) PROVE TypeOK'
    <3>1. [NoRequest EXCEPT !.pc = "check_rows", !.key = k, !.seen = Visible(k)] \in Requests
      BY DEF NoRequest, Requests, PCs, Visible, RunningRows
    <3> QED
      BY <2>1, <3>1, NoRequestType, ReapFacts DEF TriggerBegin, TypeOK, rowVars
  <2>2. ASSUME NEW k \in Keys, StopBegin(h, k) PROVE TypeOK'
    <3>1. ASSUME NEW S \in SUBSET Procs
          PROVE  [NoRequest EXCEPT !.pc = "stop_handle", !.key = k, !.rows = S] \in Requests
      BY DEF NoRequest, Requests, PCs
    <3>2. PICK S \in SUBSET Procs :
             req' = [req EXCEPT ![h] = [NoRequest EXCEPT !.pc = "stop_handle",
                                                         !.key = k, !.rows = S]]
      BY <2>2 DEF StopBegin, RunningRows
    <3>3. [NoRequest EXCEPT !.pc = "stop_handle", !.key = k, !.rows = S].key = k
      BY DEF NoRequest
    <3>4. /\ req' \in [Handlers -> Requests]
          /\ \A g \in Handlers : req'[g].pc \in KeyedPCs => req'[g].key \in Keys
      BY <3>1, <3>2, <3>3, NewRequest
    <3> QED
      BY <2>2, <3>4 DEF StopBegin, TypeOK, rowVars, procVars
  <2>3. CASE StatusBegin(h)
    <3>1. [NoRequest EXCEPT !.pc = "reconcile",
                            !.rows = {p \in Procs : row[p] = "running"}] \in Requests
      BY DEF NoRequest, Requests, PCs
    <3> QED
      BY <2>3, <3>1 DEF StatusBegin, TypeOK, rowVars, procVars
  <2> QED
    BY <1>2, <2>1, <2>2, <2>3 DEF Arrive
<1>3. ASSUME NEW h \in Handlers, Serve(h) PROVE TypeOK'
  <2> DEFINE r == req[h]
  <2>0. /\ r \in Requests
        /\ NoRequest \in Requests /\ NoRequest.pc \notin KeyedPCs
        /\ r.pc \in KeyedPCs => r.key \in Keys
    BY NoRequestType DEF TypeOK
  <2>1. CASE TriggerSelect(h)
    BY <2>1, <2>0 DEF TriggerSelect, TypeOK, rowVars, procVars, Requests, PCs, RunningRows
  <2>2. CASE TriggerCheckPids(h)
    <3> DEFINE s == [r EXCEPT !.pc = "recheck", !.rows = {}]
    <3>1. s \in Requests /\ s.key = r.key
      BY <2>0 DEF Requests, PCs
    <3>2. r.key \in Keys
      BY <2>2, <2>0 DEF TriggerCheckPids, PCs
    <3>3. req' = [req EXCEPT ![h] = s] \/ req' = [req EXCEPT ![h] = NoRequest]
      BY <2>2 DEF TriggerCheckPids
    <3>4. /\ req' \in [Handlers -> Requests]
          /\ \A g \in Handlers : req'[g].pc \in KeyedPCs => req'[g].key \in Keys
      <4> HIDE DEF s
      <4> QED
        BY <3>1, <3>2, <3>3, <2>0, NewRequest
    <3> QED
      BY <2>2, <3>4 DEF TriggerCheckPids, TypeOK, rowVars, procVars
  <2>3. CASE TriggerRecheck(h)
    <3> DEFINE s == [r EXCEPT !.pc = "spawn"]
    <3>1. s \in Requests /\ s.key = r.key
      BY <2>0 DEF Requests, PCs
    <3>2. r.key \in Keys
      BY <2>3, <2>0 DEF TriggerRecheck, PCs
    <3>3. req' = [req EXCEPT ![h] = s] \/ req' = [req EXCEPT ![h] = NoRequest]
      BY <2>3 DEF TriggerRecheck, Goto, Done
    <3>4. /\ req' \in [Handlers -> Requests]
          /\ \A g \in Handlers : req'[g].pc \in KeyedPCs => req'[g].key \in Keys
      <4> HIDE DEF s
      <4> QED
        BY <3>1, <3>2, <3>3, <2>0, NewRequest
    <3>5. overlapped' \in SUBSET Keys
      BY <2>3, <3>2 DEF TriggerRecheck, TypeOK
    <3> QED
      BY <2>3, <3>4, <3>5, ReapFacts DEF TriggerRecheck, TypeOK, rowVars
  <2>4. ASSUME NEW p \in Procs, NEW i \in Pids, TriggerSpawn(h, p, i) PROVE TypeOK'
    <3>1. os' \in [Procs -> OsStates]
      BY <2>4, ReapFacts DEF TriggerSpawn, OsStates, Up
    <3> QED
      BY <2>4, <3>1, <2>0 DEF TriggerSpawn, TypeOK, rowVars, Requests, PCs
  <2>5. CASE TriggerStore(h)
    BY <2>5, <2>0, ReapFacts DEF TriggerStore, TypeOK, rowVars, Requests, Done
  <2>6. CASE StopKillHandle(h)
    <3>1. handle[r.key] \in Procs \cup {None}
      BY <2>6, <2>0 DEF StopKillHandle, Polls, TypeOK, PCs
    <3> QED
      BY <2>6, <2>0 DEF StopKillHandle, TypeOK, rowVars, Requests, PCs, OsStates, Polls, Up
  <2>7. CASE StopPop(h)
    <3>1. r.key \in Keys
      BY <2>7, <2>0 DEF StopPop, PCs
    <3>2. overlapped' \in SUBSET Keys
      BY <2>7, <3>1 DEF StopPop, TypeOK
    <3>3. \E c \in {"stop_pid", "stop_mark"} : req' = [req EXCEPT ![h].pc = c]
      BY <2>7 DEF StopPop, Goto
    <3>4. /\ req' \in [Handlers -> Requests]
          /\ \A g \in Handlers : req'[g].pc \in KeyedPCs => req'[g].key \in Keys
      BY <3>1, <3>3, <2>0 DEF TypeOK, Requests, PCs
    <3> QED
      BY <2>7, <3>2, <3>4, ReapFacts DEF StopPop, TypeOK, rowVars
  <2>8. CASE StopNoHandle(h)
    BY <2>8, <2>0, ReapFacts DEF StopNoHandle, TypeOK, rowVars, Requests, PCs, Goto
  <2>9. CASE StopByPid(h)
    BY <2>9, <2>0, SMTT(30)
    DEF StopByPid, TypeOK, rowVars, Requests, PCs, Goto, Done, OsStates, Up
  <2>10. CASE StopMark(h)
    BY <2>10, <2>0 DEF StopMark, TypeOK, procVars, Done, Statuses
  <2>11. CASE StatusReconcile(h)
    BY <2>11, <2>0 DEF StatusReconcile, TypeOK, procVars, Requests, PCs, Statuses
  <2>12. CASE StatusReport(h)
    BY <2>12, <2>0, ReapFacts DEF StatusReport, TypeOK, rowVars, Done
  <2>13. CASE TriggerFail(h)
    BY <2>13, <2>0 DEF TriggerFail, TypeOK, rowVars, procVars, Done
  <2> QED
    BY <1>3, <2>1, <2>2, <2>3, <2>4, <2>5, <2>6, <2>7, <2>8, <2>9, <2>10, <2>11, <2>12, <2>13
    DEF Serve
<1>4. CASE ServerRestart
  BY <1>4, NoRequestType, ReapFacts, RestartsAssumption DEF ServerRestart, TypeOK, rowVars
<1>5. CASE UNCHANGED vars
  BY <1>5 DEF vars, TypeOK
<1> QED
  BY <1>1, <1>2, <1>3, <1>4, <1>5 DEF Next

\* Every variable keeps its type.
THEOREM TypeCorrect == Spec => []TypeOK
<1> QED
  BY InitTypeOK, NextTypeOK, PTL DEF Spec

-----------------------------------------------------------------------------
\* The inductive invariant.

LEMMA InitIInv == Init => IInv
BY InitTypeOK
DEF Init, IInv, RowsFollowProcesses, RequestsReferToRows, SelectedAllVisible,
    ReconcileSparesTheLiving, RefusedWhileVisible, FallbackStopIsExact, UnusedIsNobodys,
    RegistryKnows, Spawning, Children, IsUp, Up, WorkingRunIsRecorded, NoRequest,
    Visible, RunningRows

\* What the invariant says of the requests, and of everything else.
RequestsOK ==
    /\ RequestsReferToRows
    /\ SelectedAllVisible
    /\ RefusedWhileVisible
    /\ FallbackStopIsExact

RunsOK ==
    /\ RowsFollowProcesses
    /\ ReconcileSparesTheLiving
    /\ WorkingRunIsRecorded

\* The part about one request, for the case analysis over the handlers.
RequestOK(h) ==
    /\ \A p \in req[h].rows \cup req[h].seen : row[p] # "none"
    /\ req[h].pc = "check_pids" =>
          req[h].seen \cap Visible(req[h].key) \subseteq req[h].rows
    /\ req[h].pc \in {"recheck", "spawn"} => req[h].seen \cap Visible(req[h].key) = {}
    /\ (req[h].pc = "stop_mark" /\ req[h].proc = None) => \A p \in req[h].rows : ~IsUp(p)

\* The part about the children of the server.
RegistryOK == UnusedIsNobodys /\ RegistryKnows

LEMMA SplitIInv ==
    IInv <=> TypeOK /\ RunsOK /\ RegistryOK /\ \A h \in Handlers : RequestOK(h)
BY DEF IInv, RunsOK, RegistryOK, RequestOK, RequestsReferToRows,
       SelectedAllVisible, RefusedWhileVisible, FallbackStopIsExact

\* No process with a row comes up again, and no row starts to run but that of
\* a process that had none: what a request knows stays true.
Steady ==
    /\ \A p \in Procs : IsUp(p)' => (IsUp(p) \/ row[p] = "none")
    /\ \A p \in Procs : row'[p] = "running" => row[p] \in {"running", "none"}
    /\ \A p \in Procs : row[p] # "none" => row'[p] # "none"

LEMMA OtherRequest ==
    ASSUME TypeOK, TypeOK', Steady,
           NEW h \in Handlers, RequestOK(h), req'[h] = req[h]
    PROVE  RequestOK(h)'
BY DEF TypeOK, Steady, RequestOK, Requests, Visible, RunningRows, IsUp

\* Steps of the processes and of requests that leave the rows alone.
QuietRuns ==
    /\ row' = row
    /\ \A p \in Procs : \/ os'[p] = os[p]
                        \/ os'[p] \in {"zombie", "gone"} /\ os[p] \notin {"unused"}
                        \/ os'[p] = "starting" /\ os[p] = "unused"

LEMMA QuietStep ==
    ASSUME TypeOK, TypeOK', RunsOK, QuietRuns
    PROVE  RunsOK' /\ Steady
BY DEF TypeOK, RunsOK, QuietRuns, Steady, RowsFollowProcesses, ReconcileSparesTheLiving,
       WorkingRunIsRecorded, IsUp, Up, OsStates

LEMMA ReapIsQuiet ==
    ASSUME TypeOK, NEW S, os' = Reap(S), row' = row
    PROVE  QuietRuns
BY ReapFacts DEF QuietRuns

LEMMA ProcessKeepsIInv ==
    ASSUME IInv, TypeOK', RegistryOK', NEW p \in Procs, Process(p)
    PROVE  IInv'
<1>0. TypeOK /\ RunsOK /\ \A h \in Handlers : RequestOK(h)
  BY SplitIInv
<1>1. RunsOK' /\ Steady
  <2>1. ASSUME NEW i \in Pids, ShellStart(p, i) PROVE RunsOK' /\ Steady
    BY <2>1, <1>0, QuietStep DEF ShellStart, QuietRuns, rowVars, TypeOK
  <2>2. CASE InsertRow(p)
    BY <2>2, <1>0
    DEF InsertRow, TypeOK, RunsOK, Steady, RowsFollowProcesses, ReconcileSparesTheLiving,
        WorkingRunIsRecorded, IsUp, Up
  <2>3. ASSUME NEW outcome \in {"completed", "failed"}, Conclude(p, outcome)
        PROVE  RunsOK' /\ Steady
    BY <2>3, <1>0
    DEF Conclude, TypeOK, RunsOK, Steady, RowsFollowProcesses, ReconcileSparesTheLiving,
        WorkingRunIsRecorded, IsUp, Up
  <2>4. CASE Exit(p)
    BY <2>4, <1>0, QuietStep DEF Exit, QuietRuns, rowVars, TypeOK, IsUp, Up
  <2> QED
    BY <2>1, <2>2, <2>3, <2>4 DEF Process
<1>2. req' = req
  BY DEF Process, ShellStart, InsertRow, Conclude, Exit
<1>3. \A h \in Handlers : RequestOK(h)'
  BY <1>0, <1>1, <1>2, OtherRequest
<1>4. TypeOK' /\ RunsOK' /\ \A h \in Handlers : RequestOK(h)'
  BY <1>1, <1>3
<1> QED
  BY <1>4 DEF IInv, RunsOK, RegistryOK, RequestOK, RequestsReferToRows,
              SelectedAllVisible, RefusedWhileVisible, FallbackStopIsExact

\* A request that ends leaves nothing to be right about.
LEMMA NoRequestOK ==
    ASSUME TypeOK, NEW h \in Handlers, req'[h] = NoRequest
    PROVE  RequestOK(h)'
BY DEF RequestOK, NoRequest

\* A handler step is right when the runs stay right, nothing comes back to
\* life, only this request changes and it is right afterwards.
LEMMA HandlerStep ==
    ASSUME IInv, TypeOK', RegistryOK', RunsOK', Steady, NEW h \in Handlers, RequestOK(h)',
           \A g \in Handlers : g # h => req'[g] = req[g]
    PROVE  IInv'
<1>0. TypeOK /\ \A g \in Handlers : RequestOK(g)
  BY SplitIInv
<1>1. \A g \in Handlers : RequestOK(g)'
  BY <1>0, OtherRequest
<1> QED
  BY <1>1 DEF IInv, RunsOK, RegistryOK, RequestOK, RequestsReferToRows,
              SelectedAllVisible, RefusedWhileVisible, FallbackStopIsExact

LEMMA ArriveKeepsIInv ==
    ASSUME IInv, TypeOK', RegistryOK', NEW h \in Handlers, Arrive(h)
    PROVE  IInv'
<1>0. TypeOK /\ RunsOK /\ RequestOK(h)
  BY SplitIInv
<1>1. ASSUME NEW k \in Keys, TriggerBegin(h, k) PROVE IInv'
  <2>1. RunsOK' /\ Steady
    BY <1>1, <1>0, QuietStep, ReapIsQuiet DEF TriggerBegin, rowVars
  <2>2. RequestOK(h)'
    BY <1>1, <1>0 DEF TriggerBegin, RequestOK, NoRequest, Visible, RunningRows, rowVars, TypeOK
  <2> QED
    BY <1>1, <2>1, <2>2, HandlerStep DEF TriggerBegin, TypeOK
<1>2. ASSUME NEW k \in Keys, StopBegin(h, k) PROVE IInv'
  <2>1. RunsOK' /\ Steady
    BY <1>2, <1>0, QuietStep DEF StopBegin, rowVars, procVars, QuietRuns
  <2>2. RequestOK(h)'
    BY <1>2, <1>0 DEF StopBegin, RequestOK, NoRequest, RunningRows, rowVars, TypeOK
  <2> QED
    BY <1>2, <2>1, <2>2, HandlerStep DEF StopBegin, TypeOK
<1>3. CASE StatusBegin(h)
  <2>1. RunsOK' /\ Steady
    BY <1>3, <1>0, QuietStep DEF StatusBegin, rowVars, procVars, QuietRuns
  <2>2. RequestOK(h)'
    BY <1>3, <1>0 DEF StatusBegin, RequestOK, NoRequest, rowVars, TypeOK
  <2> QED
    BY <1>3, <2>1, <2>2, HandlerStep DEF StatusBegin, TypeOK
<1> QED
  BY <1>1, <1>2, <1>3 DEF Arrive

\* What Serve(h) does to the runs: all but two of its steps leave the rows
\* alone, and those two only touch rows that exist, reconciling dead runs.
LEMMA ServeKeepsRuns ==
    ASSUME IInv, TypeOK', NEW h \in Handlers, Serve(h)
    PROVE  RunsOK' /\ Steady
<1>0. TypeOK /\ RunsOK /\ RequestOK(h)
  BY SplitIInv
<1> DEFINE r == req[h]
<1>1. CASE os' = os /\ row' = row
  BY <1>0, <1>1, QuietStep DEF QuietRuns
<1>2. ASSUME NEW S, os' = Reap(S), row' = row PROVE RunsOK' /\ Steady
  BY <1>0, <1>2, QuietStep, ReapIsQuiet
<1>3. ASSUME NEW p \in Procs, NEW i \in Pids, TriggerSpawn(h, p, i)
      PROVE  RunsOK' /\ Steady
  BY <1>0, <1>3, QuietStep, ReapFacts DEF TriggerSpawn, QuietRuns, rowVars
<1>4. CASE StopKillHandle(h)
  <2>1. handle[r.key] \in Procs /\ IsUp(handle[r.key])
    BY <1>0, <1>4 DEF StopKillHandle, Polls, TypeOK, KeyedPCs, PCs, IsUp
  <2> QED
    BY <1>0, <1>4, <2>1, QuietStep DEF StopKillHandle, QuietRuns, rowVars, TypeOK, IsUp, Up
<1>5. CASE StopByPid(h)
  BY <1>0, <1>5, QuietStep DEF StopByPid, QuietRuns, rowVars, TypeOK, HoldsPid, IsUp, Up
<1>6. CASE StopMark(h)
  BY <1>0, <1>6
  DEF StopMark, procVars, TypeOK, RunsOK, Steady, RequestOK, RowsFollowProcesses,
      ReconcileSparesTheLiving, WorkingRunIsRecorded, IsUp
<1>7. CASE StatusReconcile(h)
  <2>1. \A p \in Procs : IsUp(p) => PidExists(pid[p])
    BY DEF PidExists, HoldsPid
  <2> QED
    BY <1>0, <1>7, <2>1
    DEF StatusReconcile, procVars, TypeOK, RunsOK, Steady, RequestOK, RowsFollowProcesses,
        ReconcileSparesTheLiving, WorkingRunIsRecorded, IsUp, Up
<1> QED
  BY <1>1, <1>2, <1>3, <1>4, <1>5, <1>6, <1>7
  DEF Serve, TriggerSelect, TriggerCheckPids, TriggerRecheck, TriggerFail, TriggerStore,
      StopPop, StopNoHandle, StatusReport, rowVars, procVars

\* What a request knows after its own step.
LEMMA ServeKeepsRequest ==
    ASSUME IInv, TypeOK', NEW h \in Handlers, Serve(h), Steady
    PROVE  RequestOK(h)'
<1>0. TypeOK /\ RunsOK /\ RequestOK(h)
  BY SplitIInv
<1> DEFINE r == req[h]
<1>a. r \in Requests /\ (r.pc \in KeyedPCs => r.key \in Keys)
  BY <1>0 DEF TypeOK
\* Nothing the request had seen becomes visible by a handler's step.
<1>b. ASSUME NEW k \in Keys, r.seen \cap Visible(k) = {}
      PROVE  \A p \in r.seen : ~(KeyOf[p] = k /\ row'[p] = "running" /\ os'[p] \in Up)
  BY <1>0, <1>a, <1>b DEF Steady, RequestOK, Requests, Visible, RunningRows, IsUp
<1>1. CASE TriggerSelect(h)
  <2>1. req'[h] = [r EXCEPT !.pc = "check_pids", !.rows = RunningRows(r.key)]
    BY <1>0, <1>1 DEF TriggerSelect, TypeOK
  <2>2. /\ req'[h].pc = "check_pids" /\ req'[h].rows = RunningRows(r.key)
        /\ req'[h].seen = r.seen /\ req'[h].key = r.key
    BY <2>1, <1>a DEF Requests
  <2>3. row' = row
    BY <1>1 DEF TriggerSelect, rowVars
  <2> QED
    BY <1>0, <2>2, <2>3 DEF RequestOK, Visible, RunningRows
<1>2. CASE TriggerCheckPids(h)
  <2>1. CASE req'[h] = NoRequest
    BY <1>0, <2>1, NoRequestOK
  <2>2. CASE req'[h] # NoRequest
    <3>1. /\ \A p \in r.rows : ~PidExists(pid[p])
          /\ req'[h] = [r EXCEPT !.pc = "recheck", !.rows = {}]
      BY <1>0, <1>2, <2>2 DEF TriggerCheckPids, TypeOK
    <3>2. r.seen \cap Visible(r.key) = {}
      BY <1>0, <1>2, <3>1
      DEF TriggerCheckPids, RequestOK, Visible, PidExists, HoldsPid, RunningRows
    <3>3. r.key \in Keys
      BY <1>a, <1>2 DEF TriggerCheckPids, KeyedPCs, PCs
    <3>4. /\ req'[h].pc = "recheck" /\ req'[h].rows = {}
          /\ req'[h].seen = r.seen /\ req'[h].key = r.key
      BY <3>1, <1>a DEF Requests
    <3>5. \A p \in r.seen : ~(KeyOf[p] = r.key /\ row'[p] = "running" /\ os'[p] \in Up)
      BY <1>b, <3>2, <3>3
    <3>6. row' = row
      BY <1>2 DEF TriggerCheckPids, rowVars
    <3> QED
      BY <1>0, <3>4, <3>5, <3>6 DEF RequestOK, Visible, RunningRows, IsUp
  <2> QED
    BY <2>1, <2>2
<1>3. CASE TriggerRecheck(h)
  <2>1. CASE req'[h] = NoRequest
    BY <1>0, <2>1, NoRequestOK
  <2>2. CASE req'[h] # NoRequest
    <3>1. req'[h] = [r EXCEPT !.pc = "spawn"]
      BY <1>0, <1>3, <2>2 DEF TriggerRecheck, Goto, Done, TypeOK
    <3>2. r.key \in Keys /\ r.seen \in SUBSET Procs /\ r.pc = "recheck"
      BY <1>a, <1>3 DEF TriggerRecheck, KeyedPCs, PCs, Requests
    <3>3. \A p \in r.seen : ~(KeyOf[p] = r.key /\ row'[p] = "running" /\ os'[p] \in Up)
      BY <1>0, <1>b, <3>2 DEF RequestOK
    <3>4. /\ req'[h].pc = "spawn" /\ req'[h].rows = r.rows
          /\ req'[h].seen = r.seen /\ req'[h].key = r.key
      BY <3>1, <1>a DEF Requests
    <3> QED
      BY <1>0, <1>3, <3>3, <3>4
      DEF RequestOK, TriggerRecheck, rowVars, Visible, RunningRows, IsUp
  <2> QED
    BY <2>1, <2>2
<1>4. ASSUME NEW p \in Procs, NEW i \in Pids, TriggerSpawn(h, p, i) PROVE RequestOK(h)'
  BY <1>0, <1>4, <1>a DEF TriggerSpawn, RequestOK, TypeOK, Requests, rowVars
<1>5. CASE TriggerFail(h) \/ TriggerStore(h) \/ StopMark(h) \/ StatusReport(h)
  BY <1>0, <1>5, NoRequestOK DEF TriggerFail, TriggerStore, StopMark, StatusReport, Done, TypeOK
<1>6. CASE StopKillHandle(h)
  BY <1>0, <1>6, <1>a DEF StopKillHandle, Polls, RequestOK, TypeOK, Requests, rowVars
<1>7. CASE StopPop(h)
  BY <1>0, <1>7, <1>a DEF StopPop, Goto, RequestOK, TypeOK, Requests, rowVars
<1>8. CASE StopNoHandle(h)
  BY <1>0, <1>8, <1>a DEF StopNoHandle, Goto, RequestOK, TypeOK, Requests, rowVars
<1>9. CASE StopByPid(h)
  <2>1. \A p \in r.rows : ~IsUp(p)'
    BY <1>0, <1>9, <1>a DEF StopByPid, Requests, HoldsPid, IsUp, Up
  <2>2. CASE req'[h] = NoRequest
    BY <1>0, <2>2, NoRequestOK
  <2>3. CASE req'[h] # NoRequest
    <3>1. req'[h] = [r EXCEPT !.pc = "stop_mark"]
      BY <1>0, <1>9, <2>3 DEF StopByPid, Goto, Done, TypeOK
    <3>2. req'[h].pc = "stop_mark" /\ req'[h].rows = r.rows /\ req'[h].seen = r.seen
      BY <3>1, <1>a DEF Requests
    <3>3. row' = row
      BY <1>9 DEF StopByPid, rowVars
    <3> QED
      BY <1>0, <2>1, <3>2, <3>3 DEF RequestOK, IsUp
  <2> QED
    BY <2>2, <2>3
<1>10. CASE StatusReconcile(h)
  BY <1>0, <1>10, <1>a DEF StatusReconcile, RequestOK, TypeOK, Requests, Steady
<1> QED
  BY <1>1, <1>2, <1>3, <1>4, <1>5, <1>6, <1>7, <1>8, <1>9, <1>10 DEF Serve

LEMMA ServeKeepsIInv ==
    ASSUME IInv, TypeOK', RegistryOK', NEW h \in Handlers, Serve(h)
    PROVE  IInv'
<1>1. RunsOK' /\ Steady
  BY ServeKeepsRuns
<1>2. RequestOK(h)'
  BY <1>1, ServeKeepsRequest
<1>3. \A g \in Handlers : g # h => req'[g] = req[g]
  <2>1. \E r : req' = [req EXCEPT ![h] = r]
    BY DEF Serve, TriggerSelect, TriggerCheckPids, TriggerRecheck, TriggerSpawn, TriggerFail,
           TriggerStore, StopKillHandle, StopPop, StopNoHandle, StopByPid, StopMark, StatusReconcile,
           StatusReport, Goto, Done
  <2> QED
    BY <2>1 DEF IInv, TypeOK
<1> QED
  BY <1>1, <1>2, <1>3, HandlerStep

-----------------------------------------------------------------------------
\* The children of the server and its registry.

\* RegistryKnows for one key.
Known(k) ==
    \/ /\ Spawning(k) = {}
       /\ Children(k) \subseteq {handle[k]}
    \/ \E h \in Handlers :
          /\ Spawning(k) = {h}
          /\ Children(k) \subseteq IF req[h].pc = "store" THEN {req[h].proc} ELSE {}

LEMMA KnownStays ==
    ASSUME TypeOK, NEW k \in Keys, Known(k), handle'[k] = handle[k],
           Spawning(k)' = Spawning(k), \A g \in Spawning(k) : req'[g] = req[g],
           Children(k)' \subseteq Children(k)
    PROVE  Known(k)'
<1>1. CASE Spawning(k) = {} /\ Children(k) \subseteq {handle[k]}
  <2>1. Spawning(k)' = {} /\ Children(k)' \subseteq {handle'[k]}
    BY <1>1
  <2> QED
    BY <2>1 DEF Known
<1>2. ASSUME NEW h \in Handlers, Spawning(k) = {h},
             Children(k) \subseteq IF req[h].pc = "store" THEN {req[h].proc} ELSE {}
      PROVE  Known(k)'
  <2>1. /\ Spawning(k)' = {h}
        /\ Children(k)' \subseteq IF req'[h].pc = "store" THEN {req'[h].proc} ELSE {}
    BY <1>2
  <2> QED
    BY <2>1 DEF Known
<1> QED
  BY <1>1, <1>2 DEF Known

\* A step that starts nothing, leaves the registry alone and is not about the
\* last part of a trigger.
LEMMA QuietRegistry ==
    ASSUME TypeOK, RegistryOK, overlapped' = overlapped, handle' = handle, parent' = parent,
           \A p \in Procs : os'[p] \in Up => os[p] \in Up,
           \A p \in Procs : os'[p] = "unused" => os[p] = "unused",
           \A k \in Keys : /\ Spawning(k)' = Spawning(k)
                           /\ \A g \in Spawning(k) : req'[g] = req[g]
    PROVE  RegistryOK'
<1>1. ASSUME NEW k \in Keys \ overlapped PROVE Known(k)'
  <2>1. Known(k)
    BY DEF RegistryOK, RegistryKnows, Known
  <2>2. Children(k)' \subseteq Children(k)
    BY DEF Children, IsUp
  <2> QED
    BY <2>1, <2>2, KnownStays
<1>2. RegistryKnows'
  BY <1>1 DEF RegistryKnows, Known
<1> QED
  BY <1>2 DEF RegistryOK, UnusedIsNobodys

\* The request of one thread changes, away from the last part of a trigger.
LEMMA OtherSpawning ==
    ASSUME TypeOK, NEW h \in Handlers, \A g \in Handlers \ {h} : req'[g] = req[g],
           req[h].pc \notin {"spawn", "store"}, req'[h].pc \notin {"spawn", "store"}
    PROVE  \A k \in Keys : /\ Spawning(k)' = Spawning(k)
                           /\ \A g \in Spawning(k) : req'[g] = req[g]
BY DEF Spawning

\* The same for the other keys, when a trigger comes to its last part or ends.
LEMMA OtherKeys ==
    ASSUME TypeOK, NEW h \in Handlers, \A g \in Handlers \ {h} : req'[g] = req[g],
           req'[h].key = req[h].key \/ req'[h].pc \notin {"spawn", "store"},
           NEW k \in Keys, k # req[h].key
    PROVE  /\ Spawning(k)' = Spawning(k)
           /\ \A g \in Spawning(k) : req'[g] = req[g]
BY DEF Spawning

LEMMA RegistryInit == Init => RegistryOK
BY DEF Init, RegistryOK, UnusedIsNobodys, RegistryKnows, Spawning, Children, NoRequest, IsUp, Up

LEMMA ProcessRegistry ==
    ASSUME TypeOK, RegistryOK, NEW p \in Procs, Process(p)
    PROVE  RegistryOK'
<1>0. /\ req' = req /\ handle' = handle /\ parent' = parent /\ overlapped' = overlapped
      /\ \A q \in Procs : os'[q] = os[q] \/ q = p
  BY DEF Process, ShellStart, InsertRow, Conclude, Exit, TypeOK
<1>s. \A k \in Keys : Spawning(k)' = Spawning(k) /\ \A g \in Spawning(k) : req'[g] = req[g]
  BY <1>0 DEF Spawning
<1>1. ASSUME NEW i \in Pids, ShellStart(p, i) PROVE RegistryOK'
  <2>1. parent[p] = "shell" /\ os[p] = "unused" /\ os'[p] = "starting"
    BY <1>1 DEF ShellStart, RegistryOK, UnusedIsNobodys, TypeOK
  <2>2. ASSUME NEW k \in Keys \ overlapped PROVE Known(k)'
    <3>1. Known(k)
      BY DEF RegistryOK, RegistryKnows, Known
    <3>2. Children(k)' \subseteq Children(k)
      BY <1>0, <2>1 DEF Children, IsUp
    <3> QED
      BY <1>0, <1>s, <3>1, <3>2, KnownStays
  <2>3. RegistryKnows'
    BY <1>0, <2>2 DEF RegistryKnows, Known
  <2> QED
    BY <1>0, <2>1, <2>3 DEF RegistryOK, UnusedIsNobodys
<1>2. CASE InsertRow(p) \/ (\E outcome \in {"completed", "failed"} : Conclude(p, outcome)) \/ Exit(p)
  <2>1. os[p] \in Up /\ os'[p] # "unused"
    BY <1>2 DEF InsertRow, Conclude, Exit, IsUp, Up, TypeOK
  <2>2. \A q \in Procs : (os'[q] \in Up => os[q] \in Up) /\ (os'[q] = "unused" => os[q] = "unused")
    BY <1>0, <2>1
  <2> QED
    BY <1>0, <1>s, <2>2, QuietRegistry
<1> QED
  BY <1>1, <1>2 DEF Process

\* Waiting for zombies starts nothing.
LEMMA ReapStartsNothing ==
    ASSUME TypeOK, NEW S, os' = Reap(S)
    PROVE  \A p \in Procs : /\ os'[p] \in Up => os[p] \in Up
                            /\ os'[p] = "unused" => os[p] = "unused"
BY ReapFacts DEF Up

LEMMA ArriveRegistry ==
    ASSUME TypeOK, RegistryOK, NEW h \in Handlers, Arrive(h)
    PROVE  RegistryOK'
<1>1. /\ handle' = handle /\ parent' = parent /\ overlapped' = overlapped
      /\ os' = os \/ \E S : os' = Reap(S)
  BY DEF Arrive, TriggerBegin, StopBegin, StatusBegin, procVars
<1>2. \A p \in Procs : (os'[p] \in Up => os[p] \in Up) /\ (os'[p] = "unused" => os[p] = "unused")
  BY <1>1, ReapStartsNothing
<1>3. /\ \A g \in Handlers \ {h} : req'[g] = req[g]
      /\ req[h].pc \notin {"spawn", "store"}
      /\ req'[h].pc \notin {"spawn", "store"}
  <2>1. ASSUME NEW k \in Keys, TriggerBegin(h, k)
        PROVE  /\ \A g \in Handlers \ {h} : req'[g] = req[g]
               /\ req[h].pc = "idle"
               /\ req'[h].pc \notin {"spawn", "store"}
    BY <2>1 DEF TriggerBegin, NoRequest, TypeOK
  <2>2. ASSUME NEW k \in Keys, StopBegin(h, k)
        PROVE  /\ \A g \in Handlers \ {h} : req'[g] = req[g]
               /\ req[h].pc = "idle"
               /\ req'[h].pc \notin {"spawn", "store"}
    BY <2>2 DEF StopBegin, NoRequest, TypeOK
  <2>3. CASE StatusBegin(h)
    BY <2>3 DEF StatusBegin, NoRequest, TypeOK
  <2> QED
    BY <2>1, <2>2, <2>3 DEF Arrive
<1> QED
  BY <1>1, <1>2, <1>3, OtherSpawning, QuietRegistry

LEMMA ServeRegistry ==
    ASSUME TypeOK, RegistryOK, NEW h \in Handlers, Serve(h)
    PROVE  RegistryOK'
<1> DEFINE r == req[h]
<1>a. r \in Requests /\ (r.pc \in KeyedPCs => r.key \in Keys)
  BY DEF TypeOK
<1>b. \A k \in Keys \ overlapped : Known(k)
  BY DEF RegistryOK, RegistryKnows, Known
<1>c. NoRequest \in Requests /\ NoRequest.pc = "idle"
  BY NoRequestType DEF NoRequest
<1>1. CASE \/ TriggerSelect(h) \/ TriggerCheckPids(h) \/ StopNoHandle(h) \/ StopMark(h)
           \/ StatusReconcile(h) \/ StatusReport(h)
  <2>1. /\ handle' = handle /\ parent' = parent /\ overlapped' = overlapped
        /\ os' = os \/ \E S : os' = Reap(S)
    BY <1>1 DEF TriggerSelect, TriggerCheckPids, StopNoHandle, StopMark, StatusReconcile,
                StatusReport, procVars
  <2>2. \A p \in Procs : (os'[p] \in Up => os[p] \in Up) /\ (os'[p] = "unused" => os[p] = "unused")
    BY <2>1, ReapStartsNothing
  <2>3. /\ \A g \in Handlers \ {h} : req'[g] = req[g]
        /\ r.pc \notin {"spawn", "store"}
    BY <1>1 DEF TriggerSelect, TriggerCheckPids, StopNoHandle, StopMark, StatusReconcile,
                StatusReport, Goto, Done, TypeOK
  <2>4. req'[h].pc \notin {"spawn", "store"}
    <3>1. CASE TriggerSelect(h) \/ StopNoHandle(h) \/ StatusReconcile(h)
      BY <3>1, <1>a DEF TriggerSelect, StopNoHandle, StatusReconcile, Goto, TypeOK, Requests
    <3>2. CASE StopMark(h) \/ StatusReport(h)
      BY <3>2, <1>c DEF StopMark, StatusReport, Done, TypeOK
    <3>3. CASE TriggerCheckPids(h)
      <4>1. \/ req'[h] = NoRequest
            \/ req'[h] = [r EXCEPT !.pc = "recheck", !.rows = {}]
        BY <3>3 DEF TriggerCheckPids, TypeOK
      <4> QED
        BY <4>1, <1>a, <1>c DEF Requests
    <3> QED
      BY <1>1, <3>1, <3>2, <3>3
  <2> QED
    BY <2>1, <2>2, <2>3, <2>4, OtherSpawning, QuietRegistry
<1>2. CASE StopKillHandle(h) \/ StopByPid(h)
  <2>1. /\ handle' = handle /\ parent' = parent /\ overlapped' = overlapped
        /\ \A p \in Procs : os'[p] = os[p] \/ os'[p] = "gone"
    BY <1>2 DEF StopKillHandle, StopByPid, TypeOK
  <2>2. \A p \in Procs : (os'[p] \in Up => os[p] \in Up) /\ (os'[p] = "unused" => os[p] = "unused")
    BY <2>1 DEF Up
  <2>3. /\ \A g \in Handlers \ {h} : req'[g] = req[g]
        /\ r.pc \notin {"spawn", "store"}
    BY <1>2 DEF StopKillHandle, StopByPid, Goto, Done, TypeOK
  <2>4. req'[h].pc \notin {"spawn", "store"}
    BY <1>2, <1>a, <1>c DEF StopKillHandle, StopByPid, Goto, Done, TypeOK, Requests
  <2> QED
    BY <2>1, <2>2, <2>3, <2>4, OtherSpawning, QuietRegistry
<1>3. CASE StopPop(h)
  <2>0. r.key \in Keys
    BY <1>3, <1>a DEF StopPop, KeyedPCs, PCs
  <2>1. /\ parent' = parent /\ os' = Reap({handle[r.key]})
        /\ handle' = [handle EXCEPT ![r.key] = None]
        /\ overlapped' = overlapped \cup {k \in {r.key} : Polls(k)}
    BY <1>3 DEF StopPop
  <2>2. \A p \in Procs : (os'[p] \in Up => os[p] \in Up) /\ (os'[p] = "unused" => os[p] = "unused")
    BY <2>1, ReapStartsNothing
  <2>3. /\ \A g \in Handlers \ {h} : req'[g] = req[g]
        /\ r.pc \notin {"spawn", "store"}
        /\ req'[h].pc \notin {"spawn", "store"}
    BY <1>3, <1>a DEF StopPop, Goto, TypeOK, Requests
  <2>4. ASSUME NEW k \in Keys \ overlapped' PROVE Known(k)'
    <3>1. Known(k)
      BY <1>b, <2>1
    <3>2. /\ Children(k)' \subseteq Children(k)
          /\ Spawning(k)' = Spawning(k) /\ \A g \in Spawning(k) : req'[g] = req[g]
      BY <2>1, <2>2, <2>3, OtherSpawning DEF Children, IsUp
    <3>3. CASE k # r.key
      BY <2>0, <2>1, <3>1, <3>2, <3>3, KnownStays DEF TypeOK
    <3>4. CASE k = r.key
      <4>1. ~Polls(k)
        BY <2>1, <3>4
      <4>2. Children(k) \subseteq {handle[k]} => Children(k) = {}
        BY <4>1, NoneAssumption DEF Polls, Children, IsUp
      <4>3. CASE Spawning(k) = {} /\ Children(k) \subseteq {handle[k]}
        BY <3>2, <4>2, <4>3 DEF Known
      <4>4. ASSUME NEW g \in Handlers, Spawning(k) = {g},
                   Children(k) \subseteq IF req[g].pc = "store" THEN {req[g].proc} ELSE {}
            PROVE  Known(k)'
        <5>1. /\ Spawning(k)' = {g}
              /\ Children(k)' \subseteq IF req'[g].pc = "store" THEN {req'[g].proc} ELSE {}
          BY <3>2, <4>4
        <5> QED
          BY <5>1 DEF Known
      <4> QED
        BY <3>1, <4>3, <4>4 DEF Known
    <3> QED
      BY <3>3, <3>4
  <2>5. RegistryKnows'
    BY <2>4 DEF RegistryKnows, Known, TypeOK
  <2> QED
    BY <2>1, <2>2, <2>5 DEF RegistryOK, UnusedIsNobodys
<1>4. CASE TriggerRecheck(h)
  <2>0. r.key \in Keys /\ r.pc = "recheck"
    BY <1>4, <1>a DEF TriggerRecheck, KeyedPCs, PCs
  <2>1. /\ parent' = parent /\ handle' = handle /\ os' = Reap({handle[r.key]})
        /\ overlapped' = overlapped \cup {k \in {r.key} : ~Polls(k) /\ Spawning(k) # {}}
    BY <1>4 DEF TriggerRecheck
  <2>2. \A p \in Procs : (os'[p] \in Up => os[p] \in Up) /\ (os'[p] = "unused" => os[p] = "unused")
    BY <2>1, ReapStartsNothing
  <2>3. \A g \in Handlers \ {h} : req'[g] = req[g]
    BY <1>4 DEF TriggerRecheck, Goto, Done, TypeOK
  <2>c. \A k \in Keys : Children(k)' \subseteq Children(k)
    BY <2>1, <2>2 DEF Children, IsUp
  <2>4. CASE Polls(r.key)
    <3>1. req'[h].pc \notin {"spawn", "store"}
      BY <1>4, <1>c, <2>4 DEF TriggerRecheck, Done, TypeOK
    <3>2. overlapped' = overlapped
      BY <2>1, <2>4
    <3> QED
      BY <2>0, <2>1, <2>2, <2>3, <3>1, <3>2, OtherSpawning, QuietRegistry
  <2>5. CASE ~Polls(r.key)
    <3>1. req'[h] = [r EXCEPT !.pc = "spawn"]
      BY <1>4, <2>5 DEF TriggerRecheck, Goto, TypeOK
    <3>2. req'[h].pc = "spawn" /\ req'[h].key = r.key
      BY <1>a, <3>1 DEF Requests
    <3>3. ASSUME NEW k \in Keys \ overlapped' PROVE Known(k)'
      <4>1. Known(k)
        BY <1>b, <2>1
      <4>2. CASE k # r.key
        <5>1. Spawning(k)' = Spawning(k) /\ \A g \in Spawning(k) : req'[g] = req[g]
          BY <2>3, <3>2, <4>2, OtherKeys
        <5> QED
          BY <2>1, <2>c, <4>1, <5>1, KnownStays
      <4>3. CASE k = r.key
        <5>1. Spawning(k) = {}
          BY <2>1, <2>5, <4>3
        <5>2. Children(k) = {}
          BY <2>5, <4>1, <4>3, <5>1, NoneAssumption DEF Known, Polls, Children, IsUp
        <5>3. Spawning(k)' = {h}
          BY <2>3, <3>2, <4>3, <5>1 DEF Spawning
        <5>4. Children(k)' \subseteq IF req'[h].pc = "store" THEN {req'[h].proc} ELSE {}
          BY <2>c, <5>2, <4>3
        <5> QED
          BY <5>3, <5>4 DEF Known
      <4> QED
        BY <4>2, <4>3
    <3>4. RegistryKnows'
      BY <3>3 DEF RegistryKnows, Known
    <3> QED
      BY <2>1, <2>2, <3>4 DEF RegistryOK, UnusedIsNobodys
  <2> QED
    BY <2>4, <2>5
<1>5. ASSUME NEW p \in Procs, NEW i \in Pids, TriggerSpawn(h, p, i) PROVE RegistryOK'
  <2>0. r.key \in Keys /\ r.pc = "spawn"
    BY <1>5, <1>a DEF TriggerSpawn, KeyedPCs, PCs
  <2>1. /\ KeyOf[p] = r.key /\ handle' = handle /\ overlapped' = overlapped
        /\ parent' = [parent EXCEPT ![p] = "server"]
        /\ os' = [Reap(Dropped) EXCEPT ![p] = "starting"]
    BY <1>5 DEF TriggerSpawn
  <2>2. \A q \in Procs \ {p} :
           /\ parent'[q] = parent[q]
           /\ os'[q] \in Up => os[q] \in Up
           /\ os'[q] = "unused" => os[q] = "unused"
    BY <2>1, ReapFacts DEF TypeOK, Up
  <2>3. os'[p] = "starting"
    BY <2>1, ReapFacts
  <2>4. \A g \in Handlers \ {h} : req'[g] = req[g]
    BY <1>5 DEF TriggerSpawn, TypeOK
  <2>5. req'[h].pc = "store" /\ req'[h].key = r.key /\ req'[h].proc = p
    BY <1>5, <1>a DEF TriggerSpawn, TypeOK, Requests
  <2>6. ASSUME NEW k \in Keys \ overlapped' PROVE Known(k)'
    <3>1. Known(k)
      BY <1>b, <2>1
    <3>2. CASE k # r.key
      <4>1. Spawning(k)' = Spawning(k) /\ \A g \in Spawning(k) : req'[g] = req[g]
        BY <2>4, <2>5, <3>2, OtherKeys
      <4>2. Children(k)' \subseteq Children(k)
        BY <2>1, <2>2, <3>2 DEF Children, IsUp
      <4> QED
        BY <2>1, <3>1, <4>1, <4>2, KnownStays
    <3>3. CASE k = r.key
      <4>1. h \in Spawning(k)
        BY <2>0, <3>3 DEF Spawning
      <4>2. Spawning(k) = {h} /\ Children(k) = {}
        BY <2>0, <3>1, <4>1 DEF Known
      <4>3. Spawning(k)' = {h}
        BY <2>4, <2>5, <3>3, <4>2 DEF Spawning
      <4>4. Children(k)' \subseteq {p}
        BY <2>1, <2>2, <4>2 DEF Children, IsUp
      <4>5. Children(k)' \subseteq IF req'[h].pc = "store" THEN {req'[h].proc} ELSE {}
        BY <2>5, <4>4
      <4> QED
        BY <4>3, <4>5 DEF Known
    <3> QED
      BY <3>2, <3>3
  <2>7. RegistryKnows'
    BY <2>6 DEF RegistryKnows, Known
  <2>8. UnusedIsNobodys'
    BY <2>2, <2>3 DEF RegistryOK, UnusedIsNobodys
  <2> QED
    BY <2>7, <2>8 DEF RegistryOK
<1>6. CASE TriggerFail(h) \/ TriggerStore(h)
  <2>0. r.key \in Keys /\ r.pc \in {"spawn", "store"}
    BY <1>6, <1>a DEF TriggerFail, TriggerStore, KeyedPCs, PCs
  <2>1. /\ parent' = parent /\ overlapped' = overlapped
        /\ os' = os \/ \E S : os' = Reap(S)
        /\ handle' = handle \/ handle' = [handle EXCEPT ![r.key] = r.proc]
        /\ r.pc = "store" => handle' = [handle EXCEPT ![r.key] = r.proc]
    BY <1>6 DEF TriggerFail, TriggerStore, procVars
  <2>2. \A p \in Procs : (os'[p] \in Up => os[p] \in Up) /\ (os'[p] = "unused" => os[p] = "unused")
    BY <2>1, ReapStartsNothing
  <2>3. /\ \A g \in Handlers \ {h} : req'[g] = req[g]
        /\ req'[h].pc \notin {"spawn", "store"}
    BY <1>6, <1>c DEF TriggerFail, TriggerStore, Done, TypeOK
  <2>c. \A k \in Keys : Children(k)' \subseteq Children(k)
    BY <2>1, <2>2 DEF Children, IsUp
  <2>4. ASSUME NEW k \in Keys \ overlapped' PROVE Known(k)'
    <3>1. Known(k)
      BY <1>b, <2>1
    <3>2. CASE k # r.key
      <4>1. Spawning(k)' = Spawning(k) /\ \A g \in Spawning(k) : req'[g] = req[g]
        BY <2>3, <3>2, OtherKeys
      <4>2. handle'[k] = handle[k]
        BY <2>0, <2>1, <3>2 DEF TypeOK
      <4> QED
        BY <2>c, <3>1, <4>1, <4>2, KnownStays
    <3>3. CASE k = r.key
      <4>1. h \in Spawning(k)
        BY <2>0, <3>3 DEF Spawning
      <4>2. /\ Spawning(k) = {h}
            /\ Children(k) \subseteq IF r.pc = "store" THEN {r.proc} ELSE {}
        BY <3>1, <4>1 DEF Known
      <4>3. Spawning(k)' = {}
        BY <2>3, <4>2 DEF Spawning
      <4>4. r.pc = "store" => handle'[k] = r.proc
        BY <2>0, <2>1, <3>3 DEF TypeOK
      <4>5. Children(k)' \subseteq {handle'[k]}
        BY <2>c, <4>2, <4>4
      <4> QED
        BY <4>3, <4>5 DEF Known
    <3> QED
      BY <3>2, <3>3
  <2>5. RegistryKnows'
    BY <2>4 DEF RegistryKnows, Known
  <2> QED
    BY <2>1, <2>2, <2>5 DEF RegistryOK, UnusedIsNobodys
<1> QED
  BY <1>1, <1>2, <1>3, <1>4, <1>5, <1>6 DEF Serve

LEMMA NextRegistry == TypeOK /\ RegistryOK /\ [Next]_vars => RegistryOK'
<1> SUFFICES ASSUME TypeOK, RegistryOK, [Next]_vars PROVE RegistryOK'
  OBVIOUS
<1>1. CASE ServerRestart
  BY <1>1, NoRequestType
  DEF ServerRestart, RegistryOK, UnusedIsNobodys, RegistryKnows, Spawning, Children, NoRequest
<1>2. CASE UNCHANGED vars
  BY <1>2 DEF vars, RegistryOK, UnusedIsNobodys, RegistryKnows, Spawning, Children, IsUp
<1> QED
  BY <1>1, <1>2, ProcessRegistry, ArriveRegistry, ServeRegistry DEF Next

-----------------------------------------------------------------------------
\* All parts together.

LEMMA NextIInv == IInv /\ [Next]_vars => IInv'
<1> SUFFICES ASSUME IInv, [Next]_vars PROVE IInv'
  OBVIOUS
<1>0. TypeOK'
  BY NextTypeOK DEF IInv
<1>r. RegistryOK'
  BY SplitIInv, NextRegistry
<1>1. ASSUME NEW p \in Procs, Process(p) PROVE IInv'
  BY <1>0, <1>r, <1>1, ProcessKeepsIInv
<1>2. ASSUME NEW h \in Handlers, Arrive(h) \/ Serve(h) PROVE IInv'
  BY <1>0, <1>r, <1>2, ArriveKeepsIInv, ServeKeepsIInv
<1>3. CASE ServerRestart
  <2>1. RunsOK' /\ Steady
    BY <1>0, <1>3, SplitIInv, QuietStep, ReapIsQuiet DEF ServerRestart, rowVars
  <2>2. \A h \in Handlers : RequestOK(h)'
    BY <1>3, SplitIInv, NoRequestOK DEF ServerRestart
  <2> QED
    BY <1>0, <1>r, <2>1, <2>2
    DEF IInv, RunsOK, RegistryOK, RequestOK, RequestsReferToRows,
        SelectedAllVisible, RefusedWhileVisible, FallbackStopIsExact
<1>4. CASE UNCHANGED vars
  BY <1>r, <1>4
  DEF vars, RegistryOK, IInv, TypeOK, RowsFollowProcesses, RequestsReferToRows,
      SelectedAllVisible, ReconcileSparesTheLiving, RefusedWhileVisible,
      FallbackStopIsExact, WorkingRunIsRecorded, Visible, RunningRows, IsUp
<1> QED
  BY <1>1, <1>2, <1>3, <1>4 DEF Next

LEMMA Inductive == Spec => []IInv
<1> QED
  BY InitIInv, NextIInv, PTL DEF Spec

-----------------------------------------------------------------------------
\* What the code guarantees, for any instance.

\* The panel never marks a live run as failed (_reconcile_stale_running_runs).
THEOREM ReconcileIsSafe == Spec => []ReconcileSparesTheLiving
<1>1. IInv => ReconcileSparesTheLiving
  BY DEF IInv
<1> QED
  BY <1>1, Inductive, PTL

\* A trigger never duplicates a run it could see from the start
\* (_trigger_or_409 with has_running_db_row).
THEOREM TriggerIsGuarded == Spec => []RefusedWhileVisible
<1>1. IInv => RefusedWhileVisible
  BY DEF IInv
<1> QED
  BY <1>1, Inductive, PTL

\* A stop by pid marks the row of a process that is dead (stop, stop_pipeline).
THEOREM FallbackIsExact == Spec => []FallbackStopIsExact
<1>1. IInv => FallbackStopIsExact
  BY DEF IInv
<1> QED
  BY <1>1, Inductive, PTL

\* A second child of a key needs two requests that met between is_running and
\* _RUNNING[key] = proc (trigger, stop).
THEOREM OneChild == Spec => []OneChildPerKey
<1>1. IInv => OneChildPerKey
  <2> SUFFICES ASSUME IInv, NEW p \in Procs, NEW q \in Procs, p # q,
                      KeyOf[p] = KeyOf[q], parent[p] = "server", parent[q] = "server",
                      IsUp(p), IsUp(q), KeyOf[p] \notin overlapped
               PROVE  FALSE
    BY DEF OneChildPerKey
  <2>1. KeyOf[p] \in Keys \ overlapped
    BY KeysAssumption
  <2>2. {p, q} \subseteq Children(KeyOf[p])
    BY DEF Children
  <2> QED
    BY <2>1, <2>2 DEF IInv, RegistryKnows
<1> QED
  BY <1>1, Inductive, PTL

-----------------------------------------------------------------------------
\* The rows as others read them: PipelineControl implements RunLedger.

LEMMA InitLedger == Init => Ledger!Init
BY DEF Init, Ledger!Init, life

\* What the ledger sees of one process.
LEMMA LifeFacts ==
    ASSUME TypeOK, NEW p \in Procs
    PROVE  /\ life[p] = "absent" <=> os[p] = "unused"
           /\ life[p] = "alive" <=> IsUp(p)
           /\ life[p] = "dead" <=> os[p] \in {"zombie", "gone"}
BY DEF TypeOK, life, IsUp, Up, OsStates

\* Waiting for zombies and starting one unused process.
LEMMA LedgerStart ==
    ASSUME TypeOK, NEW p \in Procs, os[p] = "unused", row' = row,
           os'[p] = "starting",
           \A q \in Procs : q # p => \/ os'[q] = os[q]
                                     \/ os[q] = "zombie" /\ os'[q] \in {"zombie", "gone"}
    PROVE  Ledger!Start(p)
<1>1. life' = [life EXCEPT ![p] = "alive"]
  BY DEF life, IsUp, Up
<1> QED
  BY <1>1 DEF Ledger!Start, life

\* Some processes that were up are not any more, and nothing else is new.
LEMMA LedgerDie ==
    ASSUME TypeOK, row' = row, NEW S \in SUBSET Procs,
           \A p \in S : IsUp(p) /\ os'[p] \in {"zombie", "gone"},
           \A p \in Procs \ S : \/ os'[p] = os[p]
                                \/ os[p] = "zombie" /\ os'[p] = "gone"
    PROVE  Ledger!Die(S)
<1>1. life' = [p \in Procs |-> IF p \in S THEN "dead" ELSE life[p]]
  BY DEF life, IsUp, Up
<1>2. \A p \in S : life[p] = "alive"
  BY LifeFacts
<1> QED
  BY <1>1, <1>2 DEF Ledger!Die

LEMMA ProcessLedger ==
    ASSUME IInv, NEW p \in Procs, Process(p)
    PROVE  Ledger!Next
<1>0. TypeOK
  BY DEF IInv
<1>1. ASSUME NEW i \in Pids, ShellStart(p, i) PROVE Ledger!Next
  <2>1. Ledger!Start(p)
    BY <1>0, <1>1, LedgerStart DEF ShellStart, TypeOK, rowVars
  <2> QED
    BY <2>1 DEF Ledger!Next
<1>2. CASE InsertRow(p)
  <2>1. life' = life /\ life[p] = "alive"
    BY <1>0, <1>2 DEF InsertRow, life, IsUp, Up, TypeOK
  <2>2. row[p] = "none"
    BY <1>2 DEF InsertRow, IInv, RowsFollowProcesses
  <2>3. Ledger!Record(p)
    BY <1>2, <2>1, <2>2 DEF InsertRow, Ledger!Record
  <2> QED
    BY <2>3 DEF Ledger!Next
<1>3. ASSUME NEW outcome \in {"completed", "failed"}, Conclude(p, outcome)
      PROVE  Ledger!Next
  <2>1. life' = life /\ life[p] = "alive"
    BY <1>0, <1>3 DEF Conclude, life, IsUp, Up, TypeOK
  <2>2. row[p] \in {"running", "stopped"}
    BY <1>3 DEF Conclude, IInv, WorkingRunIsRecorded
  <2>3. Ledger!Conclude(p)
    BY <1>3, <2>1, <2>2 DEF Conclude, Ledger!Conclude
  <2> QED
    BY <2>3 DEF Ledger!Next
<1>4. CASE Exit(p)
  <2>1. Ledger!Die({p})
    <3>1. /\ \A q \in {p} : IsUp(q) /\ os'[q] \in {"zombie", "gone"}
          /\ \A q \in Procs \ {p} : os'[q] = os[q]
          /\ row' = row
      BY <1>0, <1>4 DEF Exit, TypeOK, rowVars
    <3> QED
      BY <1>0, <3>1, LedgerDie
  <2> QED
    BY <2>1 DEF Ledger!Next
<1> QED
  BY <1>1, <1>2, <1>3, <1>4 DEF Process

LEMMA ServeLedger ==
    ASSUME IInv, NEW h \in Handlers, Serve(h)
    PROVE  Ledger!Next \/ UNCHANGED Ledger!vars
<1>0. TypeOK /\ RequestOK(h)
  BY SplitIInv
<1> DEFINE r == req[h]
<1>a. r \in Requests /\ (r.pc \in KeyedPCs => r.key \in Keys)
  BY <1>0 DEF TypeOK
<1>1. CASE os' = os /\ row' = row
  BY <1>1 DEF Ledger!vars, life, IsUp
<1>2. ASSUME NEW S, os' = Reap(S), row' = row PROVE UNCHANGED Ledger!vars
  BY <1>0, <1>2, ReapIsInvisible DEF Ledger!vars
<1>3. ASSUME NEW p \in Procs, NEW i \in Pids, TriggerSpawn(h, p, i) PROVE Ledger!Next
  <2>1. \A q \in Procs : q # p => \/ os'[q] = os[q]
                                  \/ os[q] = "zombie" /\ os'[q] \in {"zombie", "gone"}
    BY <1>0, <1>3, ReapFacts DEF TriggerSpawn
  <2>2. os[p] = "unused" /\ os'[p] = "starting" /\ row' = row
    BY <1>0, <1>3, ReapFacts DEF TriggerSpawn, rowVars
  <2> QED
    BY <1>0, <2>1, <2>2, LedgerStart DEF Ledger!Next
<1>4. CASE StopKillHandle(h)
  <2> DEFINE p == handle[r.key]
  <2>1. p \in Procs /\ IsUp(p)
    BY <1>0, <1>4 DEF StopKillHandle, Polls, TypeOK, KeyedPCs, PCs, IsUp
  <2>2. /\ \A q \in {p} : IsUp(q) /\ os'[q] \in {"zombie", "gone"}
        /\ \A q \in Procs \ {p} : os'[q] = os[q]
        /\ row' = row
    BY <1>0, <1>4, <2>1 DEF StopKillHandle, TypeOK, rowVars
  <2>3. Ledger!Die({p})
    BY <1>0, <2>1, <2>2, LedgerDie
  <2> QED
    BY <2>1, <2>3 DEF Ledger!Next
<1>5. CASE StopByPid(h)
  <2> DEFINE S == {q \in Procs : IsUp(q) /\ \E p \in r.rows : pid[q] = pid[p]}
  <2>1. /\ \A q \in S : IsUp(q) /\ os'[q] \in {"zombie", "gone"}
        /\ \A q \in Procs \ S : \/ os'[q] = os[q]
                                \/ os[q] = "zombie" /\ os'[q] = "gone"
        /\ row' = row
    BY <1>0, <1>5 DEF StopByPid, HoldsPid, TypeOK, rowVars
  <2>2. Ledger!Die(S)
    <3> HIDE DEF S
    <3>1. S \in SUBSET Procs
      BY DEF S
    <3> QED
      BY <1>0, <2>1, <3>1, LedgerDie
  <2> QED
    BY <2>2 DEF Ledger!Next
<1>6. CASE StopMark(h)
  <2>1. life' = life
    BY <1>6 DEF StopMark, procVars, life, IsUp
  <2>2. r.rows \in SUBSET Procs /\ \A p \in r.rows : row[p] # "none"
    BY <1>0, <1>a DEF RequestOK, Requests
  <2>3. Ledger!Stopped(r.rows)
    BY <1>6, <2>1, <2>2 DEF StopMark, Ledger!Stopped
  <2> QED
    BY <2>2, <2>3 DEF Ledger!Next
<1>7. CASE StatusReconcile(h)
  <2> DEFINE S == {p \in Procs : p \in r.rows /\ ~PidExists(pid[p])}
  <2>1. life' = life
    BY <1>7 DEF StatusReconcile, procVars, life, IsUp
  <2>2. \A p \in S : row[p] # "none" /\ ~IsUp(p) /\ os[p] # "unused"
    BY <1>0 DEF RequestOK, PidExists, HoldsPid, IInv, RowsFollowProcesses
  <2>3. \A p \in S : row[p] # "none" /\ life[p] = "dead"
    BY <1>0, <2>2, LifeFacts DEF TypeOK, OsStates, IsUp
  <2>4. row' = [p \in Procs |-> IF p \in S THEN "reconciled" ELSE row[p]]
    BY <1>7 DEF StatusReconcile
  <2>5. S \in SUBSET Procs
    OBVIOUS
  <2>6. Ledger!Reconciled(S)
    BY <2>1, <2>3, <2>4 DEF Ledger!Reconciled
  <2> QED
    BY <2>5, <2>6 DEF Ledger!Next
<1> QED
  BY <1>1, <1>2, <1>3, <1>4, <1>5, <1>6, <1>7
  DEF Serve, TriggerSelect, TriggerCheckPids, TriggerRecheck, TriggerFail, TriggerStore,
      StopPop, StopNoHandle, StatusReport, rowVars, procVars

LEMMA NextLedger == IInv /\ [Next]_vars => [Ledger!Next]_(Ledger!vars)
<1> SUFFICES ASSUME IInv, [Next]_vars PROVE Ledger!Next \/ UNCHANGED Ledger!vars
  OBVIOUS
<1>0. TypeOK
  BY DEF IInv
<1>1. ASSUME NEW p \in Procs, Process(p) PROVE Ledger!Next
  BY <1>1, ProcessLedger
<1>2. ASSUME NEW h \in Handlers, Serve(h) PROVE Ledger!Next \/ UNCHANGED Ledger!vars
  BY <1>2, ServeLedger
<1>3. ASSUME NEW h \in Handlers, Arrive(h) PROVE UNCHANGED Ledger!vars
  <2>1. row' = row
    BY <1>3 DEF Arrive, TriggerBegin, StopBegin, StatusBegin, rowVars
  <2>2. os' = os \/ \E S : os' = Reap(S)
    BY <1>3 DEF Arrive, TriggerBegin, StopBegin, StatusBegin, procVars
  <2>3. CASE os' = os
    BY <2>1, <2>3 DEF Ledger!vars, life, IsUp
  <2> QED
    BY <1>0, <2>1, <2>2, <2>3, ReapIsInvisible DEF Ledger!vars
<1>4. CASE ServerRestart
  BY <1>0, <1>4, ReapIsInvisible DEF ServerRestart, rowVars, Ledger!vars
<1>5. CASE UNCHANGED vars
  BY <1>5 DEF vars, Ledger!vars, life, IsUp
<1> QED
  BY <1>1, <1>2, <1>3, <1>4, <1>5 DEF Next

\* Whatever handlers, handles and pids do, the run tables keep the ledger's
\* promises.
THEOREM ImplementsLedger == Spec => LedgerSpec
<1> QED
  BY InitLedger, NextLedger, Inductive, PTL DEF Spec, LedgerSpec, Ledger!Spec
=============================================================================
