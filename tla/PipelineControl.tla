--------------------------- MODULE PipelineControl ---------------------------
(***************************************************************************)
(* Starting, watching and stopping pipeline runs.                          *)
(*                                                                         *)
(* Three parties share the state.  A pipeline process is a CLI command     *)
(* (rb-ingest, rb-extract, ...), started by an operator in a shell or by   *)
(* the API server as a child; it records itself as one row of its *_runs   *)
(* table and writes its outcome there.  The API server keeps the Popen     *)
(* handles of its children in the in-memory dict _RUNNING.  Request        *)
(* handlers of the server run in a thread pool: they read the handles, the *)
(* rows and the operating system's pids in separate steps, then act on     *)
(* what they read.                                                         *)
(*                                                                         *)
(* A run has one process and one row, so both are named by the process.    *)
(***************************************************************************)
EXTENDS Integers, FiniteSets

CONSTANTS
    Keys,        \* pipeline keys (PIPELINE_KEYS)
    RunKeys,     \* the keys that have a *_runs table (RUN_MODEL_BY_KEY)
    Procs,       \* the processes that may be started in a behaviour
    ShellProcs,  \* those of them that an operator may start in a shell
    KeyOf,       \* the key each process runs
    Pids,        \* operating system process ids; a free one may be reused
    Handlers,    \* server threads
    Triggerers, Stoppers, Pollers,   \* the requests each thread may serve
    MaxRestarts, \* bound on server restarts
    None

ASSUME KeysAssumption == RunKeys \subseteq Keys /\ KeyOf \in [Procs -> Keys]
ASSUME ProcsAssumption == IsFiniteSet(Procs)
ASSUME HandlersAssumption ==
    Triggerers \cup Stoppers \cup Pollers \subseteq Handlers
ASSUME RestartsAssumption == MaxRestarts \in Nat
ASSUME NoneAssumption == None \notin Procs

VARIABLES
    os,        \* the operating system's view of each process
    parent,    \* who started it: "server" (reaps it) or "shell"
    pid,       \* its process id, None before it is started
    row,       \* the status column of its *_runs row
    startedAt, \* the started_at column, as the rank of the insert
    handle,    \* _RUNNING: the process whose Popen each key holds
    req,       \* the request each thread is serving
    restarts,  \* how often the server restarted
    overlapped \* history: the keys for which two requests met in the window
               \* between is_running and _RUNNING[key] = proc

vars == <<os, parent, pid, row, startedAt, handle, req, restarts, overlapped>>
procVars == <<os, parent, pid>>
rowVars == <<row, startedAt>>

\* A process starts up, inserts its row and works, writes its outcome, exits.
Up == {"starting", "working", "finishing"}
OsStates == {"unused", "zombie", "gone"} \cup Up

\* "reconciled" is status "failed" with the summary "Process no longer
\* running - marked failed automatically."; "failed" is the run's own verdict.
\* "completed" also stands for an ingestion run's "paused".
Statuses == {"none", "running", "completed", "failed", "stopped", "reconciled"}

PCs == {"idle", "check_rows", "check_pids", "recheck", "spawn", "store",
        "stop_handle", "stop_pop", "stop_pid", "stop_mark",
        "reconcile", "report"}

\* A trigger or a stop is for one key, a status poll for all.
KeyedPCs == PCs \ {"idle", "reconcile", "report"}

\* proc: the local variable proc of trigger() and stop();  rows: the rows a
\* SELECT returned;  seen: history, the runs visible when a trigger arrived.
Requests == [pc: PCs, key: Keys \cup {None}, proc: Procs \cup {None},
             rows: SUBSET Procs, seen: SUBSET Procs]

NoRequest == [pc |-> "idle", key |-> None, proc |-> None, rows |-> {}, seen |-> {}]

TypeOK ==
    /\ os \in [Procs -> OsStates]
    /\ parent \in [Procs -> {"server", "shell"}]
    /\ pid \in [Procs -> Pids \cup {None}]
    /\ row \in [Procs -> Statuses]
    /\ startedAt \in [Procs -> Nat]
    /\ handle \in [Keys -> Procs \cup {None}]
    /\ req \in [Handlers -> Requests]
    /\ \A h \in Handlers : req[h].pc \in KeyedPCs => req[h].key \in Keys
    /\ restarts \in 0..MaxRestarts
    /\ overlapped \in SUBSET Keys

-----------------------------------------------------------------------------

IsUp(p) == os[p] \in Up

\* A zombie keeps its pid until its parent has waited for it.
HoldsPid(p) == IsUp(p) \/ os[p] = "zombie"

\* psutil.pid_exists
PidExists(i) == \E p \in Procs : HoldsPid(p) /\ pid[p] = i

\* proc is not None and proc.poll() is None
Polls(k) == handle[k] # None /\ os[handle[k]] \in Up

\* poll() waits for a dead child: what is_running(key) does to the system.
Reap(S) == [p \in Procs |-> IF p \in S /\ os[p] = "zombie" THEN "gone" ELSE os[p]]

RunningRows(k) == {p \in Procs : KeyOf[p] = k /\ row[p] = "running"}

\* The runs of a key that the rows and their pids show to be alive.
Visible(k) == {p \in RunningRows(k) : IsUp(p)}

\* Popen objects the server dropped while their child was still running: the
\* subprocess module waits for those when the next Popen is created.
Dropped ==
    {p \in Procs : /\ parent[p] = "server"
                   /\ \A k \in Keys : handle[k] # p
                   /\ \A h \in Handlers : req[h].proc # p}

Goto(h, pc) == req' = [req EXCEPT ![h].pc = pc]
Done(h) == req' = [req EXCEPT ![h] = NoRequest]

Init ==
    /\ os = [p \in Procs |-> "unused"]
    /\ parent = [p \in Procs |-> "shell"]
    /\ pid = [p \in Procs |-> None]
    /\ row = [p \in Procs |-> "none"]
    /\ startedAt = [p \in Procs |-> 0]
    /\ handle = [k \in Keys |-> None]
    /\ req = [h \in Handlers |-> NoRequest]
    /\ restarts = 0
    /\ overlapped = {}

-----------------------------------------------------------------------------
\* A pipeline process.

\* An operator types the command; nothing is checked first.
ShellStart(p, i) ==
    /\ p \in ShellProcs
    /\ os[p] = "unused"
    /\ ~PidExists(i)
    /\ os' = [os EXCEPT ![p] = "starting"]
    /\ pid' = [pid EXCEPT ![p] = i]
    /\ UNCHANGED <<parent, rowVars, handle, req, restarts, overlapped>>

\* run = ExtractionRun(status="running", pid=os.getpid()); session.commit()
InsertRow(p) ==
    /\ os[p] = "starting"
    /\ KeyOf[p] \in RunKeys
    /\ os' = [os EXCEPT ![p] = "working"]
    /\ row' = [row EXCEPT ![p] = "running"]
    /\ startedAt' =
          [startedAt EXCEPT ![p] = 1 + Cardinality({q \in Procs : row[q] # "none"})]
    /\ UNCHANGED <<parent, pid, handle, req, restarts, overlapped>>

\* The run writes its own outcome, whatever its row says by then.
Conclude(p, outcome) ==
    /\ os[p] = "working"
    /\ os' = [os EXCEPT ![p] = "finishing"]
    /\ row' = [row EXCEPT ![p] = outcome]
    /\ UNCHANGED <<parent, pid, startedAt, handle, req, restarts, overlapped>>

\* The process ends: after its outcome, or before it when it is killed, or
\* when the commit of the outcome itself fails.
Exit(p) ==
    /\ IsUp(p)
    /\ os' = [os EXCEPT ![p] = IF parent[p] = "server" THEN "zombie" ELSE "gone"]
    /\ UNCHANGED <<parent, pid, rowVars, handle, req, restarts, overlapped>>

-----------------------------------------------------------------------------
\* POST /api/admin/.../run: _trigger_or_409, then trigger().

\* Mutant: only the in-memory registry is asked, not the rows.
TriggerBegin_RegistryOnly(h, k) ==
    /\ h \in Triggerers
    /\ req[h].pc = "idle"
    /\ os' = Reap({handle[k]})
    /\ req' = [req EXCEPT ![h] =
                 IF Polls(k) THEN NoRequest
                 ELSE [NoRequest EXCEPT !.pc = "recheck", !.key = k,
                                        !.seen = Visible(k)]]
    /\ UNCHANGED <<parent, pid, rowVars, handle, restarts, overlapped>>

\* is_running(key) is the first disjunct of the guard: a refusal ends here.
TriggerBegin(h, k) ==
    /\ h \in Triggerers
    /\ req[h].pc = "idle"
    /\ os' = Reap({handle[k]})
    /\ req' = [req EXCEPT ![h] =
                 IF Polls(k) THEN NoRequest
                 ELSE [NoRequest EXCEPT !.pc = "check_rows", !.key = k,
                                        !.seen = Visible(k)]]
    /\ UNCHANGED <<parent, pid, rowVars, handle, restarts, overlapped>>

\* has_running_db_row: SELECT pid ... WHERE status = 'running'
TriggerSelect(h) ==
    /\ req[h].pc = "check_rows"
    /\ req' = [req EXCEPT ![h].pc = "check_pids",
                          ![h].rows = RunningRows(req[h].key)]
    /\ UNCHANGED <<procVars, rowVars, handle, restarts, overlapped>>

\* has_running_db_row: any(psutil.pid_exists(pid) for pid in pids)
TriggerCheckPids(h) ==
    /\ req[h].pc = "check_pids"
    /\ req' = [req EXCEPT ![h] =
                 IF \E p \in @.rows : PidExists(pid[p]) THEN NoRequest
                 ELSE [@ EXCEPT !.pc = "recheck", !.rows = {}]]
    /\ UNCHANGED <<procVars, rowVars, handle, restarts, overlapped>>

\* The triggers of a key that are past their last look at the registry.
Spawning(k) == {h \in Handlers : req[h].pc \in {"spawn", "store"} /\ req[h].key = k}

\* Mutant: trigger() relies on the look its caller took at the registry.
TriggerRecheck_Trusting(h) ==
    /\ req[h].pc = "recheck"
    /\ Goto(h, "spawn")
    /\ overlapped' = overlapped \cup {k \in {req[h].key} : Spawning(k) # {}}
    /\ UNCHANGED <<os, parent, pid, rowVars, handle, restarts>>

\* trigger() asks is_running(key) again: PipelineAlreadyRunning becomes 409.
TriggerRecheck(h) ==
    /\ req[h].pc = "recheck"
    /\ os' = Reap({handle[req[h].key]})
    /\ IF Polls(req[h].key) THEN Done(h) ELSE Goto(h, "spawn")
    /\ overlapped' =
          overlapped \cup {k \in {req[h].key} : ~Polls(k) /\ Spawning(k) # {}}
    /\ UNCHANGED <<parent, pid, rowVars, handle, restarts>>

\* subprocess.Popen, which first waits for the children it dropped.
TriggerSpawn(h, p, i) ==
    /\ req[h].pc = "spawn"
    /\ KeyOf[p] = req[h].key
    /\ os[p] = "unused"
    /\ ~PidExists(i)
    /\ os' = [Reap(Dropped) EXCEPT ![p] = "starting"]
    /\ parent' = [parent EXCEPT ![p] = "server"]
    /\ pid' = [pid EXCEPT ![p] = i]
    /\ req' = [req EXCEPT ![h].pc = "store", ![h].proc = p, ![h].seen = {}]
    /\ UNCHANGED <<rowVars, handle, restarts, overlapped>>

\* Popen fails (no memory, no process to be had): the request ends with an error.
TriggerFail(h) ==
    /\ req[h].pc = "spawn"
    /\ Done(h)
    /\ UNCHANGED <<procVars, rowVars, handle, restarts, overlapped>>

\* _RUNNING[key] = proc; a Popen replaced here is dropped, after one last poll.
TriggerStore(h) ==
    /\ req[h].pc = "store"
    /\ os' = Reap({handle[req[h].key]})
    /\ handle' = [handle EXCEPT ![req[h].key] = req[h].proc]
    /\ Done(h)
    /\ UNCHANGED <<parent, pid, rowVars, restarts, overlapped>>

-----------------------------------------------------------------------------
\* POST /api/admin/{key}/stop: stop_pipeline, which calls stop().

\* The most recent running row is read before anything is killed.
StopBegin(h, k) ==
    /\ h \in Stoppers
    /\ req[h].pc = "idle"
    /\ LET latest == {p \in RunningRows(k) :
                        \A q \in RunningRows(k) : startedAt[q] <= startedAt[p]}
       IN  req' = [req EXCEPT ![h] = [NoRequest EXCEPT !.pc = "stop_handle", !.key = k,
                                        !.rows = IF k \in RunKeys THEN latest ELSE {}]]
    /\ UNCHANGED <<procVars, rowVars, handle, restarts, overlapped>>

\* The registered child is alive: terminate it and wait until it is reaped.
StopKillHandle(h) ==
    /\ req[h].pc = "stop_handle"
    /\ Polls(req[h].key)
    /\ os' = [os EXCEPT ![handle[req[h].key]] = "gone"]
    /\ req' = [req EXCEPT ![h].pc = "stop_pop", ![h].proc = handle[req[h].key]]
    /\ UNCHANGED <<parent, pid, rowVars, handle, restarts, overlapped>>

\* No live child is registered.
StopNoHandle(h) ==
    /\ req[h].pc = "stop_handle"
    /\ ~Polls(req[h].key)
    /\ os' = Reap({handle[req[h].key]})
    /\ Goto(h, "stop_pop")
    /\ UNCHANGED <<parent, pid, rowVars, handle, restarts, overlapped>>

\* _RUNNING.pop(key, None), whichever Popen the key holds by now; a stop that
\* killed no child goes on with the pid of the row.
StopPop(h) ==
    /\ req[h].pc = "stop_pop"
    /\ handle' = [handle EXCEPT ![req[h].key] = None]
    /\ os' = Reap({handle[req[h].key]})
    /\ Goto(h, IF req[h].proc = None THEN "stop_pid" ELSE "stop_mark")
    /\ overlapped' = overlapped \cup {k \in {req[h].key} : Polls(k)}
    /\ UNCHANGED <<parent, pid, rowVars, restarts>>

\* Mutant: the fallback only signals the server's own children.
StopByPid_ChildrenOnly(h) ==
    /\ req[h].pc = "stop_pid"
    /\ LET victims == {q \in Procs : HoldsPid(q) /\ \E p \in req[h].rows : pid[q] = pid[p]}
       IN  /\ os' = [q \in Procs |-> IF q \in victims /\ parent[q] = "server"
                                     THEN "gone" ELSE os[q]]
           /\ IF victims = {} THEN Done(h) ELSE Goto(h, "stop_mark")
    /\ UNCHANGED <<parent, pid, rowVars, handle, restarts, overlapped>>

\* fallback_pid: kill whatever holds the row's pid; 409 when nothing does.
StopByPid(h) ==
    /\ req[h].pc = "stop_pid"
    /\ LET victims == {q \in Procs : HoldsPid(q) /\ \E p \in req[h].rows : pid[q] = pid[p]}
       IN  /\ os' = [q \in Procs |-> IF q \in victims THEN "gone" ELSE os[q]]
           /\ IF victims = {} THEN Done(h) ELSE Goto(h, "stop_mark")
    /\ UNCHANGED <<parent, pid, rowVars, handle, restarts, overlapped>>

\* Mutant: the operator's stop is recorded as the run's own failure.
StopMark_AsFailed(h) ==
    /\ req[h].pc = "stop_mark"
    /\ row' = [p \in Procs |-> IF p \in req[h].rows THEN "failed" ELSE row[p]]
    /\ Done(h)
    /\ UNCHANGED <<procVars, startedAt, handle, restarts, overlapped>>

\* The row read at the beginning is marked, whatever its status is by now.
StopMark(h) ==
    /\ req[h].pc = "stop_mark"
    /\ row' = [p \in Procs |-> IF p \in req[h].rows THEN "stopped" ELSE row[p]]
    /\ Done(h)
    /\ UNCHANGED <<procVars, startedAt, handle, restarts, overlapped>>

-----------------------------------------------------------------------------
\* GET /api/admin/pipeline: pipeline_status.

\* _reconcile_stale_running_runs: SELECT the rows still marked running.
StatusBegin(h) ==
    /\ h \in Pollers
    /\ req[h].pc = "idle"
    /\ req' = [req EXCEPT ![h] = [NoRequest EXCEPT !.pc = "reconcile",
                                    !.rows = {p \in Procs : row[p] = "running"}]]
    /\ UNCHANGED <<procVars, rowVars, handle, restarts, overlapped>>

\* Mutant: a row is stale as soon as the registry does not hold its process.
StatusReconcile_ByRegistry(h) ==
    /\ req[h].pc = "reconcile"
    /\ row' = [p \in Procs |->
                 IF p \in req[h].rows /\ handle[KeyOf[p]] # p THEN "reconciled" ELSE row[p]]
    /\ req' = [req EXCEPT ![h].pc = "report", ![h].rows = {}]
    /\ UNCHANGED <<procVars, startedAt, handle, restarts, overlapped>>

\* Mutant: only the children that the registry holds are reconciled.
StatusReconcile_Registered(h) ==
    /\ req[h].pc = "reconcile"
    /\ row' = [p \in Procs |->
                 IF p \in req[h].rows /\ ~PidExists(pid[p]) /\ handle[KeyOf[p]] = p
                 THEN "reconciled" ELSE row[p]]
    /\ req' = [req EXCEPT ![h].pc = "report", ![h].rows = {}]
    /\ UNCHANGED <<procVars, startedAt, handle, restarts, overlapped>>

\* ... and mark those whose pid no longer exists, in one transaction.
StatusReconcile(h) ==
    /\ req[h].pc = "reconcile"
    /\ row' = [p \in Procs |->
                 IF p \in req[h].rows /\ ~PidExists(pid[p]) THEN "reconciled" ELSE row[p]]
    /\ req' = [req EXCEPT ![h].pc = "report", ![h].rows = {}]
    /\ UNCHANGED <<procVars, startedAt, handle, restarts, overlapped>>

\* Mutant: the flags are computed from the registry without polling.
StatusReport_NoPoll(h) ==
    /\ req[h].pc = "report"
    /\ Done(h)
    /\ UNCHANGED <<procVars, rowVars, handle, restarts, overlapped>>

\* The running flags: is_running polls every registered child.
StatusReport(h) ==
    /\ req[h].pc = "report"
    /\ os' = Reap({handle[k] : k \in Keys})
    /\ Done(h)
    /\ UNCHANGED <<parent, pid, rowVars, handle, restarts, overlapped>>

-----------------------------------------------------------------------------

\* The server is restarted: the registry and the requests in flight are lost,
\* the detached children live on, and init waits for them from now on.
ServerRestart ==
    /\ restarts < MaxRestarts
    /\ restarts' = restarts + 1
    /\ handle' = [k \in Keys |-> None]
    /\ req' = [h \in Handlers |-> NoRequest]
    /\ parent' = [p \in Procs |-> "shell"]
    /\ os' = Reap(Procs)
    /\ UNCHANGED <<pid, rowVars, overlapped>>

Process(p) ==
    \/ \E i \in Pids : ShellStart(p, i)
    \/ InsertRow(p)
    \/ \E outcome \in {"completed", "failed"} : Conclude(p, outcome)
    \/ Exit(p)

\* A request arrives at an idle thread.
Arrive(h) ==
    \/ \E k \in Keys : TriggerBegin(h, k) \/ StopBegin(h, k)
    \/ StatusBegin(h)

\* A thread goes on with its request.
Serve(h) ==
    \/ TriggerSelect(h)
    \/ TriggerCheckPids(h)
    \/ TriggerRecheck(h)
    \/ \E p \in Procs, i \in Pids : TriggerSpawn(h, p, i)
    \/ TriggerFail(h)
    \/ TriggerStore(h)
    \/ StopKillHandle(h)
    \/ StopPop(h)
    \/ StopNoHandle(h)
    \/ StopByPid(h)
    \/ StopMark(h)
    \/ StatusReconcile(h)
    \/ StatusReport(h)

Next ==
    \/ \E p \in Procs : Process(p)
    \/ \E h \in Handlers : Arrive(h) \/ Serve(h)
    \/ ServerRestart

Spec == Init /\ [][Next]_vars

\* Batch jobs are finite, a thread finishes the request it serves, and the
\* admin page polls for as long as it is open: now and then one of its requests
\* gets a thread, though the threads serve other requests in between.
Fairness ==
    /\ \A p \in Procs : WF_vars(Exit(p))
    /\ \A h \in Handlers : WF_vars(Serve(h))
    /\ SF_vars(\E h \in Pollers : StatusBegin(h))

FairSpec == Spec /\ Fairness

-----------------------------------------------------------------------------
(***************************************************************************)
(* What the code guarantees.                                               *)
(***************************************************************************)

\* _reconcile_stale_running_runs never declares a live run failed, though the
\* rows it acts on were read earlier and pids are reused in between.
ReconcileSparesTheLiving ==
    \A p \in Procs : row[p] = "reconciled" => ~IsUp(p)

\* A trigger that gets as far as Popen started no duplicate of a run that was
\* visible when it arrived and still is: not of its own earlier child, not of
\* a run from a shell, not of one that outlived a restart (has_running_db_row).
RefusedWhileVisible ==
    \A h \in Handlers :
        req[h].pc \in {"recheck", "spawn"} => req[h].seen \cap Visible(req[h].key) = {}

\* When stop() falls back to the pid of the row, the process that wrote the
\* row is dead before the row is marked, even if its pid has a new owner.
FallbackStopIsExact ==
    \A h \in Handlers :
        (req[h].pc = "stop_mark" /\ req[h].proc = None) => \A p \in req[h].rows : ~IsUp(p)

\* A key has at most one live child of this server, as long as no two requests
\* for it met in the window the registry leaves open: a trigger that looks
\* before an earlier one has stored its Popen, a stop that pops the Popen of a
\* trigger that came after its kill.
OneChildPerKey ==
    \A p, q \in Procs :
        (/\ p # q /\ KeyOf[p] = KeyOf[q]
         /\ parent[p] = "server" /\ parent[q] = "server"
         /\ IsUp(p) /\ IsUp(q)) => KeyOf[p] \in overlapped

\* Seen through the rows, the handlers, handles and pids implement the ledger.
life == [p \in Procs |-> IF os[p] = "unused" THEN "absent"
                         ELSE IF IsUp(p) THEN "alive" ELSE "dead"]
Ledger == INSTANCE RunLedger
LedgerSpec == Ledger!Spec

\* What makes these inductive: rows come after the start of their process, say
\* that it runs while it works and never go away; what a request remembers
\* refers to such rows; the rows a trigger selected include whatever it saw on
\* arrival that is still visible; a process gets its parent when it is started;
\* and without an overlap the children of a key
\* are in the registry or about to be put there, by one trigger at most.
RowsFollowProcesses ==
    \A p \in Procs : os[p] \in {"unused", "starting"} => row[p] = "none"

WorkingRunIsRecorded ==
    \A p \in Procs : os[p] = "working" => row[p] \in {"running", "stopped"}

RequestsReferToRows ==
    \A h \in Handlers : \A p \in req[h].rows \cup req[h].seen : row[p] # "none"

SelectedAllVisible ==
    \A h \in Handlers :
        req[h].pc = "check_pids" =>
            req[h].seen \cap Visible(req[h].key) \subseteq req[h].rows

UnusedIsNobodys ==
    \A p \in Procs : os[p] = "unused" => parent[p] = "shell"

Children(k) == {p \in Procs : KeyOf[p] = k /\ parent[p] = "server" /\ IsUp(p)}

RegistryKnows ==
    \A k \in Keys \ overlapped :
        \/ /\ Spawning(k) = {}
           /\ Children(k) \subseteq {handle[k]}
        \/ \E h \in Handlers :
              /\ Spawning(k) = {h}
              /\ Children(k) \subseteq IF req[h].pc = "store" THEN {req[h].proc} ELSE {}

IInv ==
    /\ TypeOK
    /\ RowsFollowProcesses
    /\ WorkingRunIsRecorded
    /\ RequestsReferToRows
    /\ SelectedAllVisible
    /\ UnusedIsNobodys
    /\ RegistryKnows
    /\ ReconcileSparesTheLiving
    /\ RefusedWhileVisible
    /\ FallbackStopIsExact

\* A row left "running" by a process that ended does not stay so: the polls of
\* the panel correct it once no process holds its pid.  The exception is a pid
\* held by a child of the server whose Popen was replaced or popped while the
\* child lived: nobody waits for it unless another Popen is created, psutil
\* takes the zombie for a process, and the row, its own or that of an earlier
\* run on the same pid, stays as it is.
StaleRowsHeal ==
    \A p \in Procs :
        (row[p] = "running" /\ os[p] \in {"zombie", "gone"})
            ~> (\/ row[p] # "running"
                \/ [](\E q \in Dropped : os[q] = "zombie" /\ pid[q] = pid[p]))

\* A child that the registry holds does not stay a zombie: the running flags
\* of the same polls wait for it, so that its row can heal too.
RegisteredChildrenAreReaped ==
    \A k \in Keys, p \in Procs :
        (handle[k] = p /\ os[p] = "zombie") ~> os[p] = "gone"

=============================================================================
