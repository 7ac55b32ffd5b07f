------------------------------ MODULE RunLedger ------------------------------
(***************************************************************************)
(* What the run tables promise to whoever reads them: one row per run, a   *)
(* verdict of its own only from the run while it lives, the verdict "no    *)
(* longer running" only after its death, and no way back to "running".     *)
(* How handlers, handles and pids bring this about is PipelineControl.     *)
(***************************************************************************)
CONSTANT Procs

VARIABLES
    life,  \* "absent", then "alive", then "dead"
    row    \* the status of the run's row, "none" before it exists

vars == <<life, row>>

Init ==
    /\ life = [p \in Procs |-> "absent"]
    /\ row = [p \in Procs |-> "none"]

Start(p) ==
    /\ life[p] = "absent"
    /\ life' = [life EXCEPT ![p] = "alive"]
    /\ UNCHANGED row

Record(p) ==
    /\ life[p] = "alive"
    /\ row[p] = "none"
    /\ row' = [row EXCEPT ![p] = "running"]
    /\ UNCHANGED life

\* The run's own verdict, also over an operator's premature "stopped".
Conclude(p) ==
    /\ life[p] = "alive"
    /\ row[p] \in {"running", "stopped"}
    /\ \E verdict \in {"completed", "failed"} : row' = [row EXCEPT ![p] = verdict]
    /\ UNCHANGED life

\* Processes die on their own or are killed, several at once if they must.
Die(S) ==
    /\ \A p \in S : life[p] = "alive"
    /\ life' = [p \in Procs |-> IF p \in S THEN "dead" ELSE life[p]]
    /\ UNCHANGED row

\* The operator's stop marks a row that exists.
Stopped(S) ==
    /\ \A p \in S : row[p] # "none"
    /\ row' = [p \in Procs |-> IF p \in S THEN "stopped" ELSE row[p]]
    /\ UNCHANGED life

\* The panel's verdict on the runs that died.
Reconciled(S) ==
    /\ \A p \in S : row[p] # "none" /\ life[p] = "dead"
    /\ row' = [p \in Procs |-> IF p \in S THEN "reconciled" ELSE row[p]]
    /\ UNCHANGED life

Next ==
    \/ \E p \in Procs : Start(p) \/ Record(p) \/ Conclude(p)
    \/ \E S \in SUBSET Procs : Die(S) \/ Stopped(S) \/ Reconciled(S)

Spec == Init /\ [][Next]_vars
=============================================================================
