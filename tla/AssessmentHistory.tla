--------------------------- MODULE AssessmentHistory ---------------------------
(***************************************************************************)
(* What the assessment routes promise of one research input: its reports   *)
(* form a thread that is opened with its first report, only ever grows     *)
(* ("a rerun always adds a new row, never overwrites"), and is deleted as  *)
(* a whole, for good, from the project that lists it too.  Every operation *)
(* is one step.                                                            *)
(***************************************************************************)
CONSTANTS Reports, Evidence

VARIABLES
    thread,  \* "none", "here" or "gone"
    opps,    \* of each report, the evidence its opportunities cite
    listed   \* whether the project lists the thread

vars == <<thread, opps, listed>>

Init ==
    /\ thread = "none"
    /\ opps = <<>>
    /\ listed = FALSE

\* A report is added to the thread; the first one opens it.
Add(a, cites) ==
    /\ thread # "gone"
    /\ thread = "none" <=> DOMAIN opps = {}
    /\ a \notin DOMAIN opps
    /\ thread' = "here"
    /\ opps' = [b \in DOMAIN opps \cup {a} |-> IF b = a THEN cites ELSE opps[b]]
    /\ UNCHANGED listed

\* The opportunities of one report are replaced.
Synthesize(a, cites) ==
    /\ a \in DOMAIN opps
    /\ opps' = [opps EXCEPT ![a] = cites]
    /\ UNCHANGED <<thread, listed>>

Enlist ==
    /\ thread = "here"
    /\ listed' = TRUE
    /\ UNCHANGED <<thread, opps>>

Unlist ==
    /\ listed' = FALSE
    /\ UNCHANGED <<thread, opps>>

Delete ==
    /\ thread = "here"
    /\ thread' = "gone"
    /\ opps' = <<>>
    /\ listed' = FALSE

Next ==
    \/ \E a \in Reports, cites \in SUBSET Evidence : Add(a, cites) \/ Synthesize(a, cites)
    \/ Enlist
    \/ Unlist
    \/ Delete

Spec == Init /\ [][Next]_vars
=============================================================================
