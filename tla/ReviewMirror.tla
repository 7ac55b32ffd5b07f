----------------------------- MODULE ReviewMirror -----------------------------
(***************************************************************************)
(* The review status of a candidate gap or an assessment, and its mirror   *)
(* in analysis_claims.                                                     *)
(*                                                                         *)
(* A human reviews a gap (review_gap) or an assessment (review_assessment) *)
(* through a request that runs as one database transaction: it loads the   *)
(* source row, assigns the verdict, and calls sync_claim_status, which     *)
(* reads the linked claims - the session flushes the source row first -    *)
(* and assigns the same verdict to them.  The database is PostgreSQL at    *)
(* READ COMMITTED: a SELECT sees what is committed, an UPDATE locks its    *)
(* row until the end of the transaction.  The session writes only the      *)
(* columns whose value differs from the one it loaded.                     *)
(*                                                                         *)
(* All claims of a source are written together, so one status stands for   *)
(* them; human_reviewed is shown as the status its claims mirror.          *)
(***************************************************************************)
EXTENDS Naturals

CONSTANTS
    Gaps,          \* rows of candidate_gaps
    Assessments,   \* rows of research_assessments
    Transactions,  \* server threads, each serving one review at a time
    None

ASSUME SourcesAssumption == Gaps \cap Assessments = {}
ASSUME NoneAssumption == None \notin Gaps \cup Assessments

Sources == Gaps \cup Assessments

Statuses == {"pending", "approved", "rejected"}

\* review_gap accepts three statuses, human_reviewed is a flag.
VerdictsOn(s) == IF s \in Gaps THEN Statuses ELSE {"pending", "approved"}

VARIABLES
    status,  \* the source row: "none" before it is saved, "deleted" after
    claim,   \* its claims: "none" if it has none
    tx,      \* the review each thread is serving
    locked,  \* the threads that hold the lock of their source row
    alone,   \* history: those whose row no other review has worked on since
    doubt    \* history: the sources in doubt, see ReviewCommit

vars == <<status, claim, tx, locked, alone, doubt>>

\* seen, claimSeen: the values the session loaded.
Reviews == [pc: {"idle", "flush", "read", "commit"}, src: Sources \cup {None},
            to: Statuses, seen: Statuses, claimSeen: Statuses \cup {"none"}]

NoReview == [pc |-> "idle", src |-> None, to |-> "pending", seen |-> "pending",
             claimSeen |-> "none"]

TypeOK ==
    /\ status \in [Sources -> Statuses \cup {"none", "deleted"}]
    /\ claim \in [Sources -> Statuses \cup {"none"}]
    /\ tx \in [Transactions -> Reviews]
    /\ \A t \in Transactions : tx[t].pc # "idle" => tx[t].src \in Sources
    /\ locked \subseteq Transactions
    /\ alone \subseteq Transactions
    /\ doubt \subseteq Sources

-----------------------------------------------------------------------------

Live(s) == status[s] \in Statuses

Active(t, s) == tx[t].pc # "idle" /\ tx[t].src = s

Locked(s) == \E t \in locked : tx[t].src = s

Finish(t) ==
    /\ tx' = [tx EXCEPT ![t] = NoReview]
    /\ locked' = locked \ {t}
    /\ alone' = alone \ {t}

\* A gap saved before the mirror existed has no claim.
Init ==
    /\ \E legacy \in SUBSET Gaps :
         status = [s \in Sources |-> IF s \in legacy THEN "pending" ELSE "none"]
    /\ claim = [s \in Sources |-> "none"]
    /\ tx = [t \in Transactions |-> NoReview]
    /\ locked = {} /\ alone = {} /\ doubt = {}

\* save_candidate_gaps: gap and claim in one commit.
SaveGap(g) ==
    /\ status[g] = "none"
    /\ status' = [status EXCEPT ![g] = "pending"]
    /\ claim' = [claim EXCEPT ![g] = "pending"]
    /\ UNCHANGED <<tx, locked, alone, doubt>>

\* build_assessment: no claim when no field has both text and evidence.
SaveAssessment(a) ==
    /\ status[a] = "none"
    /\ status' = [status EXCEPT ![a] = "pending"]
    /\ \E c \in {"none", "pending"} : claim' = [claim EXCEPT ![a] = c]
    /\ UNCHANGED <<tx, locked, alone, doubt>>

\* delete_assessment waits for the row, and leaves the claims where they are.
DeleteAssessment(a) ==
    /\ Live(a)
    /\ ~Locked(a)
    /\ status' = [status EXCEPT ![a] = "deleted"]
    /\ UNCHANGED <<claim, tx, locked, alone, doubt>>

\* session.get(...) and the assignments.
ReviewLoad(t, s, verdict) ==
    /\ tx[t].pc = "idle"
    /\ Live(s)
    /\ tx' = [tx EXCEPT ![t] = [NoReview EXCEPT !.pc = "flush", !.src = s, !.to = verdict,
                                                !.seen = status[s]]]
    /\ LET others == {u \in Transactions : Active(u, s)}
       IN  alone' = (alone \ others) \cup (IF others = {} THEN {t} ELSE {})
    /\ UNCHANGED <<status, claim, locked, doubt>>

\* Mutant: the UPDATE is left to the commit.
ReviewFlush_Late(t) ==
    /\ tx[t].pc = "flush"
    /\ tx' = [tx EXCEPT ![t].pc = "read"]
    /\ UNCHANGED <<status, claim, locked, alone, doubt>>

\* The session flushes before it selects the claims.  The UPDATE of a gap also
\* carries reviewed_at, which a verdict other than "pending" always changes,
\* the note and the ratings; it is empty when nothing changed, waits for the
\* row's lock, and fails the request when the row is gone (StaleDataError).
ReviewFlush(t) ==
    /\ tx[t].pc = "flush"
    /\ \E dirty \in BOOLEAN :
         /\ tx[t].to # tx[t].seen => dirty
         /\ (tx[t].src \in Gaps /\ tx[t].to # "pending") => dirty
         /\ (tx[t].src \in Assessments /\ tx[t].to = tx[t].seen) => ~dirty
         /\ dirty => ~Locked(tx[t].src)
         /\ IF dirty /\ ~Live(tx[t].src)
            THEN Finish(t)
            ELSE /\ tx' = [tx EXCEPT ![t].pc = "read"]
                 /\ locked' = locked \cup (IF dirty THEN {t} ELSE {})
                 /\ UNCHANGED alone
    /\ UNCHANGED <<status, claim, doubt>>

\* sync_claim_status: the SELECT.
ReviewRead(t) ==
    /\ tx[t].pc = "read"
    /\ tx' = [tx EXCEPT ![t].pc = "commit", ![t].claimSeen = claim[tx[t].src]]
    /\ UNCHANGED <<status, claim, locked, alone, doubt>>

\* The claims that differ are updated and all of it becomes visible.  A source
\* is in doubt from the commit of a review that overlapped another one and
\* confirmed the status it had loaded, until a review that overlapped none.
ReviewCommit(t) ==
    /\ tx[t].pc = "commit"
    /\ LET s == tx[t].src  v == tx[t].to
       IN  /\ status' = [status EXCEPT ![s] = IF tx[t].seen # v THEN v ELSE @]
           /\ claim' = [claim EXCEPT ![s] =
                          IF tx[t].claimSeen \in {"none", v} THEN @ ELSE v]
           /\ doubt' = IF t \in alone THEN doubt \ {s}
                       ELSE IF tx[t].seen = v THEN doubt \cup {s} ELSE doubt
    /\ Finish(t)

Next ==
    \/ \E g \in Gaps : SaveGap(g)
    \/ \E a \in Assessments : SaveAssessment(a) \/ DeleteAssessment(a)
    \/ \E t \in Transactions :
         \/ \E s \in Sources : \E verdict \in VerdictsOn(s) : ReviewLoad(t, s, verdict)
         \/ ReviewFlush(t)
         \/ ReviewRead(t)
         \/ ReviewCommit(t)

Spec == Init /\ [][Next]_vars

-----------------------------------------------------------------------------

\* What sync_claim_status achieves: the claims show the verdict of their
\* source, unless a review of that source overlapped another one and confirmed
\* the status it had loaded; and the next review that runs undisturbed brings
\* them together again.  Two reviews that both change the status serialize on
\* the row's lock and cannot separate the layers.
MirrorAgrees ==
    \A s \in Sources : (Live(s) /\ s \notin doubt) => claim[s] \in {"none", status[s]}

\* Why: a review that changes the status holds the row's lock from its flush
\* to its commit; a review that is alone has loaded the current status; and
\* what either of them has read of the claims is still current.
ReviewsReferToRows ==
    \A t \in Transactions : tx[t].pc # "idle" => status[tx[t].src] # "none"

LocksAreExclusive ==
    /\ \A t \in locked : tx[t].pc \in {"read", "commit"}
    /\ \A t, u \in locked : tx[t].src = tx[u].src => t = u

ChangesAreLocked ==
    \A t \in Transactions :
        (tx[t].pc \in {"read", "commit"} /\ tx[t].seen # tx[t].to) => t \in locked

AloneIsCurrent ==
    \A t \in alone :
        /\ tx[t].pc # "idle"
        /\ \A u \in Transactions : Active(u, tx[t].src) => u = t
        /\ Live(tx[t].src) => tx[t].seen = status[tx[t].src]

ReadsAreCurrent ==
    \A t \in Transactions :
        (/\ tx[t].pc = "commit"
         /\ t \in alone \/ (tx[t].seen # tx[t].to /\ tx[t].src \notin doubt))
        => tx[t].claimSeen = claim[tx[t].src]

IInv ==
    /\ TypeOK
    /\ ReviewsReferToRows
    /\ LocksAreExclusive
    /\ ChangesAreLocked
    /\ AloneIsCurrent
    /\ ReadsAreCurrent
    /\ MirrorAgrees
=============================================================================
