--------------------------- MODULE ServicesProofs ---------------------------
(***************************************************************************)
(* Proofs about the smaller services around the database: the review of    *)
(* gaps and claims (ReviewMirror), gap detection (GapDetection), the       *)
(* benchmark's files (AnnotationFiles), questions and answers              *)
(* (SavedQuestions) and the repair scripts (CorpusRepairs).  Spec is that  *)
(* of ReviewMirror, the others are named.                                  *)
(***************************************************************************)
EXTENDS ReviewMirror, GapDetection, AnnotationFiles, SavedQuestions,
        CorpusRepairs, FiniteSetTheorems, TLAPS

\* The initial states satisfy every part of the invariant.
LEMMA ReviewInitInvariant == Init => IInv
<1> SUFFICES ASSUME Init PROVE IInv
    OBVIOUS
<1>1. TypeOK
    BY DEF Init, TypeOK, Reviews, NoReview, Sources, Statuses
<1>2. /\ \A t \in Transactions : tx[t] = NoReview
      /\ locked = {} /\ alone = {}
    BY DEF Init
<1>3. ReviewsReferToRows /\ LocksAreExclusive /\ ChangesAreLocked
    BY <1>2 DEF ReviewsReferToRows, LocksAreExclusive, ChangesAreLocked, NoReview
<1>4. AloneIsCurrent /\ ReadsAreCurrent
    BY <1>2 DEF AloneIsCurrent, ReadsAreCurrent, NoReview
<1>5. MirrorAgrees
    BY DEF Init, MirrorAgrees, Live
<1> QED
    BY <1>1, <1>3, <1>4, <1>5 DEF IInv

\* A source that is saved has no review yet, and agrees with its new claims.
LEMMA ReviewSaveInvariant ==
    ASSUME IInv, NEW s \in Sources, NEW c \in {"none", "pending"},
           status[s] = "none",
           status' = [status EXCEPT ![s] = "pending"],
           claim' = [claim EXCEPT ![s] = c],
           UNCHANGED <<tx, locked, alone, doubt>>
    PROVE  IInv'
<1> USE DEF IInv, TypeOK, Statuses
<1>1. TypeOK'
    OBVIOUS
<1>2. \A t \in Transactions : tx[t].pc # "idle" => tx[t].src \in Sources /\ tx[t].src # s
    BY DEF ReviewsReferToRows
<1>3. ReviewsReferToRows'
    BY <1>2 DEF ReviewsReferToRows
<1>4. LocksAreExclusive' /\ ChangesAreLocked'
    BY DEF LocksAreExclusive, ChangesAreLocked
<1>5. AloneIsCurrent'
    BY <1>2 DEF AloneIsCurrent, Active, Live
<1>6. ReadsAreCurrent'
    BY <1>2 DEF ReadsAreCurrent
<1>7. MirrorAgrees'
    BY DEF MirrorAgrees, Live
<1> QED
    BY <1>1, <1>3, <1>4, <1>5, <1>6, <1>7

\* Deleting a source takes it out of what the mirror is about.
LEMMA DeleteInvariant ==
    ASSUME IInv, NEW a \in Assessments, DeleteAssessment(a)
    PROVE  IInv'
<1> USE DEF IInv, TypeOK, Statuses, DeleteAssessment, Sources
<1>1. TypeOK'
    OBVIOUS
<1>2. ReviewsReferToRows'
    BY DEF ReviewsReferToRows
<1>3. LocksAreExclusive' /\ ChangesAreLocked'
    BY DEF LocksAreExclusive, ChangesAreLocked
<1>4. AloneIsCurrent'
    BY DEF AloneIsCurrent, Active, Live
<1>5. ReadsAreCurrent'
    BY DEF ReadsAreCurrent
<1>6. MirrorAgrees'
    BY DEF MirrorAgrees, Live
<1> QED
    BY <1>1, <1>2, <1>3, <1>4, <1>5, <1>6

\* A review that loads a row ends the solitude of those under way on it.
LEMMA LoadInvariant ==
    ASSUME IInv, NEW t \in Transactions, NEW s \in Sources,
           NEW verdict \in VerdictsOn(s), ReviewLoad(t, s, verdict)
    PROVE  IInv'
<1> DEFINE others == {u \in Transactions : Active(u, s)}
<1> USE DEF IInv
<1>1. /\ status' = status /\ claim' = claim /\ doubt' = doubt /\ locked' = locked
      /\ tx[t].pc = "idle" /\ Live(s)
      /\ alone' = (alone \ others) \cup (IF others = {} THEN {t} ELSE {})
      /\ \A u \in Transactions : u # t => tx'[u] = tx[u]
    BY DEF ReviewLoad, TypeOK
<1>2. tx'[t] = [pc |-> "flush", src |-> s, to |-> verdict, seen |-> status[s],
                claimSeen |-> "none"]
    BY DEF ReviewLoad, NoReview, TypeOK
<1>3. t \notin locked /\ t \notin alone
    BY <1>1 DEF LocksAreExclusive, AloneIsCurrent
<1>4. verdict \in Statuses /\ status[s] \in Statuses
    BY <1>1 DEF VerdictsOn, Statuses, Live
<1>5. TypeOK'
    <2>1. tx'[t] \in Reviews
        BY <1>2, <1>4 DEF Reviews
    <2>2. tx' \in [Transactions -> Reviews]
        BY <1>1, <2>1 DEF ReviewLoad, TypeOK
    <2>3. alone' \subseteq Transactions
        BY <1>1 DEF TypeOK
    <2> QED
        BY <1>1, <1>2, <2>2, <2>3 DEF TypeOK
<1>6. ReviewsReferToRows'
    BY <1>1, <1>2 DEF ReviewsReferToRows, Live, Statuses
<1>7. LocksAreExclusive' /\ ChangesAreLocked'
    BY <1>1, <1>2, <1>3 DEF LocksAreExclusive, ChangesAreLocked, TypeOK
<1>8. AloneIsCurrent'
    <2> SUFFICES ASSUME NEW u \in alone'
                 PROVE  /\ tx'[u].pc # "idle"
                        /\ \A w \in Transactions : Active(w, tx[u].src)' => w = u
                        /\ Live(tx[u].src)' => tx'[u].seen = status'[tx'[u].src]
        BY DEF AloneIsCurrent
    <2>1. CASE u = t
        <3>1. others = {}
            BY <1>1, <1>3, <2>1
        <3>2. \A w \in Transactions : w # t => ~Active(w, s)
            BY <3>1
        <3> QED
            BY <1>1, <1>2, <2>1, <3>2 DEF Active, Live
    <2>2. CASE u # t
        <3>1. u \in Transactions /\ u \in alone /\ u \notin others /\ tx'[u] = tx[u]
            BY <1>1, <2>2 DEF TypeOK
        <3>2. tx[u].pc # "idle" /\ tx[u].src # s
            BY <3>1 DEF AloneIsCurrent, Active
        <3>3. \A w \in Transactions : Active(w, tx[u].src) => w = u
            BY <3>1 DEF AloneIsCurrent
        <3>4. \A w \in Transactions : Active(w, tx[u].src)' => w = u
            BY <1>1, <1>2, <3>1, <3>2, <3>3 DEF Active
        <3>5. Live(tx[u].src) => tx[u].seen = status[tx[u].src]
            BY <3>1 DEF AloneIsCurrent
        <3> QED
            BY <1>1, <3>1, <3>2, <3>4, <3>5 DEF Live
    <2> QED
        BY <2>1, <2>2
<1>9. ReadsAreCurrent'
    <2> SUFFICES ASSUME NEW u \in Transactions, tx'[u].pc = "commit",
                        u \in alone' \/ (tx'[u].seen # tx'[u].to /\ tx'[u].src \notin doubt')
                 PROVE  tx'[u].claimSeen = claim'[tx'[u].src]
        BY DEF ReadsAreCurrent
    <2>1. u # t
        BY <1>2
    <2>2. u \in alone' => u \in alone
        BY <1>1, <2>1
    <2> QED
        BY <1>1, <2>1, <2>2 DEF ReadsAreCurrent
<1>10. MirrorAgrees'
    BY <1>1 DEF MirrorAgrees, Live
<1> QED
    BY <1>5, <1>6, <1>7, <1>8, <1>9, <1>10

\* A step that ends a review, or moves it on without a write, disturbs nobody
\* else's solitude.
LEMMA StillAlone ==
    ASSUME IInv, NEW t \in Transactions,
           status' = status, alone' \subseteq alone,
           \A u \in Transactions : u # t => tx'[u] = tx[u],
           \/ tx'[t].pc = "idle" /\ t \notin alone'
           \/ /\ tx[t].pc # "idle" /\ tx'[t].pc # "idle"
              /\ tx'[t].src = tx[t].src /\ tx'[t].seen = tx[t].seen
    PROVE  AloneIsCurrent'
<1> USE DEF IInv
<1> SUFFICES ASSUME NEW u \in alone'
             PROVE  /\ tx'[u].pc # "idle"
                    /\ \A w \in Transactions : Active(w, tx[u].src)' => w = u
                    /\ Live(tx[u].src)' => tx'[u].seen = status'[tx'[u].src]
    BY DEF AloneIsCurrent
<1>1. u \in Transactions /\ u \in alone
    BY DEF TypeOK
<1>2. /\ tx'[u].pc # "idle"
      /\ tx'[u].src = tx[u].src /\ tx'[u].seen = tx[u].seen
    BY <1>1 DEF AloneIsCurrent
<1>3. \A w \in Transactions : Active(w, tx[u].src)' => Active(w, tx[u].src)
    BY <1>2 DEF Active
<1>4. /\ \A w \in Transactions : Active(w, tx[u].src) => w = u
      /\ Live(tx[u].src) => tx[u].seen = status[tx[u].src]
    BY <1>1 DEF AloneIsCurrent
<1> QED
    BY <1>2, <1>3, <1>4 DEF Live

\* The flush takes the lock when the review changes anything.
LEMMA FlushInvariant ==
    ASSUME IInv, NEW t \in Transactions, ReviewFlush(t)
    PROVE  IInv'
<1> USE DEF IInv
<1>1. /\ status' = status /\ claim' = claim /\ doubt' = doubt
      /\ tx[t].pc = "flush" /\ tx[t] \in Reviews
      /\ \A u \in Transactions : u # t => tx'[u] = tx[u]
      /\ alone' \subseteq alone /\ t \notin locked
    BY DEF ReviewFlush, Finish, TypeOK, LocksAreExclusive
<1>2. \/ /\ tx'[t] = NoReview /\ locked' = locked \ {t} /\ t \notin alone'
      \/ /\ tx'[t] = [tx[t] EXCEPT !.pc = "read"]
         /\ tx[t].to = tx[t].seen
         /\ locked' = locked
      \/ /\ tx'[t] = [tx[t] EXCEPT !.pc = "read"]
         /\ ~Locked(tx[t].src)
         /\ locked' = locked \cup {t}
    <2>1. PICK dirty \in BOOLEAN :
             /\ tx[t].to # tx[t].seen => dirty
             /\ dirty => ~Locked(tx[t].src)
             /\ IF dirty /\ ~Live(tx[t].src)
                THEN Finish(t)
                ELSE /\ tx' = [tx EXCEPT ![t].pc = "read"]
                     /\ locked' = locked \cup (IF dirty THEN {t} ELSE {})
                     /\ UNCHANGED alone
        BY DEF ReviewFlush
    <2>2. CASE dirty /\ ~Live(tx[t].src)
        BY <2>1, <2>2 DEF Finish, TypeOK
    <2>3. CASE ~dirty
        BY <2>1, <2>3 DEF TypeOK
    <2>4. CASE dirty /\ Live(tx[t].src)
        BY <2>1, <2>4 DEF TypeOK
    <2> QED
        BY <2>2, <2>3, <2>4
<1>3. \/ tx'[t] = NoReview
      \/ /\ tx'[t].pc = "read"
         /\ tx'[t].src = tx[t].src /\ tx'[t].to = tx[t].to
         /\ tx'[t].seen = tx[t].seen
    BY <1>1, <1>2 DEF Reviews
<1>4. TypeOK'
    <2>1. tx'[t] \in Reviews
        BY <1>1, <1>2 DEF Reviews, NoReview, Statuses
    <2>2. tx' \in [Transactions -> Reviews]
        BY <1>1, <2>1 DEF ReviewFlush, Finish, TypeOK
    <2>3. locked' \subseteq Transactions /\ alone' \subseteq Transactions
        BY <1>1, <1>2 DEF TypeOK
    <2> QED
        BY <1>1, <1>3, <2>2, <2>3 DEF TypeOK, NoReview
<1>5. ReviewsReferToRows'
    BY <1>1, <1>3 DEF ReviewsReferToRows, NoReview
<1>6. LocksAreExclusive'
    BY <1>1, <1>2, <1>3 DEF LocksAreExclusive, Locked, TypeOK, NoReview
<1>7. ChangesAreLocked'
    BY <1>1, <1>2, <1>3 DEF ChangesAreLocked, NoReview
<1>8. AloneIsCurrent'
    BY <1>1, <1>2, <1>3, StillAlone DEF NoReview
<1>9. ReadsAreCurrent'
    <2> SUFFICES ASSUME NEW u \in Transactions, tx'[u].pc = "commit",
                        u \in alone' \/ (tx'[u].seen # tx'[u].to /\ tx'[u].src \notin doubt')
                 PROVE  tx'[u].claimSeen = claim'[tx'[u].src]
        BY DEF ReadsAreCurrent
    <2>1. u # t /\ tx'[u] = tx[u]
        BY <1>1, <1>3 DEF NoReview
    <2> QED
        BY <1>1, <2>1 DEF ReadsAreCurrent
<1>10. MirrorAgrees'
    BY <1>1 DEF MirrorAgrees, Live
<1> QED
    BY <1>4, <1>5, <1>6, <1>7, <1>8, <1>9, <1>10

\* What is read is current when it is read.
LEMMA ReadInvariant ==
    ASSUME IInv, NEW t \in Transactions, ReviewRead(t)
    PROVE  IInv'
<1> USE DEF IInv
<1>1. /\ status' = status /\ claim' = claim /\ doubt' = doubt
      /\ locked' = locked /\ alone' = alone
      /\ tx[t].pc = "read" /\ tx[t] \in Reviews /\ tx[t].src \in Sources
      /\ \A u \in Transactions : u # t => tx'[u] = tx[u]
      /\ tx'[t] = [tx[t] EXCEPT !.pc = "commit", !.claimSeen = claim[tx[t].src]]
    BY DEF ReviewRead, TypeOK
<1>2. /\ tx'[t].pc = "commit" /\ tx'[t].claimSeen = claim[tx[t].src]
      /\ tx'[t].src = tx[t].src /\ tx'[t].to = tx[t].to /\ tx'[t].seen = tx[t].seen
    BY <1>1 DEF Reviews
<1>3. TypeOK'
    <2>1. tx'[t] \in Reviews
        <3>1. claim[tx[t].src] \in Statuses \cup {"none"}
            BY <1>1 DEF TypeOK
        <3> QED
            BY <1>1, <3>1 DEF Reviews
    <2>2. tx' \in [Transactions -> Reviews]
        BY <1>1, <2>1 DEF ReviewRead, TypeOK
    <2> QED
        BY <1>1, <1>2, <2>2 DEF TypeOK
<1>4. ReviewsReferToRows'
    BY <1>1, <1>2 DEF ReviewsReferToRows
<1>5. LocksAreExclusive' /\ ChangesAreLocked'
    <2>1. \A u \in Transactions : tx'[u].src = tx[u].src /\ tx'[u].to = tx[u].to
                                  /\ tx'[u].seen = tx[u].seen
        BY <1>1, <1>2
    <2>2. \A u \in Transactions : tx'[u].pc \in {"read", "commit"} <=> tx[u].pc \in {"read", "commit"}
        BY <1>1, <1>2
    <2>3. LocksAreExclusive'
        BY <1>1, <2>1, <2>2 DEF LocksAreExclusive, TypeOK
    <2>4. ChangesAreLocked'
        BY <1>1, <2>1, <2>2 DEF ChangesAreLocked
    <2> QED
        BY <2>3, <2>4
<1>6. AloneIsCurrent'
    BY <1>1, <1>2, StillAlone
<1>7. ReadsAreCurrent'
    BY <1>1, <1>2 DEF ReadsAreCurrent
<1>8. MirrorAgrees'
    BY <1>1 DEF MirrorAgrees, Live
<1> QED
    BY <1>3, <1>4, <1>5, <1>6, <1>7, <1>8

\* The commit: with nobody else under way everything read is current; with
\* others, the lock keeps out every review that changes the status.
LEMMA CommitInvariant ==
    ASSUME IInv, NEW t \in Transactions, ReviewCommit(t)
    PROVE  IInv'
<1> DEFINE s == tx[t].src
           v == tx[t].to
<1> USE DEF IInv
<1>1. /\ tx[t].pc = "commit" /\ tx[t] \in Reviews /\ s \in Sources
      /\ v \in Statuses /\ tx[t].seen \in Statuses
      /\ tx'[t] = NoReview
      /\ \A u \in Transactions : u # t => tx'[u] = tx[u]
      /\ locked' = locked \ {t} /\ alone' = alone \ {t}
      /\ doubt' = IF t \in alone THEN doubt \ {s}
                  ELSE IF tx[t].seen = v THEN doubt \cup {s} ELSE doubt
    BY DEF ReviewCommit, Finish, TypeOK, Reviews
<1>2. /\ \A r \in Sources : r # s => status'[r] = status[r] /\ claim'[r] = claim[r]
      /\ status'[s] = IF tx[t].seen # v THEN v ELSE status[s]
      /\ claim'[s] = IF tx[t].claimSeen \in {"none", v} THEN claim[s] ELSE v
    BY <1>1 DEF ReviewCommit, TypeOK
<1>3. TypeOK'
    <2>1. tx' \in [Transactions -> Reviews]
        BY <1>1 DEF ReviewCommit, Finish, TypeOK, Reviews, NoReview, Statuses
    <2>2. status' \in [Sources -> Statuses \cup {"none", "deleted"}]
        BY <1>1 DEF ReviewCommit, TypeOK
    <2>3. claim' \in [Sources -> Statuses \cup {"none"}]
        BY <1>1 DEF ReviewCommit, TypeOK
    <2>4. doubt' \subseteq Sources /\ locked' \subseteq Transactions /\ alone' \subseteq Transactions
        BY <1>1 DEF TypeOK
    <2>5. \A u \in Transactions : tx'[u].pc # "idle" => tx'[u].src \in Sources
        BY <1>1 DEF TypeOK, NoReview
    <2> QED
        BY <2>1, <2>2, <2>3, <2>4, <2>5 DEF TypeOK
<1>4. ReviewsReferToRows'
    BY <1>1, <1>2 DEF ReviewsReferToRows, NoReview, TypeOK, Statuses
<1>5. LocksAreExclusive' /\ ChangesAreLocked'
    BY <1>1 DEF LocksAreExclusive, ChangesAreLocked, NoReview, TypeOK
<1>6. AloneIsCurrent'
    <2> SUFFICES ASSUME NEW u \in alone'
                 PROVE  /\ tx'[u].pc # "idle"
                        /\ \A w \in Transactions : Active(w, tx[u].src)' => w = u
                        /\ Live(tx[u].src)' => tx'[u].seen = status'[tx'[u].src]
        BY DEF AloneIsCurrent
    <2>1. u \in Transactions /\ u # t /\ u \in alone /\ tx'[u] = tx[u]
        BY <1>1 DEF TypeOK
    <2>2. /\ tx[u].pc # "idle" /\ tx[u].src # s
          /\ \A w \in Transactions : Active(w, tx[u].src) => w = u
          /\ Live(tx[u].src) => tx[u].seen = status[tx[u].src]
        BY <1>1, <2>1 DEF AloneIsCurrent, Active
    <2>3. tx[u].src \in Sources /\ status'[tx[u].src] = status[tx[u].src]
        BY <1>2, <2>1, <2>2 DEF TypeOK
    <2>4. \A w \in Transactions : Active(w, tx[u].src)' => w = u
        BY <1>1, <2>1, <2>2 DEF Active, NoReview
    <2> QED
        BY <2>1, <2>2, <2>3, <2>4 DEF Live
<1>7. ReadsAreCurrent'
    <2> SUFFICES ASSUME NEW u \in Transactions, tx'[u].pc = "commit",
                        u \in alone' \/ (tx'[u].seen # tx'[u].to /\ tx'[u].src \notin doubt')
                 PROVE  tx'[u].claimSeen = claim'[tx'[u].src]
        BY DEF ReadsAreCurrent
    <2>1. u # t /\ tx'[u] = tx[u] /\ tx[u].src \in Sources
        BY <1>1 DEF NoReview, TypeOK
    <2>2. CASE tx[u].src # s
        <3>1. u \in alone \/ (tx[u].seen # tx[u].to /\ tx[u].src \notin doubt)
            BY <1>1, <2>1, <2>2
        <3> QED
            BY <1>2, <2>1, <2>2, <3>1 DEF ReadsAreCurrent
    <2>3. CASE tx[u].src = s
        <3>1. u \notin alone /\ t \notin alone
            BY <1>1, <2>1, <2>3 DEF AloneIsCurrent, Active
        <3>2. tx[u].seen # tx[u].to /\ tx[t].seen # v
            BY <1>1, <2>1, <2>3, <3>1
        <3>3. u \in locked /\ t \in locked
            BY <1>1, <2>1, <3>2 DEF ChangesAreLocked
        <3> QED
            BY <2>1, <2>3, <3>3 DEF LocksAreExclusive
    <2> QED
        BY <2>2, <2>3
<1>8. MirrorAgrees'
    <2> SUFFICES ASSUME NEW r \in Sources, Live(r)', r \notin doubt'
                 PROVE  claim'[r] \in {"none", status'[r]}
        BY DEF MirrorAgrees
    <2>1. CASE r # s
        BY <1>1, <1>2, <2>1 DEF MirrorAgrees, Live
    <2>2. CASE r = s /\ t \in alone
        <3>1. tx[t].claimSeen = claim[s]
            BY <1>1, <2>2 DEF ReadsAreCurrent
        <3>2. Live(s) => tx[t].seen = status[s]
            BY <2>2 DEF AloneIsCurrent
        <3>3. status'[s] = v
            BY <1>1, <1>2, <2>2, <3>2 DEF Live
        <3> QED
            BY <1>2, <2>2, <3>1, <3>3
    <2>3. CASE r = s /\ t \notin alone
        <3>1. s \notin doubt /\ tx[t].seen # v
            BY <1>1, <2>3
        <3>2. tx[t].claimSeen = claim[s]
            BY <1>1, <3>1 DEF ReadsAreCurrent
        <3> QED
            BY <1>2, <2>3, <3>1, <3>2
    <2> QED
        BY <2>1, <2>2, <2>3
<1> QED
    BY <1>3, <1>4, <1>5, <1>6, <1>7, <1>8

\* IInv is inductive: every action preserves every part of it.
LEMMA ReviewNextInvariant == IInv /\ [Next]_vars => IInv'
<1> SUFFICES ASSUME IInv, [Next]_vars PROVE IInv'
    OBVIOUS
<1>1. ASSUME NEW g \in Gaps, SaveGap(g) PROVE IInv'
    BY <1>1, ReviewSaveInvariant DEF SaveGap, Sources
<1>2. ASSUME NEW a \in Assessments, SaveAssessment(a) PROVE IInv'
    BY <1>2, ReviewSaveInvariant DEF SaveAssessment, Sources
<1>3. ASSUME NEW a \in Assessments, DeleteAssessment(a) PROVE IInv'
    BY <1>3, DeleteInvariant
<1>4. ASSUME NEW t \in Transactions, NEW s \in Sources, NEW verdict \in VerdictsOn(s),
             ReviewLoad(t, s, verdict)
      PROVE  IInv'
    BY <1>4, LoadInvariant
<1>5. ASSUME NEW t \in Transactions, ReviewFlush(t) PROVE IInv'
    BY <1>5, FlushInvariant
<1>6. ASSUME NEW t \in Transactions, ReviewRead(t) PROVE IInv'
    BY <1>6, ReadInvariant
<1>7. ASSUME NEW t \in Transactions, ReviewCommit(t) PROVE IInv'
    BY <1>7, CommitInvariant
<1>8. CASE UNCHANGED vars
    BY <1>8 DEF vars, IInv, TypeOK, ReviewsReferToRows, LocksAreExclusive, ChangesAreLocked,
                AloneIsCurrent, ReadsAreCurrent, MirrorAgrees, Active, Live
<1> QED
    BY <1>1, <1>2, <1>3, <1>4, <1>5, <1>6, <1>7, <1>8 DEF Next

\* Every variable keeps its type, for any sources and any number of reviews.
THEOREM TypeCorrect == Spec => []TypeOK
<1>1. IInv => TypeOK
    BY DEF IInv
<1> QED
    BY <1>1, ReviewInitInvariant, ReviewNextInvariant, PTL DEF Spec

\* Source and claims agree whenever the source is not in doubt.
THEOREM MirrorIsFaithful == Spec => []MirrorAgrees
<1>1. IInv => MirrorAgrees
    BY DEF IInv
<1> QED
    BY <1>1, ReviewInitInvariant, ReviewNextInvariant, PTL DEF Spec

\* A review that changes the status excludes every other one that writes the
\* same row, from its flush to its commit.
THEOREM ChangesSerialize == Spec => [](LocksAreExclusive /\ ChangesAreLocked)
<1>1. IInv => LocksAreExclusive /\ ChangesAreLocked
    BY DEF IInv
<1> QED
    BY <1>1, ReviewInitInvariant, ReviewNextInvariant, PTL DEF Spec

-----------------------------------------------------------------------------
(* Pairs and linkage *)

LEMMA PairHasTwo ==
    ASSUME NEW pair, Cardinality(pair) = 2, IsFiniteSet(pair)
    PROVE  \E x, y : x # y /\ pair = {x, y}
<1>1. PICK x \in pair : TRUE
    BY FS_EmptySet
<1>2. IsFiniteSet(pair \ {x}) /\ Cardinality(pair \ {x}) = 1
    BY <1>1, FS_RemoveElement
<1>3. PICK y : pair \ {x} = {y}
    BY <1>2, FS_Singleton
<1> QED
    BY <1>1, <1>3

\* A set of grades that is not empty has a least one.
LEMMA LeastGrade ==
    ASSUME NEW S \in SUBSET Grades, S # {}
    PROVE  \E g \in S : \A h \in S : g <= h
<1>1. CASE 0 \in S
    BY <1>1 DEF Grades
<1>2. CASE 0 \notin S /\ 1 \in S
    BY <1>2 DEF Grades
<1>3. CASE 0 \notin S /\ 1 \notin S
    <2>1. \A g \in S : g = 2
        BY <1>3 DEF Grades
    <2> QED
        BY <2>1
<1> QED
    BY <1>1, <1>2, <1>3

\* The linkage of two clusters bounds the grades across them.
LEMMA LinkageBounds ==
    ASSUME NEW a, NEW b, Across(a, b) \subseteq Grades,
           NEW pair \in Pairs(a \cup b), pair \cap a # {}, pair \cap b # {}
    PROVE  Linkage(a, b) <= grade[pair] /\ Linkage(a, b) \in Grades /\ grade[pair] \in Grades
<1>1. grade[pair] \in Across(a, b)
    BY DEF Across
<1>2. \E g \in Across(a, b) : \A h \in Across(a, b) : g <= h
    BY <1>1, LeastGrade
<1>3. Linkage(a, b) \in Across(a, b) /\ \A h \in Across(a, b) : Linkage(a, b) <= h
    BY <1>2 DEF Linkage
<1> QED
    BY <1>1, <1>3

-----------------------------------------------------------------------------
(* Clustering *)

LEMMA NoNeighborhoodInvariant ==
    ASSUME GapsInv, NoNeighborhood
    PROVE  GapsInv'
BY DEF GapsInv, NoNeighborhood, Clustering, ClustersAreApart, EveryPairIsSimilar, Judging,
       DraftsAreOpen, SavedGapsAreOpen, IsOpen, Role

LEMMA LoadGapClaimsInvariant ==
    ASSUME GapsInv, LoadGapClaims
    PROVE  GapsInv'
BY DEF GapsInv, LoadGapClaims, Clustering, ClustersAreApart, EveryPairIsSimilar, Judging,
       DraftsAreOpen, SavedGapsAreOpen, IsOpen

LEMMA LoadContributionsInvariant ==
    ASSUME GapsInv, LoadContributions
    PROVE  GapsInv'
<1>1. /\ step = "claims" /\ step' = "clustering"
      /\ clusters' \subseteq {{c} : c \in pool}
      /\ ~ reset => contributing' = GapPapers \cup OtherPapers
      /\ UNCHANGED <<pool, grade, surviving, facts, drafts, savedGaps, reset>>
    BY DEF LoadContributions
<1>2. Clustering' /\ ClustersAreApart'
    <2>1. Clustering'
        BY <1>1 DEF GapsInv, Clustering
    <2>2. \A a \in clusters' : \E c \in pool : a = {c}
        BY <1>1
    <2>3. ClustersAreApart'
        BY <1>1, <2>2 DEF ClustersAreApart
    <2> QED
        BY <2>1, <2>3
<1>3. EveryPairIsSimilar'
    <2> SUFFICES ASSUME NEW c \in pool, NEW pair \in Pairs({c})
                 PROVE  FALSE
        BY <1>1 DEF EveryPairIsSimilar
    <2>1. Cardinality(pair) = 2 /\ pair \subseteq {c}
        BY DEF Pairs
    <2>2. IsFiniteSet({c}) /\ Cardinality({c}) = 1
        BY FS_Singleton
    <2> QED
        BY <2>1, <2>2, FS_Subset
<1>4. Judging' /\ DraftsAreOpen' /\ savedGaps' = {}
    BY <1>1 DEF GapsInv, Judging, DraftsAreOpen
<1> QED
    BY <1>2, <1>3, <1>4 DEF GapsInv, SavedGapsAreOpen

LEMMA MergeInvariant ==
    ASSUME GapsInv, Merge
    PROVE  GapsInv'
<1>1. /\ step = "clustering"
      /\ UNCHANGED <<step, pool, grade, contributing, surviving, facts, drafts, savedGaps, reset>>
    BY DEF Merge
<1>2. PICK ab \in Mergeable : clusters' = (clusters \ ab) \cup {UNION ab}
    BY DEF Merge
<1>3. ab \subseteq clusters /\ Cardinality(ab) = 2 /\ \A a, b \in ab : a # b => Linkage(a, b) > 0
    BY <1>2 DEF Mergeable
<1>4. PICK a, b : a # b /\ ab = {a, b}
    <2>1. clusters \subseteq SUBSET GapClaims
        BY <1>1 DEF GapsInv, ClustersAreApart, Clustering
    <2>2. IsFiniteSet(ab)
        BY <1>3, <2>1, GapAssumption, FS_SUBSET, FS_Subset
    <2> QED
        BY <1>3, <2>2, PairHasTwo
<1>5. /\ clusters' = (clusters \ {a, b}) \cup {a \cup b}
      /\ a \in clusters /\ b \in clusters /\ Linkage(a, b) > 0 /\ Linkage(b, a) > 0
    BY <1>2, <1>3, <1>4
<1>6. /\ \A c \in clusters : c \subseteq pool
      /\ \A c, d \in clusters : c # d => c \cap d = {}
      /\ grade \in [Pairs(pool) -> Grades]
    BY <1>1 DEF GapsInv, ClustersAreApart, Clustering
<1>7. ClustersAreApart'
    BY <1>1, <1>4, <1>5, <1>6 DEF ClustersAreApart
<1>8. Across(a, b) \subseteq Grades
    <2>1. Pairs(a \cup b) \subseteq Pairs(pool)
        BY <1>5, <1>6 DEF Pairs
    <2>2. \A p \in Pairs(a \cup b) : grade[p] \in Grades
        BY <1>6, <2>1
    <2> QED
        BY <2>2 DEF Across
<1>9. EveryPairIsSimilar'
    <2> SUFFICES ASSUME NEW set \in clusters', NEW pair \in Pairs(set)
                 PROVE  grade[pair] > 0
        BY <1>1 DEF EveryPairIsSimilar
    <2>1. CASE set \in clusters
        BY <1>1, <2>1 DEF GapsInv, EveryPairIsSimilar
    <2>2. CASE set = a \cup b
        <3>1. Cardinality(pair) = 2 /\ pair \subseteq a \cup b
            BY <2>2 DEF Pairs
        <3>2. CASE pair \subseteq a \/ pair \subseteq b
            BY <1>1, <1>5, <3>1, <3>2 DEF GapsInv, EveryPairIsSimilar, Pairs
        <3>3. CASE pair \cap a # {} /\ pair \cap b # {}
            <4>1. Linkage(a, b) <= grade[pair] /\ Linkage(a, b) \in Grades /\ grade[pair] \in Grades
                BY <1>8, <2>2, <3>3, LinkageBounds
            <4> QED
                BY <1>5, <4>1 DEF Grades
        <3> QED
            BY <3>1, <3>2, <3>3
    <2> QED
        BY <1>5, <2>1, <2>2
<1>10. Clustering' /\ Judging' /\ DraftsAreOpen' /\ savedGaps' = {}
    BY <1>1 DEF GapsInv, Clustering, Judging, DraftsAreOpen
<1> QED
    BY <1>7, <1>9, <1>10 DEF GapsInv, SavedGapsAreOpen

LEMMA PatternsInvariant ==
    ASSUME GapsInv, Patterns
    PROVE  GapsInv'
<1> DEFINE kept == {set \in clusters : Cardinality(PapersOf(set)) >= MinClusterSize}
<1>1. /\ step = "clustering" /\ step' = "judging"
      /\ facts' \in [UNION kept -> [kind : Kinds, covered : BOOLEAN]]
      /\ UNCHANGED <<pool, contributing, drafts, savedGaps, reset>>
    BY DEF Patterns
<1>2. \A p \in surviving' : p.members \in kept
    BY DEF Patterns
<1>3. UNION kept \subseteq GapClaims
    BY <1>1 DEF GapsInv, ClustersAreApart, Clustering
<1> HIDE DEF kept
<1>4. DOMAIN facts' = UNION kept
    BY <1>1
<1>5. Judging'
    BY <1>1, <1>2, <1>3, <1>4 DEF GapsInv, Judging
<1> QED
    BY <1>1, <1>5 DEF GapsInv, Clustering, ClustersAreApart, EveryPairIsSimilar, DraftsAreOpen, SavedGapsAreOpen

-----------------------------------------------------------------------------
(* Judging *)

\* Covered claims are no anchors, whatever they say.
LEMMA AnchorsAreUncovered ==
    ASSUME NEW c \in DOMAIN facts, facts \in [DOMAIN facts -> [kind : Kinds, covered : BOOLEAN]]
    PROVE  Role(c, TRUE) # "anchor"
<1>1. facts[c].kind.strong \in BOOLEAN /\ facts[c].kind.resolved \in BOOLEAN
    BY GapAssumption
<1> QED
    BY <1>1 DEF Role, Points

\* A pattern whose papers' contributions are known becomes a draft only if it
\* is open.
LEMMA DraftIsOpen ==
    ASSUME NEW p, p.members \subseteq DOMAIN facts, Judging,
           contributing = GapPapers \cup OtherPapers,
           ClassifyCluster(p.members) # "none", NEW resembling
    PROVE  IsOpen(Draft(p, resembling))
<1> DEFINE set == p.members
           open == {c \in set : ~ facts[c].covered /\ Role(c, FALSE) # "motivation"}
           openAnchors == {c \in open : Role(c, FALSE) = "anchor"}
           anchors == {c \in set : Role(c, Overlaps(c)) = "anchor"}
           supporting == {c \in set : Role(c, Overlaps(c)) # "motivation"}
           gap == Draft(p, resembling)
<1>1. /\ facts \in [DOMAIN facts -> [kind : Kinds, covered : BOOLEAN]]
      /\ DOMAIN facts \subseteq GapClaims /\ set \subseteq GapClaims
    BY DEF Judging
<1>2. ASSUME NEW c \in set
      PROVE  Overlaps(c) = facts[c].covered /\ facts[c].covered \in BOOLEAN
    <2>1. facts[c].covered \in BOOLEAN
        BY <1>1, <1>2
    <2>2. PaperOf[c] \in contributing
        BY <1>1, <1>2 DEF GapPapers, PapersOf
    <2> QED
        BY <2>1, <2>2 DEF Overlaps
<1>3. {c \in supporting : ~ Overlaps(c)} = open
    BY <1>2
<1>4. anchors = openAnchors
    <2>1. ASSUME NEW c \in set
          PROVE  Role(c, Overlaps(c)) = "anchor" <=> ~ facts[c].covered /\ Role(c, FALSE) = "anchor"
        <3>1. CASE facts[c].covered = TRUE
            BY <1>1, <1>2, <2>1, <3>1, AnchorsAreUncovered
        <3>2. CASE facts[c].covered = FALSE
            BY <1>2, <2>1, <3>2
        <3> QED
            BY <1>2, <2>1, <3>1, <3>2
    <2>2. "anchor" # "motivation"
        OBVIOUS
    <2> QED
        BY <2>1, <2>2
<1>5. IsFiniteSet(PapersOf(open)) /\ Cardinality(PapersOf(open)) \in Nat
    <2>1. IsFiniteSet(open)
        BY <1>1, GapAssumption, FS_Subset
    <2>2. IsFiniteSet(PapersOf(open))
        <3> DEFINE f == [c \in open |-> PaperOf[c]]
        <3>1. f \in Surjection(open, PapersOf(open))
            BY DEF Surjection, PapersOf
        <3> QED
            BY <2>1, <3>1, FS_Surjection
    <2> QED
        BY <2>2, FS_CardinalityType
<1>6. PapersOf(openAnchors) \subseteq PapersOf(open)
    BY DEF PapersOf
<1>7. Cardinality(PapersOf(openAnchors)) <= Cardinality(PapersOf(open)) /\ Cardinality(PapersOf(openAnchors)) \in Nat
    BY <1>5, <1>6, FS_Subset, FS_CardinalityType
<1>8. /\ gap.members = set
      /\ gap.status = "strong_gap" => ClassifyCluster(set) = "strong_gap" /\ gap.addressing = {}
    BY DEF Draft, Lower
<1>9. \/ ClassifyCluster(set) = "strong_gap" /\ Cardinality(PapersOf(openAnchors)) >= 2
      \/ ClassifyCluster(set) # "strong_gap" /\ Cardinality(PapersOf(open)) >= 2
    <2>1. ClassifyCluster(set) = (IF Cardinality(PapersOf(openAnchors)) >= 2 THEN "strong_gap"
             ELSE IF /\ Cardinality(PapersOf(openAnchors)) = 1
                     /\ Cardinality(PapersOf(supporting)) >= MinClusterSize
                     /\ Cardinality(PapersOf(open)) >= 2 THEN "potential_gap"
             ELSE IF Cardinality(PapersOf(open)) >= MinClusterSize THEN "known_limitation"
             ELSE "none")
        BY <1>3, <1>4 DEF ClassifyCluster
    <2>2. MinClusterSize \in Nat /\ MinClusterSize >= 2
        BY GapAssumption
    <2> HIDE DEF open, openAnchors, supporting
    <2> QED
        BY <1>5, <2>1, <2>2
<1>10. Cardinality(PapersOf(open)) >= 2
    <2> HIDE DEF open, openAnchors
    <2> QED
        BY <1>5, <1>7, <1>9
<1>11. gap.status = "strong_gap" => Cardinality(PapersOf(openAnchors)) >= 2 /\ gap.addressing = {}
    BY <1>8, <1>9
<1> HIDE DEF gap
<1> QED
    BY <1>8, <1>10, <1>11 DEF IsOpen, gap

LEMMA ConcludeInvariant ==
    ASSUME GapsInv, Conclude
    PROVE  GapsInv'
<1>1. /\ step = "judging" /\ step' \in {"insufficient_evidence", "gaps_found"} /\ surviving' = {}
      /\ UNCHANGED <<pool, grade, contributing, clusters, facts, savedGaps, reset>>
    BY DEF Conclude
<1>2. PICK resembling :
          drafts' = {Draft(p, resembling) : p \in {q \in surviving : ClassifyCluster(q.members) # "none"}}
    BY DEF Conclude
<1>3. ~ reset => \A gap \in drafts' : IsOpen(gap)
    <2> SUFFICES ASSUME ~ reset, NEW p \in surviving, ClassifyCluster(p.members) # "none"
                 PROVE  IsOpen(Draft(p, resembling))
        BY <1>2
    <2>1. Judging /\ p.members \subseteq DOMAIN facts /\ contributing = GapPapers \cup OtherPapers
        BY <1>1 DEF GapsInv, Judging
    <2> QED
        BY <2>1, DraftIsOpen
<1>4. DraftsAreOpen'
    BY <1>1, <1>3 DEF DraftsAreOpen, IsOpen, Role
<1>5. Judging' /\ savedGaps' = {}
    BY <1>1 DEF GapsInv, Judging
<1> QED
    BY <1>1, <1>4, <1>5 DEF GapsInv, Clustering, ClustersAreApart, EveryPairIsSimilar, SavedGapsAreOpen

LEMMA DetectionSaveInvariant ==
    ASSUME GapsInv, Save
    PROVE  GapsInv'
<1>1. /\ step = "gaps_found" /\ step' \in {"failed", "saved"}
      /\ savedGaps' # {} => step' = "saved"
      /\ savedGaps' = {} \/ (~ reset /\ savedGaps' = drafts)
      /\ UNCHANGED <<pool, grade, contributing, clusters, surviving, facts, drafts, reset>>
    BY DEF Save
<1>2. SavedGapsAreOpen'
    BY <1>1 DEF GapsInv, DraftsAreOpen, SavedGapsAreOpen, IsOpen, Role
<1>3. Judging'
    BY <1>1 DEF GapsInv, Judging
<1> QED
    BY <1>1, <1>2, <1>3 DEF GapsInv, Clustering, ClustersAreApart, EveryPairIsSimilar, DraftsAreOpen

LEMMA ForcedExtractionInvariant ==
    ASSUME GapsInv, ForcedExtraction
    PROVE  GapsInv'
<1>1. /\ step # "saved" /\ reset' = TRUE
      /\ UNCHANGED <<step, pool, grade, contributing, clusters, surviving, facts, drafts, savedGaps>>
    BY DEF ForcedExtraction
<1> QED
    BY <1>1 DEF GapsInv, Clustering, ClustersAreApart, EveryPairIsSimilar, Judging, DraftsAreOpen,
                SavedGapsAreOpen

-----------------------------------------------------------------------------
(* The theorems *)

LEMMA DetectionInitInvariant ==
    ASSUME GapsInit
    PROVE  GapsInv
BY DEF GapsInit, GapsInv, Clustering, ClustersAreApart, EveryPairIsSimilar, Judging, DraftsAreOpen,
       SavedGapsAreOpen

LEMMA DetectionNextInvariant ==
    ASSUME GapsInv, [GapsNext]_gapVars
    PROVE  GapsInv'
<1>1. CASE UNCHANGED gapVars
    <2>1. \A gap : IsOpen(gap)' <=> IsOpen(gap)
        BY <1>1 DEF gapVars, IsOpen, Role
    <2>2. Clustering' /\ ClustersAreApart' /\ EveryPairIsSimilar' /\ Judging'
        BY <1>1 DEF gapVars, GapsInv, Clustering, ClustersAreApart, EveryPairIsSimilar, Judging
    <2>3. DraftsAreOpen' /\ SavedGapsAreOpen'
        BY <1>1, <2>1 DEF gapVars, GapsInv, DraftsAreOpen, SavedGapsAreOpen
    <2> QED
        BY <1>1, <2>2, <2>3 DEF gapVars, GapsInv
<1> QED
    BY <1>1, NoNeighborhoodInvariant, LoadGapClaimsInvariant, LoadContributionsInvariant, MergeInvariant,
       PatternsInvariant, ConcludeInvariant, DetectionSaveInvariant, ForcedExtractionInvariant DEF GapsNext

LEMMA Invariance ==
    GapsSpec => []GapsInv
<1>1. GapsInit => GapsInv
    BY DetectionInitInvariant
<1>2. GapsInv /\ [GapsNext]_gapVars => GapsInv'
    BY DetectionNextInvariant
<1> QED
    BY <1>1, <1>2, PTL DEF GapsSpec

\* However many clusters have been merged, and in whichever order, any two
\* claims of a group are similar enough on their own.
THEOREM GroupsHoldTogether == GapsSpec => []EveryPairIsSimilar
<1>1. GapsInv => EveryPairIsSimilar
    BY DEF GapsInv
<1> QED
    BY <1>1, Invariance, PTL

\* A gap that is saved is open as far as its papers tell, whatever a forced
\* extraction deletes meanwhile.
THEOREM OpenWhenSaved == GapsSpec => []SavedGapsAreOpen
<1>1. GapsInv => SavedGapsAreOpen
    BY DEF GapsInv
<1> QED
    BY <1>1, Invariance, PTL

-----------------------------------------------------------------------------
(* The annotation files.                                                   *)

ActiveSessions == {"load", "save", "write"}
Ends == {"error", "missing", "done", "cut"}
FileStages == {"new", "load", "save", "write", "error", "missing", "done", "cut"}

\* What OneAtATime says of one file.
Tended(f) ==
    /\ \A r, s \in Busy(f) : r = s
    /\ \A r \in Busy(f) :
         /\ stage[r] = "load" =>
              disk[f] = Saved(acked[f]) /\ (f \in ToSet(unread[r]) \/ draft[r] = Saved(acked[f]))
         /\ stage[r] = "save" =>
              disk[f] = Saved(acked[f]) /\ draft[r] = Saved(MergeEdit(acked[f], ask[r].edit))
         /\ stage[r] = "write" =>
              disk[f] = Emptied /\ draft[r] = Saved(MergeEdit(acked[f], ask[r].edit))
    /\ Busy(f) = {} => disk[f] = Saved(acked[f])

\* A file as it is before it is read, and as it is when opened for writing.
LEMMA BlankRecords ==
    /\ Template \in Annotations /\ NoDraft \in Annotations /\ Emptied \in Annotations
    /\ BlankFields \in [Fields -> Contents]
    /\ Template = Saved(BlankFields)
<1>1. BlankFields \in [Fields -> Contents]
    BY DEF BlankFields, Contents
<1> QED
    BY <1>1 DEF Template, NoDraft, Emptied, Annotations, Saved

\* An edit merged into fields gives fields.
LEMMA MergesAreTyped ==
    ASSUME NEW fields \in [Fields -> Contents], NEW edit \in Edits
    PROVE  MergeEdit(fields, edit) \in [Fields -> Contents]
<1>1. PICK S \in SUBSET Fields : edit \in [S -> Contents]
    BY DEF Edits
<1> QED
    BY <1>1 DEF MergeEdit

\* The emptied file is shorter than what is written over it.
LEMMA NothingIsLeftOver ==
    ASSUME NEW fields \in [Fields -> Contents]
    PROVE  ~ (Length(Emptied) > Length(Saved(fields)))
<1>1. Length(Emptied) = 0
    <2>1. {x \in Fields : Emptied.fields[x] # Blank} = {} /\ ~ Emptied.known
        BY DEF Emptied, BlankFields
    <2>2. Cardinality({}) = 0
        BY FS_EmptySet
    <2> QED
        BY <2>1, <2>2 DEF Length
<1>2. Length(Saved(fields)) \in Nat
    <2> DEFINE written == {x \in Fields : fields[x] # Blank}
    <2>1. IsFiniteSet(Fields) /\ written \in SUBSET Fields
        BY FieldsAssumption
    <2>2. Cardinality(Fields) \in Nat /\ Cardinality(written) \in Nat
        <3> HIDE DEF written
        <3>1. IsFiniteSet(written)
            BY <2>1, FS_Subset
        <3> QED
            BY <2>1, <3>1, FS_CardinalityType
    <2>3. Length(Saved(fields)) = Cardinality(written) + (Cardinality(Fields) + 1)
        BY DEF Length, Saved
    <2> HIDE DEF written
    <2> QED
        BY <2>2, <2>3
<1> QED
    BY <1>1, <1>2

\* A step elsewhere leaves what is said of a file.
LEMMA Elsewhere ==
    ASSUME NEW f, NEW r, Tended(f), r \notin Busy(f), r \notin Busy(f)',
           disk'[f] = disk[f], acked'[f] = acked[f],
           \A s \in Requests : s # r => /\ stage'[s] = stage[s] /\ ask'[s] = ask[s]
                                        /\ unread'[s] = unread[s] /\ draft'[s] = draft[s]
    PROVE  Tended(f)'
<1>1. \A s \in Requests : s # r => (s \in Busy(f)' <=> s \in Busy(f))
    BY DEF Busy
<1>2. Busy(f)' = Busy(f)
    BY <1>1 DEF Busy
<1>3. \A s \in Busy(f) : /\ stage'[s] = stage[s] /\ ask'[s] = ask[s]
                         /\ unread'[s] = unread[s] /\ draft'[s] = draft[s]
    BY DEF Busy
<1> QED
    BY <1>2, <1>3 DEF Tended, MergeEdit

\* Of two steps at once: after one, a file has one request, at one stage.
LEMMA OnlyOne ==
    ASSUME NEW f, NEW r \in Requests, Tended(f), r \in Busy(f), r \in Busy(f)',
           \A s \in Requests : s # r => stage'[s] = stage[s] /\ ask'[s] = ask[s],
           \/ /\ stage'[r] = "load" /\ disk'[f] = Saved(acked'[f])
              /\ f \in ToSet(unread'[r]) \/ draft'[r] = Saved(acked'[f])
           \/ /\ stage'[r] = "save" /\ disk'[f] = Saved(acked'[f])
              /\ draft'[r] = Saved(MergeEdit(acked'[f], ask'[r].edit))
           \/ /\ stage'[r] = "write" /\ disk'[f] = Emptied
              /\ draft'[r] = Saved(MergeEdit(acked'[f], ask'[r].edit))
    PROVE  Tended(f)'
<1>1. Busy(f)' = {r}
    <2>1. \A s \in Requests : s # r => (s \in Busy(f)' <=> s \in Busy(f))
        BY DEF Busy
    <2>2. \A s \in Busy(f) : s = r
        BY DEF Tended
    <2> QED
        BY <2>1, <2>2 DEF Busy
<1>2. MergeEdit(acked[f], ask[r].edit)' = MergeEdit(acked'[f], ask'[r].edit)
    BY DEF MergeEdit
<1> QED
    BY <1>1, <1>2 DEF Tended, Emptied, BlankFields, Saved

\* What the end of a request leaves alone.
LEMMA FilesEndEffect ==
    ASSUME FilesTypes, NEW r \in Requests, NEW label \in Ends, FilesEnd(r, label)
    PROVE  /\ stage' \in [Requests -> FileStages] /\ stage'[r] = label
           /\ DOMAIN ask' = Requests
           /\ unread' \in [Requests -> Seq(Files)] /\ draft' \in [Requests -> Annotations]
           /\ \A s \in Requests : s # r => /\ stage'[s] = stage[s] /\ ask'[s] = ask[s]
                                           /\ unread'[s] = unread[s] /\ draft'[s] = draft[s]
           /\ \A f : r \notin Busy(f)'
BY BlankRecords DEF FilesTypes, FilesEnd, Busy, Ends, FileStages

\* Files, drafts and requests keep their types.
LEMMA FilesTypesStep ==
    ASSUME FilesTypes, [FilesNext]_filesVars
    PROVE  FilesTypes'
<1> DEFINE asks == /\ DOMAIN ask = Requests
                   /\ \A s \in Requests : stage[s] \in ActiveSessions => ask[s].file \in Files /\ ask[s].edit \in Edits
<1>0. /\ disk \in [Files -> Annotations] /\ stage \in [Requests -> FileStages]
      /\ unread \in [Requests -> Seq(Files)] /\ draft \in [Requests -> Annotations]
      /\ acked \in [Files -> [Fields -> Contents]] /\ disturbed \subseteq Files
      /\ asks
    BY DEF FilesTypes, FileStages, ActiveSessions
<1> DEFINE Goal ==
      /\ disk' \in [Files -> Annotations] /\ stage' \in [Requests -> FileStages]
      /\ unread' \in [Requests -> Seq(Files)] /\ draft' \in [Requests -> Annotations]
      /\ acked' \in [Files -> [Fields -> Contents]] /\ disturbed' \subseteq Files
      /\ asks'
<1> SUFFICES Goal
    BY DEF FilesTypes, FileStages, ActiveSessions
<1>1. ASSUME NEW r \in Requests, PutAnnotation(r)
      PROVE  Goal
    <2>1. PICK f \in Files, edit \in Edits :
            /\ ask' = [ask EXCEPT ![r] = [file |-> f, edit |-> edit]]
            /\ unread' = [unread EXCEPT ![r] = IF f \in Named THEN <<f>> ELSE Listing]
            /\ disturbed' = IF Busy(f) = {} THEN disturbed ELSE disturbed \cup {f}
        BY <1>1 DEF PutAnnotation
    <2>2. <<f>> \in Seq(Files) /\ Listing \in Seq(Files)
        BY ListingAssumption
    <2>3. unread' \in [Requests -> Seq(Files)] /\ disturbed' \subseteq Files
        BY <1>0, <2>1, <2>2
    <2>4. stage' = [stage EXCEPT ![r] = "load"] /\ UNCHANGED <<disk, draft, stops, acked>>
        BY <1>1 DEF PutAnnotation
    <2>5. stage' \in [Requests -> FileStages]
        BY <1>0, <2>4 DEF FileStages
    <2>6. asks'
        BY <1>0, <2>1, <2>4
    <2> QED
        BY <1>0, <2>3, <2>4, <2>5, <2>6
<1>2. ASSUME NEW r \in Requests, LoadFile(r)
      PROVE  Goal
    <2> DEFINE f == Head(unread[r])
    <2>1. unread[r] \in Seq(Files) /\ unread[r] # <<>>
        BY <1>0, <1>2 DEF LoadFile
    <2>2. f \in Files /\ Tail(unread[r]) \in Seq(Files)
        BY <2>1
    <2>3. /\ unread' = [unread EXCEPT ![r] = Tail(@)]
          /\ draft' = IF f = ask[r].file THEN [draft EXCEPT ![r] = [disk[f] EXCEPT !.state = "whole"]] ELSE draft
          /\ UNCHANGED <<disk, stage, ask, acked, disturbed>>
        BY <1>2 DEF LoadFile
    <2> HIDE DEF f
    <2>4. [disk[f] EXCEPT !.state = "whole"] \in Annotations
        <3>1. disk[f] \in Annotations
            BY <1>0, <2>2
        <3> QED
            BY <3>1 DEF Annotations
    <2>5. draft' \in [Requests -> Annotations]
        BY <1>0, <2>3, <2>4
    <2>6. unread' \in [Requests -> Seq(Files)]
        BY <1>0, <2>2, <2>3
    <2> QED
        BY <1>0, <2>3, <2>5, <2>6
<1>3. ASSUME NEW r \in Requests, CannotParse(r) \/ NotFound(r)
      PROVE  Goal
    <2>1. PICK label \in Ends : FilesEnd(r, label)
        BY <1>3 DEF CannotParse, NotFound, Ends
    <2>2. UNCHANGED <<disk, acked, disturbed>>
        BY <1>3 DEF CannotParse, NotFound
    <2>3. asks'
        BY <1>0, <2>1, FilesEndEffect DEF Ends, ActiveSessions
    <2>4. stage' \in [Requests -> FileStages] /\ unread' \in [Requests -> Seq(Files)] /\ draft' \in [Requests -> Annotations]
        BY <2>1, FilesEndEffect
    <2> QED
        BY <1>0, <2>2, <2>3, <2>4
<1>4. ASSUME NEW r \in Requests, ApplyUpdates(r)
      PROVE  Goal
    <2>1. draft[r] \in Annotations /\ ask[r].edit \in Edits
        BY <1>0, <1>4 DEF ApplyUpdates, ActiveSessions
    <2> DEFINE merged == MergeEdit(draft[r].fields, ask[r].edit)
    <2>2. merged \in [Fields -> Contents]
        BY <2>1, MergesAreTyped DEF Annotations
    <2>3. /\ draft' = [draft EXCEPT ![r].fields = merged]
          /\ stage' = [stage EXCEPT ![r] = "save"] /\ stage[r] = "load"
          /\ UNCHANGED <<disk, ask, unread, stops, acked, disturbed>>
        BY <1>4 DEF ApplyUpdates
    <2> HIDE DEF merged
    <2>4. [draft[r] EXCEPT !.fields = merged] \in Annotations
        BY <2>1, <2>2 DEF Annotations
    <2>5. draft' \in [Requests -> Annotations]
        BY <1>0, <2>3, <2>4
    <2>6. stage' \in [Requests -> FileStages] /\ asks'
        BY <1>0, <2>3 DEF FileStages, ActiveSessions
    <2> QED
        BY <1>0, <2>3, <2>5, <2>6
<1>5. ASSUME NEW r \in Requests, OpenForWriting(r)
      PROVE  Goal
    <2>1. /\ disk' = [disk EXCEPT ![ask[r].file] = Emptied]
          /\ stage' = [stage EXCEPT ![r] = "write"] /\ stage[r] = "save"
          /\ UNCHANGED <<ask, unread, draft, stops, acked, disturbed>>
        BY <1>5 DEF OpenForWriting
    <2>2. stage' \in [Requests -> FileStages] /\ asks'
        BY <1>0, <2>1 DEF FileStages, ActiveSessions
    <2>3. disk' \in [Files -> Annotations]
        BY <1>0, <2>1, BlankRecords
    <2> QED
        BY <1>0, <2>1, <2>2, <2>3
<1>6. ASSUME NEW r \in Requests, WriteFile(r)
      PROVE  Goal
    <2> DEFINE f == ask[r].file
    <2>1. PICK label \in Ends : FilesEnd(r, label)
        BY <1>6 DEF WriteFile, Ends
    <2>2. f \in Files /\ ask[r].edit \in Edits /\ disturbed' = disturbed
        BY <1>0, <1>6 DEF WriteFile, ActiveSessions
    <2>3. asks'
        BY <1>0, <2>1, FilesEndEffect DEF Ends, ActiveSessions
    <2>4. stage' \in [Requests -> FileStages] /\ unread' \in [Requests -> Seq(Files)] /\ draft' \in [Requests -> Annotations]
        BY <2>1, FilesEndEffect
    <2>5. disk' \in [Files -> Annotations]
        <3>1. PICK s \in {"whole", "mixed"} : disk' = [disk EXCEPT ![f] = [draft[r] EXCEPT !.state = s]]
            BY <1>6 DEF WriteFile
        <3>2. draft[r] \in Annotations
            BY <1>0
        <3>3. [draft[r] EXCEPT !.state = s] \in Annotations
            BY <3>2 DEF Annotations
        <3> QED
            BY <1>0, <3>1, <3>3
    <2>6. acked' \in [Files -> [Fields -> Contents]]
        <3>1. acked' = [acked EXCEPT ![f] = MergeEdit(acked[f], ask[r].edit)]
            BY <1>0, <1>6, <2>2 DEF WriteFile, MergeEdit
        <3>2. MergeEdit(acked[f], ask[r].edit) \in [Fields -> Contents]
            BY <1>0, <2>2, MergesAreTyped
        <3> QED
            BY <1>0, <3>1, <3>2
    <2> QED
        BY <1>0, <2>2, <2>3, <2>4, <2>5, <2>6
<1>7. ASSUME ServerStops
      PROVE  Goal
    <2> DEFINE cut == {r \in Requests : stage[r] \in {"load", "save", "write"}}
    <2>1. /\ stage' = [r \in Requests |-> IF r \in cut THEN "cut" ELSE stage[r]]
          /\ ask' = [r \in Requests |-> IF r \in cut THEN NoAsk ELSE ask[r]]
          /\ unread' = [r \in Requests |-> IF r \in cut THEN <<>> ELSE unread[r]]
          /\ draft' = [r \in Requests |-> IF r \in cut THEN NoDraft ELSE draft[r]]
          /\ disturbed' = disturbed \cup {ask[r].file : r \in cut}
          /\ UNCHANGED <<disk, acked>>
        BY <1>7 DEF ServerStops
    <2>2. disturbed' \subseteq Files
        BY <1>0, <2>1 DEF ActiveSessions
    <2>3. \A s \in Requests : stage'[s] \notin ActiveSessions
        BY <2>1 DEF ActiveSessions
    <2> HIDE DEF cut
    <2>4. draft' \in [Requests -> Annotations]
        BY <1>0, <2>1, BlankRecords
    <2>5. unread' \in [Requests -> Seq(Files)]
        BY <1>0, <2>1
    <2>6. stage' \in [Requests -> FileStages] /\ asks'
        BY <1>0, <2>1, <2>3 DEF FileStages
    <2> QED
        BY <1>0, <2>1, <2>2, <2>4, <2>5, <2>6
<1>8. ASSUME UNCHANGED filesVars
      PROVE  Goal
    BY <1>0, <1>8 DEF filesVars
<1> HIDE DEF Goal
<1> QED
    BY <1>1, <1>2, <1>3, <1>4, <1>5, <1>6, <1>7, <1>8 DEF FilesNext

\* Each step keeps what is said of each file.
LEMMA TendedStep ==
    ASSUME FilesTypes, FilesTypes', [FilesNext]_filesVars, NEW f \in Files, f \notin disturbed',
           f \notin disturbed => Tended(f)
    PROVE  Tended(f)'
<1>1. ASSUME NEW r \in Requests, PutAnnotation(r)
      PROVE  Tended(f)'
    <2>1. PICK g \in Files, edit \in Edits :
            /\ ask' = [ask EXCEPT ![r] = [file |-> g, edit |-> edit]]
            /\ unread' = [unread EXCEPT ![r] = IF g \in Named THEN <<g>> ELSE Listing]
            /\ disturbed' = IF Busy(g) = {} THEN disturbed ELSE disturbed \cup {g}
        BY <1>1 DEF PutAnnotation
    <2>2. /\ stage' = [stage EXCEPT ![r] = "load"] /\ stage[r] = "new"
          /\ UNCHANGED <<disk, draft, stops, acked>>
        BY <1>1 DEF PutAnnotation
    <2>3. /\ \A s \in Requests : s # r => /\ stage'[s] = stage[s] /\ ask'[s] = ask[s]
                                          /\ unread'[s] = unread[s] /\ draft'[s] = draft[s]
          /\ stage'[r] = "load" /\ ask'[r].file = g /\ unread'[r] = IF g \in Named THEN <<g>> ELSE Listing
        BY <2>1, <2>2 DEF FilesTypes
    <2>4. r \notin Busy(f) /\ Tended(f)
        BY <2>1, <2>2 DEF Busy
    <2>5. CASE g # f
        <3>1. r \notin Busy(f)'
            BY <2>3, <2>5 DEF Busy
        <3> QED
            BY <2>2, <2>3, <2>4, <3>1, Elsewhere
    <2>6. CASE g = f
        <3>1. Busy(f) = {}
            BY <2>1, <2>6
        <3>2. \A s \in Busy(f)' : s = r
            BY <2>3, <3>1 DEF Busy
        <3>3. disk'[f] = Saved(acked'[f])
            BY <2>2, <2>4, <3>1 DEF Tended
        <3>4. f \in ToSet(unread'[r])
            <4>1. f \in ToSet(<<f>>)
                BY DEF ToSet
            <4> QED
                BY <2>3, <2>6, <4>1 DEF Files
        <3>5. \A s \in Busy(f)' : stage'[s] = "load"
            BY <2>3, <3>2
        <3> QED
            BY <3>2, <3>3, <3>4, <3>5 DEF Tended
    <2> QED
        BY <2>5, <2>6
<1>2. ASSUME NEW r \in Requests, LoadFile(r)
      PROVE  Tended(f)'
    <2> DEFINE g == Head(unread[r])
    <2>1. unread[r] \in Seq(Files) /\ unread[r] # <<>> /\ stage[r] = "load"
        BY <1>2 DEF LoadFile, FilesTypes
    <2>2. ToSet(unread[r]) = {g} \cup ToSet(Tail(unread[r]))
        <3>1. \A x \in ToSet(unread[r]) : x = g \/ x \in ToSet(Tail(unread[r]))
            <4>1. ASSUME NEW i \in DOMAIN unread[r], i # 1
                  PROVE  unread[r][i] \in ToSet(Tail(unread[r]))
                <5>1. i - 1 \in DOMAIN Tail(unread[r]) /\ Tail(unread[r])[i - 1] = unread[r][i]
                    BY <2>1, <4>1
                <5> QED
                    BY <5>1 DEF ToSet
            <4>2. unread[r][1] = g
                BY <2>1
            <4> QED
                BY <4>1, <4>2 DEF ToSet
        <3>2. g \in ToSet(unread[r])
            BY <2>1 DEF ToSet
        <3>3. ASSUME NEW i \in DOMAIN Tail(unread[r])
              PROVE  Tail(unread[r])[i] \in ToSet(unread[r])
            <4>1. i + 1 \in DOMAIN unread[r] /\ unread[r][i + 1] = Tail(unread[r])[i]
                BY <2>1
            <4> QED
                BY <4>1 DEF ToSet
        <3> QED
            BY <3>1, <3>2, <3>3 DEF ToSet
    <2>3. /\ unread' = [unread EXCEPT ![r] = Tail(@)]
          /\ draft' = IF g = ask[r].file THEN [draft EXCEPT ![r] = [disk[g] EXCEPT !.state = "whole"]] ELSE draft
          /\ UNCHANGED <<disk, stage, ask, acked, disturbed>>
        BY <1>2 DEF LoadFile
    <2> HIDE DEF g
    <2>4. /\ \A s \in Requests : s # r => /\ stage'[s] = stage[s] /\ ask'[s] = ask[s]
                                          /\ unread'[s] = unread[s] /\ draft'[s] = draft[s]
          /\ unread'[r] = Tail(unread[r])
        BY <2>3 DEF FilesTypes
    <2>5. CASE ask[r].file # f
        <3>1. r \notin Busy(f) /\ r \notin Busy(f)'
            BY <2>3, <2>5 DEF Busy
        <3> QED
            BY <2>3, <2>4, <3>1, Elsewhere
    <2>6. CASE ask[r].file = f
        <3>1. r \in Busy(f) /\ r \in Busy(f)' /\ Tended(f)
            BY <2>1, <2>3, <2>6 DEF Busy
        <3>2. disk[f] = Saved(acked[f]) /\ (f \in ToSet(unread[r]) \/ draft[r] = Saved(acked[f]))
            BY <2>1, <3>1 DEF Tended
        <3>3. f \in ToSet(unread'[r]) \/ draft'[r] = Saved(acked'[f])
            <4>1. CASE g = f
                <5>1. draft'[r] = [Saved(acked[f]) EXCEPT !.state = "whole"]
                    BY <2>3, <2>6, <3>2, <4>1 DEF FilesTypes
                <5> QED
                    BY <2>3, <5>1 DEF Saved
            <4>2. CASE g # f
                BY <2>2, <2>3, <2>4, <2>6, <3>2, <4>2
            <4> QED
                BY <4>1, <4>2
        <3>4. stage'[r] = "load" /\ disk'[f] = Saved(acked'[f])
            BY <2>1, <2>3, <3>2
        <3> QED
            BY <2>4, <3>1, <3>3, <3>4, OnlyOne
    <2> QED
        BY <2>5, <2>6
<1>3. ASSUME NEW r \in Requests, CannotParse(r) \/ NotFound(r)
      PROVE  Tended(f)'
    <2>1. PICK label \in Ends : FilesEnd(r, label)
        BY <1>3 DEF CannotParse, NotFound, Ends
    <2>3. UNCHANGED <<disk, acked, disturbed>>
        BY <1>3 DEF CannotParse, NotFound
    <2>4. /\ r \notin Busy(f)'
          /\ \A s \in Requests : s # r => /\ stage'[s] = stage[s] /\ ask'[s] = ask[s]
                                          /\ unread'[s] = unread[s] /\ draft'[s] = draft[s]
        BY <2>1, FilesEndEffect
    <2>5. CASE r \notin Busy(f)
        BY <2>3, <2>4, <2>5, Elsewhere
    <2>6. CASE r \in Busy(f)
        <3>1. Tended(f) /\ stage[r] = "load"
            BY <1>3, <2>3 DEF CannotParse, NotFound
        <3>2. disk'[f] = Saved(acked'[f])
            BY <2>3, <2>6, <3>1 DEF Tended
        <3>3. Busy(f)' = {}
            BY <2>4, <2>6, <3>1 DEF Tended, Busy
        <3> QED
            BY <3>2, <3>3 DEF Tended
    <2> QED
        BY <2>5, <2>6
<1>4. ASSUME NEW r \in Requests, ApplyUpdates(r)
      PROVE  Tended(f)'
    <2> DEFINE merged == MergeEdit(draft[r].fields, ask[r].edit)
    <2>1. /\ draft' = [draft EXCEPT ![r].fields = merged]
          /\ stage' = [stage EXCEPT ![r] = "save"] /\ stage[r] = "load" /\ unread[r] = <<>>
          /\ UNCHANGED <<disk, ask, unread, stops, acked, disturbed>>
        BY <1>4 DEF ApplyUpdates
    <2> HIDE DEF merged
    <2>2. /\ \A s \in Requests : s # r => /\ stage'[s] = stage[s] /\ ask'[s] = ask[s]
                                          /\ unread'[s] = unread[s] /\ draft'[s] = draft[s]
          /\ stage'[r] = "save" /\ draft'[r] = [draft[r] EXCEPT !.fields = merged]
        BY <2>1 DEF FilesTypes
    <2>3. CASE ask[r].file # f
        <3>1. r \notin Busy(f) /\ r \notin Busy(f)'
            BY <2>1, <2>3 DEF Busy
        <3> QED
            BY <2>1, <2>2, <3>1, Elsewhere
    <2>4. CASE ask[r].file = f
        <3>1. r \in Busy(f) /\ r \in Busy(f)' /\ Tended(f)
            BY <2>1, <2>2, <2>4 DEF Busy
        <3>2. f \notin ToSet(unread[r])
            BY <2>1 DEF ToSet
        <3>3. disk[f] = Saved(acked[f]) /\ draft[r] = Saved(acked[f])
            BY <2>1, <3>1, <3>2 DEF Tended
        <3>4. merged = MergeEdit(acked[f], ask[r].edit)
            BY <3>3 DEF merged, Saved
        <3>5. draft'[r] = Saved(merged)
            <4>1. draft'[r] = [Saved(acked[f]) EXCEPT !.fields = merged]
                BY <2>2, <3>3
            <4> QED
                BY <4>1 DEF Saved
        <3>6. MergeEdit(acked'[f], ask'[r].edit) = MergeEdit(acked[f], ask[r].edit)
            BY <2>1
        <3> QED
            BY <2>1, <2>2, <3>1, <3>3, <3>4, <3>5, <3>6, OnlyOne
    <2> QED
        BY <2>3, <2>4
<1>5. ASSUME NEW r \in Requests, OpenForWriting(r)
      PROVE  Tended(f)'
    <2>1. /\ disk' = [disk EXCEPT ![ask[r].file] = Emptied]
          /\ stage' = [stage EXCEPT ![r] = "write"] /\ stage[r] = "save"
          /\ UNCHANGED <<ask, unread, draft, stops, acked, disturbed>>
        BY <1>5 DEF OpenForWriting
    <2>2. /\ \A s \in Requests : s # r => stage'[s] = stage[s] /\ ask'[s] = ask[s]
          /\ stage'[r] = "write"
        BY <2>1 DEF FilesTypes
    <2>3. CASE ask[r].file # f
        <3>1. r \notin Busy(f) /\ r \notin Busy(f)'
            BY <2>1, <2>3 DEF Busy
        <3>2. disk'[f] = disk[f]
            BY <2>1, <2>3 DEF FilesTypes
        <3> QED
            BY <2>1, <2>2, <3>1, <3>2, Elsewhere
    <2>4. CASE ask[r].file = f
        <3>1. r \in Busy(f) /\ r \in Busy(f)' /\ Tended(f)
            BY <2>1, <2>2, <2>4 DEF Busy
        <3>2. draft[r] = Saved(MergeEdit(acked[f], ask[r].edit))
            BY <2>1, <3>1 DEF Tended
        <3>3. disk'[f] = Emptied
            BY <2>1, <2>4 DEF FilesTypes
        <3>4. draft'[r] = Saved(MergeEdit(acked'[f], ask'[r].edit))
            BY <2>1, <3>2
        <3> QED
            BY <2>1, <2>2, <3>1, <3>3, <3>4, OnlyOne
    <2> QED
        BY <2>3, <2>4
<1>6. ASSUME NEW r \in Requests, WriteFile(r)
      PROVE  Tended(f)'
    <2> DEFINE g == ask[r].file
    <2>1. /\ stage[r] = "write" /\ FilesEnd(r, "done") /\ disturbed' = disturbed
          /\ disk' = [disk EXCEPT ![g] =
                 [draft[r] EXCEPT !.state =
                     IF disk[g].state = "mixed" \/ Length(disk[g]) > Length(draft[r]) THEN "mixed" ELSE "whole"]]
        BY <1>6 DEF WriteFile
    <2>2. acked' = [acked EXCEPT ![g] = MergeEdit(acked[g], ask[r].edit)] /\ g \in Files /\ ask[r].edit \in Edits
        <3>1. g \in Files /\ ask[r].edit \in Edits
            BY <2>1 DEF FilesTypes
        <3> QED
            BY <1>6, <3>1 DEF WriteFile, MergeEdit, FilesTypes
    <2>3. /\ r \notin Busy(f)'
          /\ \A s \in Requests : s # r => /\ stage'[s] = stage[s] /\ ask'[s] = ask[s]
                                          /\ unread'[s] = unread[s] /\ draft'[s] = draft[s]
        BY <2>1, FilesEndEffect DEF Ends
    <2> HIDE DEF g
    <2>4. CASE g # f
        <3>1. r \notin Busy(f)
            BY <2>4 DEF Busy, g
        <3>2. disk'[f] = disk[f] /\ acked'[f] = acked[f]
            BY <2>1, <2>2, <2>4 DEF FilesTypes
        <3> QED
            BY <2>1, <2>3, <3>1, <3>2, Elsewhere
    <2>5. CASE g = f
        <3>1. r \in Busy(f) /\ Tended(f)
            BY <2>1, <2>5 DEF Busy, g
        <3> DEFINE fields == MergeEdit(acked[f], ask[r].edit)
        <3>2. disk[f] = Emptied /\ draft[r] = Saved(fields)
            BY <2>1, <3>1 DEF Tended
        <3>3. fields \in [Fields -> Contents]
            <4>1. acked[f] \in [Fields -> Contents]
                BY DEF FilesTypes
            <4> QED
                BY <2>2, <4>1, MergesAreTyped
        <3> HIDE DEF fields
        <3>4. ~ (disk[g].state = "mixed" \/ Length(disk[g]) > Length(draft[r]))
            <4>1. Emptied.state # "mixed"
                BY DEF Emptied
            <4> QED
                BY <2>5, <3>2, <3>3, <4>1, NothingIsLeftOver
        <3>5. disk'[f] = [Saved(fields) EXCEPT !.state = "whole"]
            BY <2>1, <2>5, <3>2, <3>4 DEF FilesTypes
        <3>6. disk'[f] = Saved(fields)
            BY <3>5 DEF Saved
        <3>7. acked'[f] = fields
            BY <2>2, <2>5 DEF FilesTypes, fields
        <3>8. Busy(f)' = {}
            BY <2>3, <3>1 DEF Tended, Busy
        <3> QED
            BY <3>6, <3>7, <3>8 DEF Tended
    <2> QED
        BY <2>4, <2>5
<1>7. ASSUME ServerStops
      PROVE  Tended(f)'
    <2> DEFINE cut == {r \in Requests : stage[r] \in {"load", "save", "write"}}
    <2>1. /\ stage' = [r \in Requests |-> IF r \in cut THEN "cut" ELSE stage[r]]
          /\ disturbed' = disturbed \cup {ask[r].file : r \in cut}
          /\ UNCHANGED <<disk, acked>>
        BY <1>7 DEF ServerStops
    <2>2. Busy(f) = {} /\ f \notin disturbed
        BY <2>1 DEF Busy
    <2>3. Busy(f)' = {}
        BY <2>1 DEF Busy
    <2> QED
        BY <2>1, <2>2, <2>3 DEF Tended
<1>8. ASSUME UNCHANGED filesVars
      PROVE  Tended(f)'
    <2>1. UNCHANGED <<disk, stage, ask, unread, draft, acked, disturbed>>
        BY <1>8 DEF filesVars
    <2>2. Busy(f)' = Busy(f)
        BY <2>1 DEF Busy
    <2> QED
        BY <2>1, <2>2 DEF Tended, MergeEdit
<1> QED
    BY <1>1, <1>2, <1>3, <1>4, <1>5, <1>6, <1>7, <1>8 DEF FilesNext

\* The requests are one at a time at a file that was never disturbed.
LEMMA FilesInvariant == FilesSpec => []FilesInv
<1>0. OneAtATime <=> \A f \in Files \ disturbed : Tended(f)
    BY DEF OneAtATime, Tended
<1>1. FilesInit => FilesInv
    <2> SUFFICES ASSUME FilesInit
                 PROVE  FilesInv
        OBVIOUS
    <2>1. FilesTypes
        BY BlankRecords DEF FilesInit, FilesTypes
    <2>2. \A f \in Files : disk[f] = Saved(acked[f])
        BY BlankRecords DEF FilesInit
    <2>3. \A f : Busy(f) = {}
        BY DEF FilesInit, Busy
    <2>4. OneAtATime
        BY <2>2, <2>3 DEF OneAtATime
    <2> QED
        BY <2>1, <2>4 DEF FilesInv
<1>2. FilesInv /\ [FilesNext]_filesVars => FilesInv'
    <2> SUFFICES ASSUME FilesInv, [FilesNext]_filesVars
                 PROVE  FilesInv'
        OBVIOUS
    <2>1. FilesTypes'
        BY FilesTypesStep DEF FilesInv
    <2>2. \A f \in Files \ disturbed' : Tended(f)'
        BY <1>0, <2>1, TendedStep DEF FilesInv
    <2>3. OneAtATime'
        BY <2>2 DEF OneAtATime, Tended
    <2> QED
        BY <2>1, <2>3 DEF FilesInv
<1> QED
    BY <1>1, <1>2, PTL DEF FilesSpec

\* What an annotator was told is saved is on disk, with the identity of the paper,
\* in every file whose requests never overlapped and were never cut.
THEOREM SavedEditsStay == FilesSpec => []LostEditsNeedOverlap
<1>1. FilesInv => LostEditsNeedOverlap
    <2> SUFFICES ASSUME FilesInv, NEW f \in Files, f \notin disturbed, ~ \E r \in Busy(f) : stage[r] = "write"
                 PROVE  disk[f] = Saved(acked[f])
        BY DEF LostEditsNeedOverlap, Saved
    <2>1. \A r \in Busy(f) : stage[r] \in {"load", "save", "write"}
        BY DEF Busy
    <2> QED
        BY <2>1 DEF FilesInv, OneAtATime
<1> QED
    BY <1>1, FilesInvariant, PTL

-----------------------------------------------------------------------------
(* The saved questions.                                                    *)

\* What the end of a request changes, and what it leaves.
LEMMA AnsweredEffect ==
    ASSUME QaTypes, NEW r \in Askers, NEW label, Answered(r, label)
    PROVE  /\ DOMAIN at' = Askers /\ DOMAIN job' = Askers /\ DOMAIN loaded' = Askers /\ DOMAIN answer' = Askers
           /\ at'[r] = label /\ job'[r].op = "none"
           /\ \A p \in Askers : p # r => /\ at'[p] = at[p] /\ job'[p] = job[p]
                                         /\ loaded'[p] = loaded[p] /\ answer'[p] = answer[p]
BY DEF QaTypes, Answered, NoJob

\* The quotes of a row are finitely many.
LEMMA FiniteHits ==
    ASSUME NEW row \in QuestionRows
    PROVE  IsFiniteSet(row.hits) /\ Cardinality(row.hits) \in Nat
<1>1. row.hits \in SUBSET (Claims \cup Passages)
    BY DEF QuestionRows
<1>2. IsFiniteSet(Claims \cup Passages)
    BY QuestionAssumption, FS_Union
<1>3. IsFiniteSet(row.hits)
    BY <1>1, <1>2, FS_Subset
<1> QED
    BY <1>3, FS_CardinalityType

\* A summary in range cites quotes by their number.
LEMMA RangeOfCites ==
    ASSUME NEW s \in Summaries, NEW n \in Nat, InRange(s, n)
    PROVE  Cited[s] \subseteq 1 .. n
<1>1. Cited[s] \subseteq Nat
    BY QuestionAssumption
<1> QED
    BY <1>1 DEF InRange

\* A step that summarizes nothing leaves what is said of those who do.
LEMMA NoSummaryStep ==
    ASSUME SummariesAreChecked, mingled' = mingled,
           \A p \in Askers : job[p].op = "summarize" => job[p].q \in Questions,
           \A p \in Askers : job'[p].op = "summarize" =>
               at'[p] = at[p] /\ job'[p] = job[p] /\ loaded'[p] = loaded[p] /\ answer'[p] = answer[p],
           \A q \in Questions : saved'[q] = saved[q] \/ saved'[q] = Deleted \/ (saved[q] = Absent /\ saved'[q] \in QuestionRows)
    PROVE  SummariesAreChecked'
<1> SUFFICES ASSUME NEW r \in Askers, job'[r].op = "summarize"
             PROVE  LET q == job'[r].q
                    IN  /\ loaded'[r] \in QuestionRows
                        /\ saved'[q] # Absent
                        /\ q \in Stored' => loaded'[r].hits = saved'[q].hits
                        /\ q \in Stored' \ mingled' => loaded'[r] = saved'[q]
                        /\ q \notin mingled' => \A p \in Askers : Summarizes(p)' = {q} => p = r
                        /\ at'[r] = "storing" => answer'[r] \in Summaries /\ InRange(answer'[r], Cardinality(loaded'[r].hits))
    BY DEF SummariesAreChecked, InRange
<1> DEFINE q == job[r].q
<1>1. /\ at'[r] = at[r] /\ job'[r] = job[r] /\ loaded'[r] = loaded[r] /\ answer'[r] = answer[r]
      /\ job[r].op = "summarize" /\ q \in Questions
    OBVIOUS
<1>2. /\ loaded[r] \in QuestionRows
      /\ saved[q] # Absent
      /\ q \in Stored => loaded[r].hits = saved[q].hits
      /\ q \in Stored \ mingled => loaded[r] = saved[q]
      /\ q \notin mingled => \A p \in Askers : Summarizes(p) = {q} => p = r
      /\ at[r] = "storing" => answer[r] \in Summaries /\ InRange(answer[r], Cardinality(loaded[r].hits))
    BY <1>1 DEF SummariesAreChecked
<1> HIDE DEF q
<1>3. saved'[q] # Absent /\ (q \in Stored' => q \in Stored /\ saved'[q] = saved[q])
    BY <1>1, <1>2, AbsenceAssumption DEF Stored
<1>4. \A p \in Askers : Summarizes(p)' = {q} => Summarizes(p) = {q}
    BY DEF Summarizes
<1> QED
    BY <1>1, <1>2, <1>3, <1>4 DEF q

\* ... and leaves the citations of every row that stays, and stores none.
LEMMA NoCitationStep ==
    ASSUME CitationsFitTheSummary, mingled' = mingled,
           \A q \in Questions : \/ saved'[q] = saved[q] \/ saved'[q] = Deleted
                                \/ saved'[q].cites = Absent /\ saved'[q].summary = Absent
    PROVE  CitationsFitTheSummary'
<1>1. ASSUME NEW q \in Stored', saved'[q] = saved[q]
      PROVE  /\ saved'[q].cites # Absent => saved'[q].cites \subseteq 1..Cardinality(saved'[q].hits)
             /\ q \notin mingled' => saved'[q].cites = (IF saved'[q].summary = Absent THEN Absent ELSE Cited[saved'[q].summary])
    BY <1>1 DEF Stored, CitationsFitTheSummary
<1>2. ASSUME NEW q \in Stored', saved'[q] # saved[q]
      PROVE  saved'[q].cites = Absent /\ saved'[q].summary = Absent
    BY <1>2 DEF Stored
<1> QED
    BY <1>1, <1>2 DEF CitationsFitTheSummary

\* The requests that only create, rename or delete a collection, or ask a question.
LEMMA OtherRequests ==
    ASSUME QaInv, NEW r \in Askers,
           \/ CreateCollection(r) \/ OpenCollection(r) \/ RenameCollection(r)
           \/ DeleteCollection(r) \/ ReadClaims(r) \/ SaveQuestion(r) \/ ModelFails(r)
    PROVE  /\ mingled' = mingled
           /\ foundClaims' = foundClaims
           /\ DOMAIN at' = Askers /\ DOMAIN job' = Askers /\ DOMAIN loaded' = Askers /\ DOMAIN answer' = Askers
           /\ saved' \in [Questions -> QuestionRows \cup {Absent, Deleted}]
           /\ \A q \in Questions : \/ saved'[q] = saved[q] \/ saved'[q] = Deleted
                                   \/ /\ saved[q] = Absent /\ saved'[q] \in QuestionRows
                                      /\ saved'[q].cites = Absent /\ saved'[q].summary = Absent
           /\ \A p \in Askers : p # r => /\ at'[p] = at[p] /\ job'[p] = job[p]
                                         /\ loaded'[p] = loaded[p] /\ answer'[p] = answer[p]
           /\ \/ at'[r] = at[r] /\ job'[r] = job[r] /\ loaded'[r] = loaded[r] /\ answer'[r] = answer[r]
              \/ job'[r].op # "summarize" /\ at'[r] \notin {"asking", "storing", "ranking"}
              \/ job'[r].op # "summarize" /\ at'[r] = "ranking" /\ loaded'[r] \subseteq Claims
<1> DEFINE Goal(unstored) ==
           /\ mingled' = mingled
           /\ foundClaims' = foundClaims
           /\ DOMAIN at' = Askers /\ DOMAIN job' = Askers /\ DOMAIN loaded' = Askers /\ DOMAIN answer' = Askers
           /\ \A p \in Askers : p # r => /\ at'[p] = at[p] /\ job'[p] = job[p]
                                         /\ loaded'[p] = loaded[p] /\ answer'[p] = answer[p]
           /\ \/ at'[r] = at[r] /\ job'[r] = job[r] /\ loaded'[r] = loaded[r] /\ answer'[r] = answer[r]
              \/ job'[r].op # "summarize" /\ at'[r] \notin {"asking", "storing", "ranking"}
              \/ job'[r].op # "summarize" /\ at'[r] = "ranking" /\ loaded'[r] \subseteq Claims
           /\ unstored => saved' = saved
<1> USE DEF QaInv
<1>0. saved \in [Questions -> QuestionRows \cup {Absent, Deleted}]
    BY DEF QaTypes
<1>1. ASSUME CreateCollection(r)
      PROVE  Goal(TRUE)
    BY <1>1, AnsweredEffect DEF CreateCollection
<1>2. ASSUME OpenCollection(r)
      PROVE  Goal(TRUE)
    <2>1. PICK c \in Collections, op \in {"rename", "delete", "save"}, t \in Titles :
              job' = [job EXCEPT ![r] = [op |-> op, of |-> c, title |-> t]]
        BY <1>2 DEF OpenCollection
    <2> QED
        BY <1>2, <2>1 DEF OpenCollection, QaTypes
<1>3. ASSUME RenameCollection(r)
      PROVE  Goal(TRUE)
    <2>1. PICK label \in {"error", "done"} : Answered(r, label)
        BY <1>3 DEF RenameCollection
    <2> QED
        BY <1>3, <2>1, AnsweredEffect DEF RenameCollection
<1>4. ASSUME ReadClaims(r)
      PROVE  Goal(TRUE)
    BY <1>4 DEF ReadClaims, QaTypes
<1>5. ASSUME ModelFails(r)
      PROVE  Goal(TRUE)
    <2>1. CASE failures[r] = 0
        BY <1>5, <2>1 DEF ModelFails, QaTypes
    <2>2. CASE failures[r] # 0
        BY <1>5, <2>2, AnsweredEffect DEF ModelFails
    <2> QED
        BY <2>1, <2>2
<1>6. ASSUME DeleteCollection(r)
      PROVE  /\ Goal(FALSE)
             /\ saved' = [q \in Questions |-> IF q \in Stored /\ saved[q].of = job[r].of THEN Deleted ELSE saved[q]]
    <2>1. Answered(r, "done") /\ mingled' = mingled /\ foundClaims' = foundClaims
        BY <1>6 DEF DeleteCollection
    <2>2. Goal(FALSE)
        BY <2>1, AnsweredEffect
    <2> QED
        BY <1>6, <2>2 DEF DeleteCollection
<1>7. ASSUME SaveQuestion(r)
      PROVE  /\ Goal(FALSE)
             /\ \/ saved' = saved
                \/ \E q \in Questions, row \in QuestionRows :
                     /\ saved[q] = Absent /\ saved' = [saved EXCEPT ![q] = row]
                     /\ row.cites = Absent /\ row.summary = Absent
    <2>1. PICK label \in {"error", "done"} : Answered(r, label)
        BY <1>7 DEF SaveQuestion
    <2>2. mingled' = mingled /\ foundClaims' = foundClaims /\ at[r] = "ranking"
        BY <1>7 DEF SaveQuestion
    <2>3. Goal(FALSE)
        BY <2>1, <2>2, AnsweredEffect
    <2>4. CASE job[r].of \notin Open
        BY <1>7, <2>3, <2>4 DEF SaveQuestion
    <2>5. CASE job[r].of \in Open
        <3>1. PICK q \in Questions, hits \in Hits(loaded[r]) :
                  saved[q] = Absent /\ saved' = [saved EXCEPT ![q] = QuestionRow(job[r].of, hits)]
            BY <1>7, <2>5 DEF SaveQuestion
        <3>2. hits \subseteq Claims \cup Passages
            BY <2>2 DEF Hits, Kept, QaTypes
        <3>3. job[r].of \in Collections
            BY <2>5 DEF Open
        <3> DEFINE row == QuestionRow(job[r].of, hits)
        <3>4. row \in QuestionRows /\ row.cites = Absent /\ row.summary = Absent
            BY <3>2, <3>3 DEF QuestionRow, QuestionRows
        <3> HIDE DEF row
        <3>5. saved' = [saved EXCEPT ![q] = row]
            BY <3>1 DEF row
        <3> QED
            BY <2>3, <3>1, <3>4, <3>5
    <2> QED
        BY <2>4, <2>5
<1>8. ASSUME DeleteCollection(r)
      PROVE  /\ saved' \in [Questions -> QuestionRows \cup {Absent, Deleted}]
             /\ \A q \in Questions : saved'[q] = saved[q] \/ saved'[q] = Deleted
    BY <1>0, <1>6, <1>8
<1>9. ASSUME SaveQuestion(r)
      PROVE  /\ saved' \in [Questions -> QuestionRows \cup {Absent, Deleted}]
             /\ \A q \in Questions : \/ saved'[q] = saved[q]
                                     \/ /\ saved[q] = Absent /\ saved'[q] \in QuestionRows
                                        /\ saved'[q].cites = Absent /\ saved'[q].summary = Absent
    BY <1>0, <1>7, <1>9
<1>10. Goal(FALSE)
    BY <1>1, <1>2, <1>3, <1>4, <1>5, <1>6, <1>7
<1>11. saved' = saved \/ DeleteCollection(r) \/ SaveQuestion(r)
    BY <1>1, <1>2, <1>3, <1>4, <1>5
<1> QED
    BY <1>0, <1>8, <1>9, <1>10, <1>11

\* Where nobody is moved to a summary, the types stay.
LEMMA OtherRequestsKeep ==
    ASSUME QaInv, NEW r \in Askers,
           \/ CreateCollection(r) \/ OpenCollection(r) \/ RenameCollection(r)
           \/ DeleteCollection(r) \/ ReadClaims(r) \/ SaveQuestion(r) \/ ModelFails(r)
    PROVE  QaInv'
<1>1. QaTypes /\ SummariesAreChecked /\ CitationsFitTheSummary
    BY DEF QaInv
<1> DEFINE Gone == \/ job'[r].op # "summarize" /\ at'[r] \notin {"asking", "storing", "ranking"}
                   \/ job'[r].op # "summarize" /\ at'[r] = "ranking" /\ loaded'[r] \subseteq Claims
<1>2. /\ mingled' = mingled
      /\ foundClaims' = foundClaims
      /\ DOMAIN at' = Askers /\ DOMAIN job' = Askers /\ DOMAIN loaded' = Askers /\ DOMAIN answer' = Askers
      /\ saved' \in [Questions -> QuestionRows \cup {Absent, Deleted}]
      /\ \A q \in Questions : \/ saved'[q] = saved[q] \/ saved'[q] = Deleted
                              \/ /\ saved[q] = Absent /\ saved'[q] \in QuestionRows
                                 /\ saved'[q].cites = Absent /\ saved'[q].summary = Absent
      /\ \A p \in Askers : p # r => /\ at'[p] = at[p] /\ job'[p] = job[p]
                                    /\ loaded'[p] = loaded[p] /\ answer'[p] = answer[p]
      /\ \/ at'[r] = at[r] /\ job'[r] = job[r] /\ loaded'[r] = loaded[r] /\ answer'[r] = answer[r]
         \/ Gone
    BY OtherRequests
<1> DEFINE same(p) == at'[p] = at[p] /\ job'[p] = job[p] /\ loaded'[p] = loaded[p] /\ answer'[p] = answer[p]
<1>3. \A p \in Askers : \/ at'[p] = at[p] /\ job'[p] = job[p] /\ loaded'[p] = loaded[p] /\ answer'[p] = answer[p]
                        \/ job'[p].op # "summarize" /\ at'[p] \notin {"asking", "storing", "ranking"}
                        \/ job'[p].op # "summarize" /\ at'[p] = "ranking" /\ loaded'[p] \subseteq Claims
    BY <1>2
<1>4. QaTypes'
    BY <1>1, <1>2, <1>3 DEF QaTypes
<1>5. SummariesAreChecked'
    <2>1. \A p \in Askers : job[p].op = "summarize" => job[p].q \in Questions
        BY <1>1 DEF QaTypes
    <2>2. \A p \in Askers : job'[p].op = "summarize" =>
              at'[p] = at[p] /\ job'[p] = job[p] /\ loaded'[p] = loaded[p] /\ answer'[p] = answer[p]
        BY <1>3
    <2>3. \A q \in Questions : \/ saved'[q] = saved[q] \/ saved'[q] = Deleted
                               \/ saved[q] = Absent /\ saved'[q] \in QuestionRows
        BY <1>2
    <2>4. mingled' = mingled
        BY <1>2
    <2> QED
        BY <1>1, <2>1, <2>2, <2>3, <2>4, NoSummaryStep
<1>6. CitationsFitTheSummary'
    <2>1. \A q \in Questions : \/ saved'[q] = saved[q] \/ saved'[q] = Deleted
                               \/ saved'[q].cites = Absent /\ saved'[q].summary = Absent
        BY <1>2
    <2>2. mingled' = mingled
        BY <1>2
    <2> QED
        BY <1>1, <2>1, <2>2, NoCitationStep
<1> QED
    BY <1>4, <1>5, <1>6 DEF QaInv

\* To start a summary a request reads the row; one that another is at is mingled.
LEMMA OpenQuestionKeeps ==
    ASSUME QaInv, NEW r \in Askers, OpenQuestion(r)
    PROVE  QaInv'
<1>1. QaTypes /\ SummariesAreChecked /\ CitationsFitTheSummary
    BY DEF QaInv
<1>2. at[r] = "new" /\ saved' = saved /\ foundClaims' = foundClaims
    BY DEF OpenQuestion
<1>3. job[r].op # "summarize"
    BY <1>1, <1>2 DEF QaTypes
<1>4. PICK q \in Questions :
         /\ q \in Stored
         /\ IF saved[q].hits = {}
            THEN Answered(r, "refused") /\ mingled' = mingled
            ELSE /\ job' = [job EXCEPT ![r] = [op |-> "summarize", q |-> q]]
                 /\ loaded' = [loaded EXCEPT ![r] = saved[q]]
                 /\ at' = [at EXCEPT ![r] = "asking"]
                 /\ mingled' = IF \E p \in Askers : q \in Summarizes(p) THEN mingled \cup {q} ELSE mingled
                 /\ UNCHANGED <<failures, answer>>
    BY DEF OpenQuestion
<1>5. saved[q] \in QuestionRows
    BY <1>1, <1>4 DEF QaTypes, Stored
<1>6. Stored' = Stored
    BY <1>2 DEF Stored
<1>7. CASE saved[q].hits = {}
    <2>1. Answered(r, "refused") /\ mingled' = mingled
        BY <1>4, <1>7
    <2>2. /\ DOMAIN at' = Askers /\ DOMAIN job' = Askers /\ DOMAIN loaded' = Askers /\ DOMAIN answer' = Askers
          /\ at'[r] = "refused" /\ job'[r].op = "none"
          /\ \A p \in Askers : p # r => /\ at'[p] = at[p] /\ job'[p] = job[p]
                                        /\ loaded'[p] = loaded[p] /\ answer'[p] = answer[p]
        BY <1>1, <2>1, AnsweredEffect
    <2>3. QaTypes'
        BY <1>1, <1>2, <2>2 DEF QaTypes
    <2>4. SummariesAreChecked'
        <3>1. \A p \in Askers : job[p].op = "summarize" => job[p].q \in Questions
            BY <1>1 DEF QaTypes
        <3>2. \A p \in Askers : job'[p].op = "summarize" =>
                  at'[p] = at[p] /\ job'[p] = job[p] /\ loaded'[p] = loaded[p] /\ answer'[p] = answer[p]
            BY <2>2
        <3> QED
            BY <1>1, <1>2, <2>1, <3>1, <3>2, NoSummaryStep
    <2>5. CitationsFitTheSummary'
        BY <1>1, <1>2, <2>1, NoCitationStep
    <2> QED
        BY <2>3, <2>4, <2>5 DEF QaInv
<1>8. CASE saved[q].hits # {}
    <2>1. /\ DOMAIN at' = Askers /\ DOMAIN job' = Askers /\ DOMAIN loaded' = Askers /\ DOMAIN answer' = Askers
          /\ at'[r] = "asking" /\ job'[r] = [op |-> "summarize", q |-> q] /\ loaded'[r] = saved[q]
          /\ answer' = answer
          /\ \A p \in Askers : p # r => at'[p] = at[p] /\ job'[p] = job[p] /\ loaded'[p] = loaded[p]
        BY <1>1, <1>4, <1>8 DEF QaTypes
    <2>2. mingled' = IF \E p \in Askers : q \in Summarizes(p) THEN mingled \cup {q} ELSE mingled
        BY <1>4, <1>8
    <2>3. QaTypes'
        BY <1>1, <1>2, <2>1 DEF QaTypes
    <2>4. Summarizes(r)' = {q} /\ \A p \in Askers : p # r => Summarizes(p)' = Summarizes(p)
        BY <2>1 DEF Summarizes
    <2>5. \A p \in Askers : Summarizes(p) = {q} => q \in mingled'
        BY <2>2
    <2> HIDE DEF QaInv
    <2>6. SummariesAreChecked'
        <3>1. /\ loaded'[r] \in QuestionRows /\ loaded'[r] = saved'[q] /\ saved'[q] # Absent
            BY <1>2, <1>4, <1>5, <2>1 DEF Stored
        <3>2. q \notin mingled' => \A p \in Askers : Summarizes(p)' = {q} => p = r
            BY <2>4, <2>5
        <3>3. ASSUME NEW p \in Askers, p # r, job'[p].op = "summarize", NEW d, d = job'[p].q
              PROVE  /\ loaded'[p] \in QuestionRows
                     /\ saved'[d] # Absent
                     /\ d \in Stored' => loaded'[p].hits = saved'[d].hits
                     /\ d \in Stored' \ mingled' => loaded'[p] = saved'[d]
                     /\ d \notin mingled' => \A o \in Askers : Summarizes(o)' = {d} => o = p
                     /\ at'[p] = "storing" => answer'[p] \in Summaries /\ InRange(answer'[p], Cardinality(loaded'[p].hits))
            <4>1. job[p].op = "summarize" /\ d = job[p].q
                BY <2>1, <3>3
            <4>2. /\ loaded[p] \in QuestionRows
                  /\ saved[d] # Absent
                  /\ d \in Stored => loaded[p].hits = saved[d].hits
                  /\ d \in Stored \ mingled => loaded[p] = saved[d]
                  /\ d \notin mingled => \A o \in Askers : Summarizes(o) = {d} => o = p
                  /\ at[p] = "storing" => answer[p] \in Summaries /\ InRange(answer[p], Cardinality(loaded[p].hits))
                BY <1>1, <4>1 DEF SummariesAreChecked
            <4>3. d = q => q \in mingled'
                BY <2>5, <4>1 DEF Summarizes
            <4>4. mingled \subseteq mingled'
                BY <2>2
            <4>5. d \notin mingled' => \A o \in Askers : Summarizes(o)' = {d} => o = p
                BY <2>4, <4>2, <4>3, <4>4
            <4>6. /\ loaded'[p] = loaded[p] /\ at'[p] = at[p] /\ answer'[p] = answer[p]
                BY <2>1, <3>3
            <4>7. at'[p] = "storing" => answer'[p] \in Summaries /\ InRange(answer'[p], Cardinality(loaded'[p].hits))
                BY <4>2, <4>6
            <4> QED
                BY <1>2, <1>6, <4>2, <4>4, <4>5, <4>6, <4>7
        <3> SUFFICES ASSUME NEW p \in Askers, job'[p].op = "summarize", NEW d, d = job'[p].q
                     PROVE  /\ loaded'[p] \in QuestionRows
                            /\ saved'[d] # Absent
                            /\ d \in Stored' => loaded'[p].hits = saved'[d].hits
                            /\ d \in Stored' \ mingled' => loaded'[p] = saved'[d]
                            /\ d \notin mingled' => \A o \in Askers : Summarizes(o)' = {d} => o = p
                            /\ at'[p] = "storing" => answer'[p] \in Summaries /\ InRange(answer'[p], Cardinality(loaded'[p].hits))
            BY DEF SummariesAreChecked, InRange
        <3>4. CASE p = r
            BY <2>1, <3>1, <3>2, <3>4
        <3>5. CASE p # r
            BY <3>3, <3>5
        <3> QED
            BY <3>4, <3>5
    <2>7. CitationsFitTheSummary'
        BY <1>1, <1>2, <1>6, <2>2 DEF CitationsFitTheSummary
    <2> QED
        BY <2>3, <2>6, <2>7 DEF QaInv
<1> QED
    BY <1>7, <1>8

\* The model's answer is checked against the quotes that were read.
LEMMA ModelAnswersKeeps ==
    ASSUME QaInv, NEW r \in Askers, ModelAnswers(r)
    PROVE  QaInv'
<1>1. QaTypes /\ SummariesAreChecked /\ CitationsFitTheSummary
    BY DEF QaInv
<1>2. PICK s \in Summaries : /\ InRange(s, Cardinality(loaded[r].hits))
                             /\ answer' = [answer EXCEPT ![r] = s]
    BY DEF ModelAnswers
<1>3. /\ at[r] = "asking" /\ at' = [at EXCEPT ![r] = "storing"]
      /\ saved' = saved /\ foundClaims' = foundClaims /\ job' = job /\ loaded' = loaded /\ mingled' = mingled
    BY DEF ModelAnswers
<1>4. QaTypes'
    BY <1>1, <1>2, <1>3 DEF QaTypes
<1>5. Stored' = Stored
    BY <1>3 DEF Stored
<1>6. \A p \in Askers : Summarizes(p)' = Summarizes(p)
    BY <1>3 DEF Summarizes
<1>7. \A p \in Askers : job'[p].op = "summarize" /\ at'[p] = "storing" =>
          answer'[p] \in Summaries /\ InRange(answer'[p], Cardinality(loaded'[p].hits))
    <2>1. ASSUME NEW p \in Askers, job'[p].op = "summarize", at'[p] = "storing"
          PROVE  answer'[p] \in Summaries /\ InRange(answer'[p], Cardinality(loaded'[p].hits))
        <3>1. CASE p = r
            <4>1. answer'[p] = s
                BY <1>1, <1>2, <3>1 DEF QaTypes
            <4> QED
                BY <1>2, <1>3, <3>1, <4>1
        <3>2. CASE p # r
            <4>1. answer'[p] = answer[p] /\ at'[p] = at[p]
                BY <1>1, <1>2, <1>3, <3>2 DEF QaTypes
            <4> QED
                BY <1>1, <1>3, <2>1, <4>1 DEF SummariesAreChecked
        <3> QED
            BY <3>1, <3>2
    <2> QED
        BY <2>1
<1>8. SummariesAreChecked'
    <2> SUFFICES ASSUME NEW p \in Askers, job'[p].op = "summarize", NEW d, d = job'[p].q
                 PROVE  /\ loaded'[p] \in QuestionRows
                        /\ saved'[d] # Absent
                        /\ d \in Stored' => loaded'[p].hits = saved'[d].hits
                        /\ d \in Stored' \ mingled' => loaded'[p] = saved'[d]
                        /\ d \notin mingled' => \A o \in Askers : Summarizes(o)' = {d} => o = p
                        /\ at'[p] = "storing" => answer'[p] \in Summaries /\ InRange(answer'[p], Cardinality(loaded'[p].hits))
        BY DEF SummariesAreChecked, InRange
    <2>1. job[p].op = "summarize" /\ d = job[p].q
        BY <1>3
    <2>2. /\ loaded[p] \in QuestionRows
          /\ saved[d] # Absent
          /\ d \in Stored => loaded[p].hits = saved[d].hits
          /\ d \in Stored \ mingled => loaded[p] = saved[d]
          /\ d \notin mingled => \A o \in Askers : Summarizes(o) = {d} => o = p
        BY <1>1, <2>1 DEF SummariesAreChecked
    <2> QED
        BY <1>3, <1>5, <1>6, <1>7, <2>2
<1>9. CitationsFitTheSummary'
    BY <1>1, <1>3, <1>5 DEF CitationsFitTheSummary
<1> QED
    BY <1>4, <1>8, <1>9 DEF QaInv

\* The UPDATE sets the text and the citations of the answer, but for what the row
\* that was read already had: the row itself, if no other request was at it.
LEMMA StoreSummaryKeeps ==
    ASSUME QaInv, NEW r \in Askers, StoreSummary(r)
    PROVE  QaInv'
<1> DEFINE q == job[r].q
           wrote == answer[r]
           text == IF loaded[r].summary = wrote THEN saved[q].summary ELSE wrote
           numbers == IF loaded[r].cites = Cited[wrote] THEN saved[q].cites ELSE Cited[wrote]
<1>1. QaTypes /\ SummariesAreChecked /\ CitationsFitTheSummary
    BY DEF QaInv
<1>2. at[r] = "storing" /\ foundClaims' = foundClaims /\ mingled' = mingled
    BY DEF StoreSummary
<1>3. PICK label \in {"error", "done"} : Answered(r, label)
    BY DEF StoreSummary
<1>4. /\ DOMAIN at' = Askers /\ DOMAIN job' = Askers /\ DOMAIN loaded' = Askers /\ DOMAIN answer' = Askers
      /\ at'[r] = label /\ job'[r].op = "none"
      /\ \A p \in Askers : p # r => /\ at'[p] = at[p] /\ job'[p] = job[p]
                                    /\ loaded'[p] = loaded[p] /\ answer'[p] = answer[p]
    BY <1>1, <1>3, AnsweredEffect
<1>5. job[r].op = "summarize" /\ q \in Questions
    BY <1>1, <1>2 DEF QaTypes
<1>6. /\ loaded[r] \in QuestionRows
      /\ q \in Stored => loaded[r].hits = saved[q].hits
      /\ q \in Stored \ mingled => loaded[r] = saved[q]
      /\ q \notin mingled => \A p \in Askers : Summarizes(p) = {q} => p = r
      /\ wrote \in Summaries /\ InRange(wrote, Cardinality(loaded[r].hits))
    BY <1>1, <1>2, <1>5 DEF SummariesAreChecked
<1>7. saved \in [Questions -> QuestionRows \cup {Absent, Deleted}]
    BY <1>1 DEF QaTypes
<1>8. IF q \notin Stored
      THEN saved' = saved
      ELSE saved' = [saved EXCEPT ![q].summary = IF loaded[r].summary = wrote THEN @ ELSE wrote,
                                  ![q].cites = IF loaded[r].cites = Cited[wrote] THEN @ ELSE Cited[wrote]]
    BY DEF StoreSummary
<1> HIDE DEF q, wrote
<1>9. ASSUME q \in Stored
      PROVE  /\ saved[q] \in QuestionRows
             /\ saved' = [saved EXCEPT ![q] = [saved[q] EXCEPT !.summary = text, !.cites = numbers]]
    <2>1. saved[q] \in QuestionRows
        BY <1>5, <1>7, <1>9 DEF Stored
    <2>2. [saved EXCEPT ![q].summary = IF loaded[r].summary = wrote THEN @ ELSE wrote,
                        ![q].cites = IF loaded[r].cites = Cited[wrote] THEN @ ELSE Cited[wrote]]
          = [saved EXCEPT ![q] = [saved[q] EXCEPT !.summary = text, !.cites = numbers]]
        BY <1>5, <1>7, <2>1 DEF QuestionRows
    <2> QED
        BY <1>8, <1>9, <2>1, <2>2
<1>10. ASSUME q \in Stored, NEW row, row = [saved[q] EXCEPT !.summary = text, !.cites = numbers]
       PROVE  /\ row \in QuestionRows
              /\ row.hits = saved[q].hits /\ row.summary = text /\ row.cites = numbers
    <2>1. saved[q].summary \in Summaries \cup {Absent} /\ saved[q].cites \in {Absent} \cup {Cited[s] : s \in Summaries}
        BY <1>9, <1>10 DEF QuestionRows
    <2>2. text \in Summaries \cup {Absent} /\ numbers \in {Absent} \cup {Cited[s] : s \in Summaries}
        BY <1>6, <2>1
    <2> HIDE DEF text, numbers
    <2>3. saved[q] \in QuestionRows
        BY <1>9, <1>10
    <2> QED
        BY <1>10, <2>2, <2>3 DEF QuestionRows
<1>11. ASSUME q \in Stored
       PROVE  /\ text = wrote \/ (q \in mingled /\ text = saved[q].summary)
              /\ numbers = Cited[wrote] \/ (q \in mingled /\ numbers = saved[q].cites)
    BY <1>6, <1>11
<1> HIDE DEF text, numbers
<1>12. /\ saved' \in [Questions -> QuestionRows \cup {Absent, Deleted}]
       /\ \A d \in Questions : d # q => saved'[d] = saved[d]
       /\ q \in Stored =>
            /\ saved'[q] \in QuestionRows /\ saved'[q].hits = saved[q].hits
            /\ saved'[q].summary = text /\ saved'[q].cites = numbers
       /\ q \notin Stored => saved'[q] = saved[q]
    <2>1. CASE q \in Stored
        <3> DEFINE row == [saved[q] EXCEPT !.summary = text, !.cites = numbers]
        <3>1. /\ row \in QuestionRows
              /\ row.hits = saved[q].hits /\ row.summary = text /\ row.cites = numbers
            BY <1>10, <2>1
        <3>2. saved' = [saved EXCEPT ![q] = row]
            BY <1>9, <2>1
        <3> HIDE DEF row
        <3> QED
            BY <1>5, <1>7, <2>1, <3>1, <3>2
    <2>2. CASE q \notin Stored
        BY <1>7, <1>8, <2>2
    <2> QED
        BY <2>1, <2>2
<1>13. Stored' = Stored
    BY <1>12, AbsenceAssumption DEF Stored
<1>14. QaTypes'
    <2>1. \A p \in Askers : \/ at'[p] = at[p] /\ job'[p] = job[p] /\ loaded'[p] = loaded[p]
                            \/ job'[p].op # "summarize" /\ at'[p] \notin {"asking", "storing", "ranking"}
        BY <1>4
    <2> QED
        BY <1>1, <1>2, <1>4, <1>12, <2>1 DEF QaTypes
<1>15. SummariesAreChecked'
    <2> SUFFICES ASSUME NEW p \in Askers, job'[p].op = "summarize", NEW d, d = job'[p].q
                 PROVE  /\ loaded'[p] \in QuestionRows
                        /\ saved'[d] # Absent
                        /\ d \in Stored' => loaded'[p].hits = saved'[d].hits
                        /\ d \in Stored' \ mingled' => loaded'[p] = saved'[d]
                        /\ d \notin mingled' => \A o \in Askers : Summarizes(o)' = {d} => o = p
                        /\ at'[p] = "storing" => answer'[p] \in Summaries /\ InRange(answer'[p], Cardinality(loaded'[p].hits))
        BY DEF SummariesAreChecked, InRange
    <2>1. p # r
        BY <1>4
    <2>2. /\ at'[p] = at[p] /\ job'[p] = job[p] /\ loaded'[p] = loaded[p] /\ answer'[p] = answer[p]
          /\ job[p].op = "summarize" /\ d = job[p].q /\ d \in Questions
        BY <1>1, <1>4, <2>1 DEF QaTypes
    <2>3. /\ loaded[p] \in QuestionRows
          /\ saved[d] # Absent
          /\ d \in Stored => loaded[p].hits = saved[d].hits
          /\ d \in Stored \ mingled => loaded[p] = saved[d]
          /\ d \notin mingled => \A o \in Askers : Summarizes(o) = {d} => o = p
          /\ at[p] = "storing" => answer[p] \in Summaries /\ InRange(answer[p], Cardinality(loaded[p].hits))
        BY <1>1, <2>2 DEF SummariesAreChecked
    <2>4. d = q => q \in mingled
        BY <1>5, <1>6, <2>1, <2>2 DEF Summarizes, q
    <2>5. d \in Stored' => saved'[d].hits = saved[d].hits
        BY <1>12, <1>13, <2>2
    <2>6. d \notin mingled => saved'[d] = saved[d]
        BY <1>12, <2>2, <2>4
    <2>7. saved'[d] # Absent
        BY <1>12, <2>2, <2>3, AbsenceAssumption
    <2>8. \A o \in Askers : Summarizes(o)' = {d} => Summarizes(o) = {d}
        BY <1>4 DEF Summarizes
    <2>9. at'[p] = "storing" => answer'[p] \in Summaries /\ InRange(answer'[p], Cardinality(loaded'[p].hits))
        BY <2>2, <2>3
    <2> QED
        BY <1>2, <1>13, <2>2, <2>3, <2>5, <2>6, <2>7, <2>8, <2>9
<1>16. CitationsFitTheSummary'
    <2>1. ASSUME q \in Stored
          PROVE  /\ numbers # Absent => numbers \subseteq 1..Cardinality(saved[q].hits)
                 /\ q \notin mingled => numbers = Cited[wrote] /\ text = wrote
        <3>1. Cardinality(loaded[r].hits) \in Nat
            BY <1>6, FiniteHits
        <3>2. Cited[wrote] \subseteq 1..Cardinality(loaded[r].hits)
            BY <1>6, <3>1, RangeOfCites
        <3>3. saved[q].cites # Absent => saved[q].cites \subseteq 1..Cardinality(saved[q].hits)
            BY <1>1, <2>1 DEF CitationsFitTheSummary
        <3> QED
            BY <1>6, <1>11, <2>1, <3>2, <3>3
    <2> SUFFICES ASSUME NEW d \in Stored'
                 PROVE  /\ saved'[d].cites # Absent => saved'[d].cites \subseteq 1..Cardinality(saved'[d].hits)
                        /\ d \notin mingled' => saved'[d].cites = (IF saved'[d].summary = Absent THEN Absent ELSE Cited[saved'[d].summary])
        BY DEF CitationsFitTheSummary
    <2>2. CASE d = q
        BY <1>2, <1>6, <1>12, <1>13, <2>1, <2>2, AbsenceAssumption
    <2>3. CASE d # q
        <3>1. d \in Stored /\ saved'[d] = saved[d]
            BY <1>12, <1>13, <2>3 DEF Stored
        <3> QED
            BY <1>1, <1>2, <3>1 DEF CitationsFitTheSummary
    <2> QED
        BY <2>2, <2>3
<1> QED
    BY <1>14, <1>15, <1>16 DEF QaInv

\* No question has been asked at first.
LEMMA QaInit1 == QaInit => QaInv
<1> SUFFICES ASSUME QaInit
             PROVE  QaInv
    OBVIOUS
<1>1. PICK c \in Collections, s \in Summaries \cup {Absent}, hits \in SUBSET Claims :
         /\ s # Absent => hits # {} /\ Cited[s] \subseteq 1..Cardinality(hits)
         /\ saved = [q \in Questions |->
              IF q = OldQuestion
              THEN [of |-> c, hits |-> hits, summary |-> s, cites |-> IF s = Absent THEN Absent ELSE Cited[s]]
              ELSE Absent]
    BY DEF QaInit
<1> DEFINE row == [of |-> c, hits |-> hits, summary |-> s, cites |-> IF s = Absent THEN Absent ELSE Cited[s]]
<1>2. row \in QuestionRows
    <2>1. (IF s = Absent THEN Absent ELSE Cited[s]) \in {Absent} \cup {Cited[t] : t \in Summaries}
        BY <1>1
    <2> QED
        BY <1>1, <2>1 DEF QuestionRows
<1>3. /\ row.hits = hits /\ row.summary = s /\ row.cites = IF s = Absent THEN Absent ELSE Cited[s]
    OBVIOUS
<1> HIDE DEF row
<1>4. saved = [q \in Questions |-> IF q = OldQuestion THEN row ELSE Absent]
    BY <1>1 DEF row
<1>5. QaTypes
    BY <1>2, <1>4 DEF QaTypes, QaInit, NoJob
<1>6. SummariesAreChecked
    BY DEF SummariesAreChecked, QaInit, NoJob
<1>7. CitationsFitTheSummary
    <2>1. \A q \in Stored : saved[q] = row
        BY <1>4 DEF Stored
    <2> QED
        BY <1>1, <1>3, <2>1 DEF CitationsFitTheSummary
<1> QED
    BY <1>5, <1>6, <1>7 DEF QaInv

\* Every step of a request keeps the invariant.
LEMMA QaStep == QaInv /\ [QaNext]_qaVars => QaInv'
<1> SUFFICES ASSUME QaInv, [QaNext]_qaVars
             PROVE  QaInv'
    OBVIOUS
<1>1. ASSUME NEW r \in Askers,
             \/ CreateCollection(r) \/ OpenCollection(r) \/ RenameCollection(r)
             \/ DeleteCollection(r) \/ ReadClaims(r) \/ SaveQuestion(r) \/ ModelFails(r)
      PROVE  QaInv'
    BY <1>1, OtherRequestsKeep
<1>2. ASSUME NEW r \in Askers, OpenQuestion(r)
      PROVE  QaInv'
    BY <1>2, OpenQuestionKeeps
<1>3. ASSUME NEW r \in Askers, ModelAnswers(r)
      PROVE  QaInv'
    BY <1>3, ModelAnswersKeeps
<1>4. ASSUME NEW r \in Askers, StoreSummary(r)
      PROVE  QaInv'
    BY <1>4, StoreSummaryKeeps
<1>5. ASSUME \/ ClaimsChange
             \/ UNCHANGED qaVars
      PROVE  QaInv'
    <2>1. /\ saved' = saved /\ at' = at /\ job' = job /\ loaded' = loaded /\ answer' = answer /\ mingled' = mingled
          /\ foundClaims' \in SUBSET Claims
        BY <1>5 DEF ClaimsChange, qaVars, QaInv, QaTypes
    <2>2. QaTypes'
        BY <2>1 DEF QaInv, QaTypes
    <2>3. SummariesAreChecked'
        BY <2>1 DEF QaInv, SummariesAreChecked, Stored, Summarizes, InRange
    <2>4. CitationsFitTheSummary'
        BY <2>1 DEF QaInv, CitationsFitTheSummary, Stored
    <2> QED
        BY <2>2, <2>3, <2>4 DEF QaInv
<1> QED
    BY <1>1, <1>2, <1>3, <1>4, <1>5 DEF QaNext

\* Summaries are checked against the quotes as they are.
LEMMA QaInvariant == QaSpec => []QaInv
BY QaInit1, QaStep, PTL DEF QaSpec

\* The numbers a stored summary cites are those of its own text and of quotes its
\* row holds, whatever requests interleave, save where two summarized one question
\* (CitationsFitTheSummary), for any numbers of requests, claims and summaries.
THEOREM CitationsAreOfTheirSummary == QaSpec => []CitationsFitTheSummary
<1>1. QaInv => CitationsFitTheSummary
    BY DEF QaInv
<1> QED
    BY <1>1, QaInvariant, PTL

-----------------------------------------------------------------------------
(* The repair scripts.                                                     *)

USE DEF Sentences

\* Cleaning takes a layer off, and stops where there is none.
LEMMA CleaningStops ==
    /\ 0 \in Forms
    /\ \A f \in Forms : /\ f \in Nat /\ Clean(f) \in Forms /\ Clean(f) \in Nat
                        /\ Clean(f) <= f /\ (f # 0 => Clean(f) < f)
                        /\ (Clean(f) = f <=> f = 0)
BY EscapesAssumption DEF Forms, Clean

\* What a script reads is typed as it should be.
LEMMA SnapshotsAreTyped ==
    ASSUME RepairsTypes, NEW script
    PROVE  Snapshot(script) \in Snapshots \/ script \notin Scripts
<1> USE DEF RepairsTypes
<1>1. Nothing \in Snapshots
    BY CleaningStops DEF Nothing, Snapshots, GapStatuses
<1>2. CASE script = "abstract"
    <2> DEFINE some == Clean(abstract) # abstract
    <2>1. Snapshot(script) = [Nothing EXCEPT !.form = abstract, !.todo = some] /\ some \in BOOLEAN
        BY <1>2 DEF Snapshot
    <2> HIDE DEF some
    <2> QED
        BY <1>1, <2>1 DEF Snapshots
<1>3. CASE script = "evidence"
    <2> DEFINE spoiled(set) == {r \in set : Clean(r.form) # r.form}
    <2>1. Snapshot(script) = [Nothing EXCEPT !.evidence = spoiled(evidence), !.claims = spoiled(claims), !.form = abstract,
                              !.todo = spoiled(evidence) \cup spoiled(claims) # {}]
        BY <1>3 DEF Snapshot
    <2>2. spoiled(evidence) \in SUBSET Rows /\ spoiled(claims) \in SUBSET Rows
        OBVIOUS
    <2>3. (spoiled(evidence) \cup spoiled(claims) # {}) \in BOOLEAN /\ abstract \in Forms
        OBVIOUS
    <2> HIDE DEF spoiled
    <2> QED
        BY <1>1, <2>1, <2>2, <2>3 DEF Snapshots
<1>4. CASE script = "recover"
    <2> DEFINE found == {form \in rejected : Recoverable(form)}
    <2>1. Snapshot(script) = [Nothing EXCEPT !.form = abstract, !.todo = found # {}]
        BY <1>4 DEF Snapshot
    <2> HIDE DEF found
    <2> QED
        BY <1>1, <2>1 DEF Snapshots
<1>5. CASE script = "revalidate"
    <2> DEFINE invalid == {c \in claims : c.of \notin Accepted}
    <2>1. Snapshot(script) = [Nothing EXCEPT !.claims = invalid, !.todo = invalid # {}]
        BY <1>5 DEF Snapshot
    <2>2. invalid \in SUBSET Rows
        OBVIOUS
    <2> HIDE DEF invalid
    <2> QED
        BY <1>1, <2>1, <2>2 DEF Snapshots
<1>6. CASE script = "claims"
    <2>1. Snapshot(script) = [Nothing EXCEPT !.status = gapStatus, !.todo = mirror = {}]
        BY <1>6 DEF Snapshot
    <2> QED
        BY <1>1, <2>1 DEF Snapshots
<1>7. CASE script = "categories"
    <2>1. Snapshot(script) = [Nothing EXCEPT !.todo = ~ category]
        BY <1>7 DEF Snapshot
    <2>2. (~ category) \in BOOLEAN
        OBVIOUS
    <2> QED
        BY <1>1, <2>1, <2>2 DEF Snapshots
<1> QED
    BY <1>2, <1>3, <1>4, <1>5, <1>6, <1>7 DEF Scripts, TextScripts

\* Who ends a script leaves the others as they are.
LEMMA PutLeavesTheOthers ==
    ASSUME RepairsTypes, NEW o \in Operators, Put(o)
    PROVE  /\ task' \in [Operators -> Scripts \cup {"none"}] /\ read' \in [Operators -> Snapshots]
           /\ task'[o] = "none"
           /\ \A p \in Operators : p # o => task'[p] = task[p] /\ read'[p] = read[p]
<1>1. Nothing \in Snapshots
    BY CleaningStops DEF Nothing, Snapshots, GapStatuses
<1> QED
    BY <1>1 DEF Put, RepairsTypes

\* Who begins one has what it reads now.
LEMMA BeginReads ==
    ASSUME RepairsTypes, NEW o \in Operators, Begin(o)
    PROVE  /\ task' \in [Operators -> Scripts \cup {"none"}] /\ read' \in [Operators -> Snapshots]
           /\ \A p \in Operators : p # o => task'[p] = task[p] /\ read'[p] = read[p]
           /\ task[o] = "none"
           /\ \E script \in Scripts :
                /\ task'[o] # "none" =>
                     /\ task'[o] = script /\ Snapshot(script).todo
                     /\ read'[o] = Snapshot(script)
                /\ crowded' = (crowded \/ (script = "recover" /\ (Running("recover") # {} \/ extracting # {})))
                /\ tended' = (tended \/ (script = "evidence" /\ abstract = 0 /\ ~ Snapshot(script).todo))
                /\ overtaken' = (overtaken \/ (script = "claims" /\ Running("claims") # {}))
<1>1. Nothing \in Snapshots
    BY CleaningStops DEF Nothing, Snapshots, GapStatuses
<1>2. PICK script \in Scripts :
         /\ task' = [task EXCEPT ![o] = IF Snapshot(script).todo THEN script ELSE "none"]
         /\ read' = [read EXCEPT ![o] = IF Snapshot(script).todo THEN Snapshot(script) ELSE Nothing]
         /\ crowded' = (crowded \/ (script = "recover" /\ (Running("recover") # {} \/ extracting # {})))
         /\ tended' = (tended \/ (script = "evidence" /\ abstract = 0 /\ ~ Snapshot(script).todo))
         /\ overtaken' = (overtaken \/ (script = "claims" /\ Running("claims") # {}))
    BY DEF Begin
<1>3. Snapshot(script) \in Snapshots
    BY SnapshotsAreTyped
<1>4. task \in [Operators -> Scripts \cup {"none"}] /\ read \in [Operators -> Snapshots] /\ task[o] = "none"
    BY DEF RepairsTypes, Begin
<1>5. task' \in [Operators -> Scripts \cup {"none"}] /\ read' \in [Operators -> Snapshots]
    BY <1>1, <1>2, <1>3, <1>4
<1>6. \A p \in Operators : p # o => task'[p] = task[p] /\ read'[p] = read[p]
    BY <1>2, <1>4
<1>7. task'[o] # "none" => task'[o] = script /\ Snapshot(script).todo /\ read'[o] = Snapshot(script)
    BY <1>2, <1>4
<1> QED
    BY <1>2, <1>4, <1>5, <1>6, <1>7

\* What each script that matters here has read when it begins.
LEMMA SnapshotReads ==
    ASSUME RepairsTypes
    PROVE  /\ Snapshot("evidence").form = abstract
           /\ Snapshot("evidence").evidence = {r \in evidence : r.form # 0}
           /\ Snapshot("evidence").claims = {r \in claims : r.form # 0}
           /\ ~ Snapshot("evidence").todo => \A r \in evidence \cup claims : r.form = 0
           /\ Snapshot("abstract").form = abstract
           /\ Snapshot("abstract").todo => abstract # 0
           /\ Snapshot("recover").form = abstract
           /\ Snapshot("recover").todo => \E form \in rejected : Recoverable(form)
           /\ Snapshot("claims").status = gapStatus
           /\ Snapshot("claims").todo => mirror = {}
<1> DEFINE spoiled(set) == {r \in set : Clean(r.form) # r.form}
           found == {form \in rejected : Recoverable(form)}
<1>1. Snapshot("evidence") =
          [Nothing EXCEPT !.evidence = spoiled(evidence), !.claims = spoiled(claims), !.form = abstract,
                          !.todo = spoiled(evidence) \cup spoiled(claims) # {}]
    BY DEF Snapshot
<1>2. Snapshot("recover") = [Nothing EXCEPT !.form = abstract, !.todo = found # {}]
    BY DEF Snapshot
<1>3. Snapshot("claims") = [Nothing EXCEPT !.status = gapStatus, !.todo = mirror = {}]
    BY DEF Snapshot
<1>4. /\ Snapshot("evidence").form = abstract
      /\ Snapshot("evidence").evidence = spoiled(evidence)
      /\ Snapshot("evidence").claims = spoiled(claims)
      /\ ~ Snapshot("evidence").todo => spoiled(evidence) \cup spoiled(claims) = {}
    <2> HIDE DEF spoiled
    <2> QED
        BY <1>1 DEF Nothing
<1>5. Snapshot("recover").form = abstract /\ (Snapshot("recover").todo => found # {})
    <2> HIDE DEF found
    <2> QED
        BY <1>2 DEF Nothing
<1>6. Snapshot("claims").status = gapStatus /\ (Snapshot("claims").todo => mirror = {})
    BY <1>3 DEF Nothing
<1>7. Snapshot("abstract").form = abstract /\ (Snapshot("abstract").todo => abstract # 0)
    <2> DEFINE some == Clean(abstract) # abstract
    <2>1. Snapshot("abstract") = [Nothing EXCEPT !.form = abstract, !.todo = some]
        BY DEF Snapshot
    <2>2. some => abstract # 0
        BY CleaningStops DEF RepairsTypes
    <2> HIDE DEF some
    <2> QED
        BY <2>1, <2>2 DEF Nothing
<1>8. spoiled(evidence) = {r \in evidence : r.form # 0} /\ spoiled(claims) = {r \in claims : r.form # 0}
    <2>1. \A r \in evidence \cup claims : r.form \in Forms
        BY DEF RepairsTypes, Rows
    <2> QED
        BY <2>1, CleaningStops
<1> HIDE DEF spoiled
<1> QED
    BY <1>4, <1>5, <1>6, <1>7, <1>8

-----------------------------------------------------------------------------
(* The backfill of claims.                                                 *)

\* A backfill writes the claim of a gap that has none.
LEMMA BackfillStep ==
    ASSUME RepairsTypes, RepairsTypes', OneBackfill, [RepairsNext]_repairVariables
    PROVE  OneBackfill'
<1> SUFFICES ASSUME ~ overtaken'
             PROVE  /\ \A o, p \in Operators : task'[o] = "claims" /\ task'[p] = "claims" => o = p
                    /\ \A o \in Operators : task'[o] = "claims" => mirror' = {} /\ read'[o].status = gapStatus'
                    /\ mirror' # {} => \E c \in mirror' : mirror' = {c} /\ c.status = gapStatus'
    BY DEF OneBackfill, Running
<1>0. ~ overtaken =>
          /\ \A o, p \in Operators : task[o] = "claims" /\ task[p] = "claims" => o = p
          /\ \A o \in Operators : task[o] = "claims" => mirror = {} /\ read[o].status = gapStatus
          /\ mirror # {} => \E c \in mirror : mirror = {c} /\ c.status = gapStatus
    BY DEF OneBackfill, Running
<1>1. ASSUME NEW o \in Operators, Begin(o)
      PROVE  /\ \A q, p \in Operators : task'[q] = "claims" /\ task'[p] = "claims" => q = p
             /\ \A q \in Operators : task'[q] = "claims" => mirror' = {} /\ read'[q].status = gapStatus'
             /\ mirror' # {} => \E c \in mirror' : mirror' = {c} /\ c.status = gapStatus'
    <2>1. mirror' = mirror /\ gapStatus' = gapStatus
        BY <1>1 DEF Begin
    <2>2. PICK script \in Scripts :
            /\ task'[o] # "none" =>
                 /\ task'[o] = script /\ Snapshot(script).todo
                 /\ read'[o] = Snapshot(script)
            /\ overtaken' = (overtaken \/ (script = "claims" /\ Running("claims") # {}))
        BY <1>1, BeginReads
    <2>3. \A p \in Operators : p # o => task'[p] = task[p] /\ read'[p] = read[p]
        BY <1>1, BeginReads
    <2>4. ~ overtaken
        BY <2>2
    <2>5. CASE task'[o] = "claims"
        <3>1. script = "claims" /\ \A p \in Operators : task[p] # "claims"
            BY <2>2, <2>5 DEF Running
        <3>2. mirror = {} /\ read'[o].status = gapStatus
            BY <2>2, <2>5, <3>1, SnapshotReads
        <3> QED
            BY <2>1, <2>3, <3>1, <3>2
    <2>6. CASE task'[o] # "claims"
        BY <1>0, <2>1, <2>3, <2>4, <2>6
    <2> QED
        BY <2>5, <2>6
<1>2. ASSUME NEW o \in Operators, Put(o), UNCHANGED <<mirror, gapStatus, overtaken>>
      PROVE  /\ \A q, p \in Operators : task'[q] = "claims" /\ task'[p] = "claims" => q = p
             /\ \A q \in Operators : task'[q] = "claims" => mirror' = {} /\ read'[q].status = gapStatus'
             /\ mirror' # {} => \E c \in mirror' : mirror' = {c} /\ c.status = gapStatus'
    BY <1>0, <1>2, PutLeavesTheOthers
<1>3. ASSUME NEW o \in Operators, ClaimGap(o)
      PROVE  /\ \A q, p \in Operators : task'[q] = "claims" /\ task'[p] = "claims" => q = p
             /\ \A q \in Operators : task'[q] = "claims" => mirror' = {} /\ read'[q].status = gapStatus'
             /\ mirror' # {} => \E c \in mirror' : mirror' = {c} /\ c.status = gapStatus'
    <2> DEFINE added == [id |-> Cardinality(mirror), status |-> read[o].status]
    <2>1. Put(o) /\ task[o] = "claims" /\ gapStatus' = gapStatus /\ ~ overtaken
        BY <1>3 DEF ClaimGap
    <2>2. \A p \in Operators : task'[p] # "claims"
        BY <1>0, <2>1, PutLeavesTheOthers
    <2>3. mirror' = {added} /\ added.status = gapStatus
        <3>1. mirror' = mirror \cup {added} /\ mirror = {} /\ read[o].status = gapStatus
            BY <1>0, <1>3, <2>1 DEF ClaimGap
        <3> QED
            BY <3>1
    <2> HIDE DEF added
    <2> QED
        BY <2>1, <2>2, <2>3
<1>4. ASSUME ReviewGap
      PROVE  /\ \A q, p \in Operators : task'[q] = "claims" /\ task'[p] = "claims" => q = p
             /\ \A q \in Operators : task'[q] = "claims" => mirror' = {} /\ read'[q].status = gapStatus'
             /\ mirror' # {} => \E c \in mirror' : mirror' = {c} /\ c.status = gapStatus'
    <2>1. PICK s \in GapStatuses \ {gapStatus} :
              gapStatus' = s /\ mirror' = {[c EXCEPT !.status = s] : c \in mirror}
        BY <1>4 DEF ReviewGap
    <2>2. ~ overtaken /\ (\A o \in Operators : task[o] # "claims") /\ task' = task
        BY <1>4 DEF ReviewGap, Running
    <2>3. ASSUME mirror' # {}
          PROVE  \E c \in mirror' : mirror' = {c} /\ c.status = gapStatus'
        <3>1. PICK c \in mirror : mirror = {c}
            BY <1>0, <2>1, <2>2, <2>3
        <3>2. mirror' = {[c EXCEPT !.status = s]}
            BY <2>1, <3>1
        <3>3. [c EXCEPT !.status = s].status = s
            BY <3>1 DEF RepairsTypes
        <3> QED
            BY <2>1, <3>2, <3>3
    <2> QED
        BY <2>2, <2>3
<1>5. CASE UNCHANGED <<mirror, gapStatus, overtaken, task, read>>
    BY <1>0, <1>5
<1>6. ASSUME NEW o \in Operators,
             Abandon(o) \/ RepairAbstract(o) \/ RepairEvidence(o) \/ Recover(o) \/ Revalidate(o) \/ Categorize(o)
      PROVE  Put(o) /\ UNCHANGED <<mirror, gapStatus, overtaken>>
    BY <1>6 DEF Abandon, RepairAbstract, RepairEvidence, Recover, Revalidate, Categorize, reviewed
<1>7. ASSUME ForceExtraction \/ LoadPaper \/ StoreClaims \/ UNCHANGED repairVariables
      PROVE  UNCHANGED <<mirror, gapStatus, overtaken, task, read>>
    BY <1>7 DEF ForceExtraction, LoadPaper, StoreClaims, reviewed, repairVariables
<1> QED
    BY <1>1, <1>2, <1>3, <1>4, <1>5, <1>6, <1>7 DEF RepairsNext

-----------------------------------------------------------------------------
(* What the scripts do to the rows.                                        *)

\* Cleaning a row changes its form alone, and only if it was read.
LEMMA CleanedRowIs ==
    ASSUME NEW q \in Rows, NEW stale \in SUBSET Rows
    PROVE  /\ CleanedRow(q, stale) \in Rows
           /\ CleanedRow(q, stale).id = q.id /\ CleanedRow(q, stale).of = q.of
           /\ ~ Known(q, stale) => CleanedRow(q, stale) = q
           /\ Known(q, stale) => \E d \in stale : d.id = q.id /\ CleanedRow(q, stale).form = Clean(d.form)
<1>1. CASE ~ Known(q, stale)
    BY <1>1 DEF CleanedRow
<1>2. CASE Known(q, stale)
    <2> DEFINE d == CHOOSE e \in stale : e.id = q.id
    <2>1. d \in stale /\ d.id = q.id
        BY <1>2 DEF Known
    <2>2. CleanedRow(q, stale) = [q EXCEPT !.form = Clean(d.form)]
        BY <1>2 DEF CleanedRow
    <2> HIDE DEF d
    <2>3. Clean(d.form) \in Forms
        BY <2>1, CleaningStops DEF Rows
    <2>4. /\ [q EXCEPT !.form = Clean(d.form)] \in Rows
          /\ [q EXCEPT !.form = Clean(d.form)].id = q.id
          /\ [q EXCEPT !.form = Clean(d.form)].of = q.of
          /\ [q EXCEPT !.form = Clean(d.form)].form = Clean(d.form)
        BY <2>3 DEF Rows
    <2> QED
        BY <1>2, <2>1, <2>2, <2>4
<1> QED
    BY <1>1, <1>2

\* A row that is added is a row.
LEMMA NewRow ==
    ASSUME NEW n \in Nat, NEW sentence \in Sentences, NEW form \in Forms
    PROVE  /\ Row(n, sentence, form) \in Rows
           /\ Row(n, sentence, form).of = sentence /\ Row(n, sentence, form).form = form
BY DEF Row, Rows

\* The effect on the rows of each action that changes some.
Effects ==
    \/ UNCHANGED <<evidence, claims, rows>>
    \/ \E old \in SUBSET Rows, oldClaims \in SUBSET Rows :
         /\ evidence' = Cleaned(evidence, old)
         /\ claims' = Cleaned(claims, oldClaims)
         /\ rows' = rows
    \/ \E sentence \in Sentences, form \in Forms : Store(sentence, form)
    \/ evidence' \subseteq evidence /\ claims' \subseteq claims /\ rows' = rows

\* What each step does to the rows of evidence and of claims.
LEMMA EffectsOnRows ==
    ASSUME RepairsTypes, [RepairsNext]_repairVariables
    PROVE  Effects
<1>1. ASSUME NEW o \in Operators, Begin(o) \/ Abandon(o) \/ RepairAbstract(o) \/ ClaimGap(o) \/ Categorize(o)
      PROVE  UNCHANGED <<evidence, claims, rows>>
    BY <1>1 DEF Begin, Abandon, RepairAbstract, ClaimGap, Categorize, texts
<1>2. ASSUME NEW o \in Operators, RepairEvidence(o)
      PROVE  Effects
    <2>1. read[o].evidence \in SUBSET Rows /\ read[o].claims \in SUBSET Rows
        BY DEF RepairsTypes, Snapshots
    <2>2. /\ evidence' = Cleaned(evidence, read[o].evidence)
          /\ claims' = Cleaned(claims, read[o].claims)
          /\ rows' = rows
        BY <1>2 DEF RepairEvidence
    <2> QED
        BY <2>1, <2>2 DEF Effects
<1>3. ASSUME NEW o \in Operators, Recover(o)
      PROVE  Effects
    <2>1. read[o].form \in Forms
        BY DEF RepairsTypes, Snapshots
    <2> QED
        BY <1>3, <2>1 DEF Recover, Effects
<1>4. ASSUME NEW o \in Operators, Revalidate(o)
      PROVE  Effects
    BY <1>4 DEF Revalidate, Effects
<1>5. CASE ForceExtraction
    BY <1>5 DEF ForceExtraction, Effects
<1>6. CASE LoadPaper
    BY <1>6 DEF LoadPaper, Effects
<1>7. CASE StoreClaims
    <2>1. extracting \subseteq Forms /\ section \in Forms
        BY DEF RepairsTypes
    <2> QED
        BY <1>7, <2>1 DEF StoreClaims, Effects
<1>8. CASE ReviewGap
    BY <1>8 DEF ReviewGap, Effects, texts
<1>9. CASE UNCHANGED repairVariables
    BY <1>9 DEF repairVariables, Effects, texts
<1> QED
    BY <1>1, <1>2, <1>3, <1>4, <1>5, <1>6, <1>7, <1>8, <1>9 DEF RepairsNext, Effects

\* Rows stay rows.
LEMMA RowsStayTyped ==
    ASSUME RepairsTypes, Effects
    PROVE  evidence' \subseteq Rows /\ claims' \subseteq Rows /\ rows' \in Nat
<1>0. evidence \subseteq Rows /\ claims \subseteq Rows /\ rows \in Nat
    BY DEF RepairsTypes
<1>1. CASE UNCHANGED <<evidence, claims, rows>>
    BY <1>0, <1>1
<1>2. CASE \E old \in SUBSET Rows, oldClaims \in SUBSET Rows :
              /\ evidence' = Cleaned(evidence, old)
              /\ claims' = Cleaned(claims, oldClaims)
              /\ rows' = rows
    <2>1. PICK old \in SUBSET Rows, oldClaims \in SUBSET Rows :
              /\ evidence' = Cleaned(evidence, old)
              /\ claims' = Cleaned(claims, oldClaims)
              /\ rows' = rows
        BY <1>2
    <2>2. (\A q \in evidence : CleanedRow(q, old) \in Rows) /\ \A q \in claims : CleanedRow(q, oldClaims) \in Rows
        BY <1>0, CleanedRowIs
    <2> QED
        BY <1>0, <2>1, <2>2 DEF Cleaned
<1>3. CASE \E sentence \in Sentences, form \in Forms : Store(sentence, form)
    <2>1. PICK sentence \in Sentences, form \in Forms : Store(sentence, form)
        BY <1>3
    <2>2. rows + 1 \in Nat
        BY <1>0
    <2>3. Row(rows + 1, sentence, form) \in Rows
        BY <2>2, NewRow
    <2> QED
        BY <1>0, <2>1, <2>2, <2>3 DEF Store
<1>4. CASE evidence' \subseteq evidence /\ claims' \subseteq claims /\ rows' = rows
    BY <1>0, <1>4
<1> QED
    BY <1>1, <1>2, <1>3, <1>4 DEF Effects

\* Every variable of the repairs keeps its type.
LEMMA TypesStep ==
    ASSUME RepairsTypes, [RepairsNext]_repairVariables
    PROVE  RepairsTypes'
<1>1. evidence' \subseteq Rows /\ claims' \subseteq Rows /\ rows' \in Nat
    BY EffectsOnRows, RowsStayTyped
<1> DEFINE rest == abstract \in Forms /\ section \in Forms /\ rejected \subseteq Forms /\ extracting \subseteq Forms
           gap == /\ gapStatus \in GapStatuses
                  /\ mirror \subseteq [id : Nat, status : GapStatuses] /\ IsFiniteSet(mirror)
           works == task \in [Operators -> Scripts \cup {"none"}] /\ read \in [Operators -> Snapshots]
<1>2. rest /\ gap /\ works
    BY DEF RepairsTypes
<1>3. UNCHANGED <<gapStatus, mirror>> => gap'
    BY <1>2
<1>4. ASSUME NEW o \in Operators, Begin(o)
      PROVE  rest' /\ gap' /\ works'
    <2>1. rest' /\ UNCHANGED <<gapStatus, mirror>>
        BY <1>2, <1>4 DEF Begin
    <2>2. works'
        BY <1>4, BeginReads
    <2> QED
        BY <1>3, <2>1, <2>2
<1>5. ASSUME NEW o \in Operators,
             Abandon(o) \/ RepairAbstract(o) \/ RepairEvidence(o) \/ Recover(o) \/ Revalidate(o) \/ Categorize(o)
      PROVE  rest' /\ gap' /\ works'
    <2>1. UNCHANGED <<gapStatus, mirror>> /\ Put(o)
        BY <1>5 DEF Abandon, RepairAbstract, RepairEvidence, Recover, Revalidate, Categorize, texts, reviewed
    <2>2. works'
        BY <2>1, PutLeavesTheOthers
    <2>3. Clean(read[o].form) \in Forms
        BY <1>2, CleaningStops DEF Snapshots
    <2>4. RepairAbstract(o) => rest'
        BY <1>2, <2>3 DEF RepairAbstract
    <2>5. ~ RepairAbstract(o) => rest'
        BY <1>2, <1>5 DEF Abandon, RepairEvidence, Recover, Revalidate, Categorize, texts
    <2> QED
        BY <1>3, <2>1, <2>2, <2>4, <2>5
<1>6. ASSUME NEW o \in Operators, ClaimGap(o)
      PROVE  rest' /\ gap' /\ works'
    <2> DEFINE added == [id |-> Cardinality(mirror), status |-> read[o].status]
    <2>1. rest' /\ Put(o) /\ gapStatus' = gapStatus /\ mirror' = mirror \cup {added}
        BY <1>2, <1>6 DEF ClaimGap, texts
    <2>2. works'
        BY <2>1, PutLeavesTheOthers
    <2>3. Cardinality(mirror) \in Nat
        BY <1>2, FS_CardinalityType
    <2>4. added \in [id : Nat, status : GapStatuses]
        <3>1. read[o].status \in GapStatuses
            BY <1>2 DEF Snapshots
        <3> QED
            BY <2>3, <3>1
    <2> HIDE DEF added
    <2>5. IsFiniteSet(mirror')
        BY <1>2, <2>1, FS_AddElement
    <2> QED
        BY <1>2, <2>1, <2>2, <2>4, <2>5
<1>7. ASSUME ForceExtraction \/ LoadPaper \/ StoreClaims \/ UNCHANGED repairVariables
      PROVE  rest' /\ gap' /\ works'
    <2>1. rest' /\ UNCHANGED <<gapStatus, mirror>> /\ works'
        BY <1>2, <1>7 DEF ForceExtraction, LoadPaper, StoreClaims, repairVariables, texts, reviewed
    <2> QED
        BY <1>3, <2>1
<1>8. ASSUME ReviewGap
      PROVE  rest' /\ gap' /\ works'
    <2>1. rest' /\ works'
        BY <1>2, <1>8 DEF ReviewGap, texts
    <2>2. PICK s \in GapStatuses \ {gapStatus} :
              gapStatus' = s /\ mirror' = {[c EXCEPT !.status = s] : c \in mirror}
        BY <1>8 DEF ReviewGap
    <2>3. mirror' \subseteq [id : Nat, status : GapStatuses]
        BY <1>2, <2>2
    <2>4. IsFiniteSet(mirror')
        <3> DEFINE f == [c \in mirror |-> [c EXCEPT !.status = s]]
        <3>1. f \in Surjection(mirror, mirror')
            BY <2>2 DEF Surjection
        <3> HIDE DEF f
        <3> QED
            BY <1>2, <3>1, FS_Surjection
    <2> QED
        BY <2>1, <2>2, <2>3, <2>4
<1>9. rest' /\ gap' /\ works'
    <2> HIDE DEF rest, gap, works
    <2> QED
        BY <1>4, <1>5, <1>6, <1>7, <1>8 DEF RepairsNext
<1> QED
    BY <1>1, <1>9 DEF RepairsTypes

-----------------------------------------------------------------------------
(* What was read of the abstract.                                          *)

\* The effect of each step on the abstract and on who has read it.
LEMMA AbstractStep ==
    ASSUME RepairsTypes, [RepairsNext]_repairVariables
    PROVE  /\ abstract' = abstract \/ \E o \in Operators : RepairAbstract(o)
           /\ \/ extracting' = extracting
              \/ extracting' = {}
              \/ extracting' = {abstract} /\ abstract' = abstract
           /\ crossed => crossed'
           /\ disorder => disorder'
           /\ crowded => crowded'
           /\ tended => tended'
           /\ rejected' \subseteq rejected
<1>1. ASSUME NEW o \in Operators, Begin(o)
      PROVE  /\ UNCHANGED <<abstract, extracting, crossed, disorder, rejected>>
             /\ crowded => crowded'
             /\ tended => tended'
    BY <1>1 DEF Begin
<1>2. ASSUME NEW o \in Operators, Abandon(o) \/ Recover(o) \/ Revalidate(o) \/ ClaimGap(o) \/ Categorize(o)
      PROVE  UNCHANGED <<abstract, extracting, crossed, disorder, crowded, tended, rejected>>
    BY <1>2 DEF Abandon, Recover, Revalidate, ClaimGap, Categorize, texts
<1>3. ASSUME NEW o \in Operators, RepairAbstract(o)
      PROVE  /\ UNCHANGED <<extracting, disorder, crowded, tended, rejected>>
             /\ crossed => crossed'
    BY <1>3 DEF RepairAbstract
<1>4. ASSUME NEW o \in Operators, RepairEvidence(o)
      PROVE  /\ UNCHANGED <<abstract, extracting, crowded, rejected>>
             /\ crossed => crossed'
             /\ disorder => disorder'
             /\ tended => tended'
    BY <1>4 DEF RepairEvidence
<1>5. ASSUME ReviewGap \/ UNCHANGED repairVariables
      PROVE  UNCHANGED <<abstract, extracting, crossed, disorder, crowded, tended, rejected>>
    BY <1>5 DEF ReviewGap, repairVariables, texts
<1>6. ASSUME LoadPaper
      PROVE  /\ UNCHANGED <<abstract, crossed, disorder, tended, rejected>> /\ extracting' = {abstract}
             /\ crowded => crowded'
    BY <1>6 DEF LoadPaper
<1>7. ASSUME StoreClaims
      PROVE  UNCHANGED <<abstract, crossed, disorder, crowded, tended, rejected>> /\ extracting' = {}
    BY <1>7 DEF StoreClaims
<1>13. ASSUME ForceExtraction
       PROVE  UNCHANGED <<abstract, extracting, crossed, disorder, crowded, tended>> /\ rejected' = {}
    BY <1>13 DEF ForceExtraction
<1>8. \/ \E o \in Operators :
           \/ Begin(o) \/ RepairAbstract(o) \/ RepairEvidence(o)
           \/ Abandon(o) \/ Recover(o) \/ Revalidate(o) \/ ClaimGap(o) \/ Categorize(o)
      \/ ForceExtraction \/ ReviewGap \/ UNCHANGED repairVariables \/ LoadPaper \/ StoreClaims
    BY DEF RepairsNext
<1>9. abstract' = abstract \/ \E o \in Operators : RepairAbstract(o)
    BY <1>1, <1>2, <1>4, <1>5, <1>6, <1>7, <1>8, <1>13
<1>10. \/ extracting' = extracting
       \/ extracting' = {}
       \/ extracting' = {abstract} /\ abstract' = abstract
    BY <1>1, <1>2, <1>3, <1>4, <1>5, <1>6, <1>7, <1>8, <1>13
<1>11. (crossed => crossed') /\ (disorder => disorder')
    BY <1>1, <1>2, <1>3, <1>4, <1>5, <1>6, <1>7, <1>8, <1>13
<1>12. (crowded => crowded') /\ (tended => tended')
    BY <1>1, <1>2, <1>3, <1>4, <1>5, <1>6, <1>7, <1>8, <1>13
<1>14. rejected' \subseteq rejected
    BY <1>1, <1>2, <1>3, <1>4, <1>5, <1>6, <1>7, <1>8, <1>13
<1> QED
    BY <1>9, <1>10, <1>11, <1>12, <1>14

\* What an operator works on, after a step, it worked on before, or has just begun.
LEMMA WorkStep ==
    ASSUME RepairsTypes, [RepairsNext]_repairVariables, NEW o \in Operators, task'[o] # "none"
    PROVE  \/ task'[o] = task[o] /\ read'[o] = read[o]
           \/ Begin(o) /\ task'[o] \in Scripts /\ read'[o] = Snapshot(task'[o]) /\ Snapshot(task'[o]).todo
<1>1. ASSUME NEW p \in Operators, Begin(p)
      PROVE  \/ task'[o] = task[o] /\ read'[o] = read[o]
             \/ Begin(o) /\ task'[o] \in Scripts /\ read'[o] = Snapshot(task'[o]) /\ Snapshot(task'[o]).todo
    <2>1. CASE p = o
        BY <1>1, <2>1, BeginReads
    <2>2. CASE p # o
        BY <1>1, <2>2, BeginReads
    <2> QED
        BY <2>1, <2>2
<1>2. ASSUME NEW p \in Operators, Put(p)
      PROVE  task'[o] = task[o] /\ read'[o] = read[o]
    BY <1>2, PutLeavesTheOthers
<1>3. ASSUME NEW p \in Operators,
             \/ Abandon(p) \/ RepairAbstract(p) \/ RepairEvidence(p) \/ Recover(p) \/ Revalidate(p)
             \/ ClaimGap(p) \/ Categorize(p)
      PROVE  Put(p)
    BY <1>3 DEF Abandon, RepairAbstract, RepairEvidence, Recover, Revalidate, ClaimGap, Categorize
<1>4. ASSUME ForceExtraction \/ LoadPaper \/ StoreClaims \/ ReviewGap \/ UNCHANGED repairVariables
      PROVE  task' = task /\ read' = read
    BY <1>4 DEF ForceExtraction, LoadPaper, StoreClaims, ReviewGap, repairVariables
<1> QED
    BY <1>1, <1>2, <1>3, <1>4 DEF RepairsNext

\* A repair of the abstract leaves nothing that reads as what was rejected.
LEMMA RepairLeavesNone ==
    ASSUME RepairsTypes, NotYetRepaired, NEW o \in Operators, RepairAbstract(o)
    PROVE  \A form \in rejected : abstract' < form
BY DEF NotYetRepaired, RepairAbstract, Running

\* While the abstract reads as what was rejected, nobody has read it otherwise.
LEMMA NotYetRepairedStep ==
    ASSUME RepairsTypes, RepairsTypes', NotYetRepaired, [RepairsNext]_repairVariables
    PROVE  NotYetRepaired'
<1> SUFFICES ASSUME NEW form \in rejected'
             PROVE  /\ abstract' <= form
                    /\ \A o \in Operators : task'[o] = "abstract" => Clean(read'[o].form) < form
                    /\ abstract' = form =>
                         /\ extracting' \subseteq {form}
                         /\ \A o \in Operators : task'[o] = "recover" => read'[o].form = form
    BY DEF NotYetRepaired, Running
<1>1. form \in rejected
    BY AbstractStep
<1>2. /\ abstract <= form
      /\ \A o \in Operators : task[o] = "abstract" => Clean(read[o].form) < form
      /\ abstract = form =>
           /\ extracting \subseteq {form}
           /\ \A o \in Operators : task[o] = "recover" => read[o].form = form
    BY <1>1 DEF NotYetRepaired, Running
<1>3. form \in Nat /\ abstract \in Nat /\ abstract' \in Nat /\ abstract \in Forms
    BY CleaningStops DEF RepairsTypes
<1>4. ASSUME NEW o \in Operators, RepairAbstract(o)
      PROVE  abstract' < form
    BY <1>1, <1>4, RepairLeavesNone
<1>5. abstract' <= form /\ (abstract' = form => abstract = form)
    BY <1>2, <1>3, <1>4, AbstractStep
<1>6. ASSUME NEW o \in Operators, task'[o] = "abstract"
      PROVE  Clean(read'[o].form) < form
    <2>1. CASE task[o] = "abstract" /\ read'[o] = read[o]
        BY <1>2, <2>1
    <2>2. CASE read'[o] = Snapshot("abstract") /\ Snapshot("abstract").todo
        <3>1. read'[o].form = abstract /\ abstract # 0
            BY <2>2, SnapshotReads
        <3>2. Clean(abstract) < abstract /\ Clean(abstract) \in Nat
            BY <1>3, <3>1, CleaningStops
        <3> QED
            BY <1>2, <1>3, <3>1, <3>2
    <2> QED
        BY <1>6, <2>1, <2>2, WorkStep
<1>7. ASSUME abstract' = form
      PROVE  extracting' \subseteq {form}
    BY <1>2, <1>5, <1>7, AbstractStep
<1>8. ASSUME abstract' = form, NEW o \in Operators, task'[o] = "recover"
      PROVE  read'[o].form = form
    <2>1. CASE task[o] = "recover" /\ read'[o] = read[o]
        BY <1>2, <1>5, <1>8, <2>1
    <2>2. CASE read'[o] = Snapshot("recover")
        BY <1>5, <1>8, <2>2, SnapshotReads
    <2> QED
        BY <1>8, <2>1, <2>2, WorkStep
<1> QED
    BY <1>5, <1>6, <1>7, <1>8

-----------------------------------------------------------------------------
(* The quotes and their paper.                                             *)

\* A sentence that is stored is there in the form its writer has read.
LEMMA StoredRow ==
    ASSUME RepairsTypes, NEW sentence \in Sentences, NEW form \in Forms, Store(sentence, form)
    PROVE  \E new : /\ evidence' = evidence \cup {new} /\ claims' = claims \cup {new}
                    /\ new.of = sentence /\ new.form = form
<1>1. rows + 1 \in Nat
    BY DEF RepairsTypes
<1> QED
    BY <1>1, NewRow DEF Store

\* Whose form a repair leaves to be cleaned had one to be cleaned, or more, unless
\* the repair puts an older text back.
LEMMA CleanedRowsWere ==
    ASSUME NEW set \in SUBSET Rows, NEW stale \in SUBSET Rows, ~ PutsBack(set, stale),
           NEW r \in Cleaned(set, stale), r.form # 0
    PROVE  \E q \in set : q.id = r.id /\ q.of = r.of /\ q.form # 0
<1>1. PICK q \in set : r = CleanedRow(q, stale)
    BY DEF Cleaned
<1>2. q \in Rows /\ r.id = q.id /\ r.of = q.of
    BY <1>1, CleanedRowIs
<1>3. CASE ~ Known(q, stale)
    BY <1>1, <1>2, <1>3, CleanedRowIs
<1>4. CASE Known(q, stale)
    <2>1. PICK d \in stale : d.id = q.id /\ r.form = Clean(d.form)
        BY <1>1, <1>2, <1>4, CleanedRowIs
    <2>2. d.form \in Forms /\ q.form \in Forms
        BY <1>2 DEF Rows
    <2>3. ~ (q.form < Clean(d.form))
        BY <2>1 DEF PutsBack
    <2>4. Clean(d.form) \in Nat /\ q.form \in Nat
        BY <2>2, CleaningStops
    <2>5. q.form # 0
        BY <2>1, <2>3, <2>4
    <2> QED
        BY <1>2, <2>5
<1> QED
    BY <1>3, <1>4

\* Rows of the abstract that are to be cleaned were so before, or have the form of
\* the abstract, unless scripts crossed.
Before(r, set) == \E q \in set : q.id = r.id /\ q.of = r.of /\ q.form # 0

\* No step makes another row of the abstract that cleaning would change.
LEMMA NewRowsReadAsTheAbstract ==
    ASSUME RepairsTypes, WritersAreCurrent, ~ crossed, ~ crossed', [RepairsNext]_repairVariables
    PROVE  /\ \A r \in evidence' : r.of # "passage" /\ r.form # 0 => Before(r, evidence) \/ r.form = abstract
           /\ \A r \in claims' : r.of # "passage" /\ r.form # 0 => Before(r, claims) \/ r.form = abstract
<1>1. ASSUME NEW o \in Operators,
             Begin(o) \/ Abandon(o) \/ RepairAbstract(o) \/ Revalidate(o) \/ ClaimGap(o) \/ Categorize(o)
      PROVE  evidence' \subseteq evidence /\ claims' \subseteq claims
    BY <1>1 DEF Begin, Abandon, RepairAbstract, Revalidate, ClaimGap, Categorize, texts
<1>2. ASSUME ForceExtraction \/ LoadPaper \/ ReviewGap \/ UNCHANGED repairVariables
      PROVE  evidence' \subseteq evidence /\ claims' \subseteq claims
    BY <1>2 DEF ForceExtraction, LoadPaper, ReviewGap, repairVariables, texts
<1>3. ASSUME evidence' \subseteq evidence, claims' \subseteq claims
      PROVE  /\ \A r \in evidence' : r.form # 0 => Before(r, evidence)
             /\ \A r \in claims' : r.form # 0 => Before(r, claims)
    BY <1>3 DEF Before
<1>4. ASSUME NEW o \in Operators, RepairEvidence(o)
      PROVE  /\ \A r \in evidence' : r.form # 0 => Before(r, evidence)
             /\ \A r \in claims' : r.form # 0 => Before(r, claims)
    <2>1. read[o].evidence \in SUBSET Rows /\ read[o].claims \in SUBSET Rows
          /\ evidence \in SUBSET Rows /\ claims \in SUBSET Rows
        BY DEF RepairsTypes, Snapshots
    <2>2. /\ evidence' = Cleaned(evidence, read[o].evidence)
          /\ claims' = Cleaned(claims, read[o].claims)
          /\ ~ PutsBack(evidence, read[o].evidence) /\ ~ PutsBack(claims, read[o].claims)
        BY <1>4 DEF RepairEvidence
    <2> QED
        BY <2>1, <2>2, CleanedRowsWere DEF Before
<1>5. ASSUME NEW sentence \in Sentences, NEW form \in Forms, Store(sentence, form),
             sentence = "passage" \/ form = abstract
      PROVE  /\ \A r \in evidence' : r.of # "passage" /\ r.form # 0 => Before(r, evidence) \/ r.form = abstract
             /\ \A r \in claims' : r.of # "passage" /\ r.form # 0 => Before(r, claims) \/ r.form = abstract
    <2>1. PICK new : /\ evidence' = evidence \cup {new} /\ claims' = claims \cup {new}
                     /\ new.of = sentence /\ new.form = form
        BY <1>5, StoredRow
    <2>2. (\A r \in evidence : r.form # 0 => Before(r, evidence)) /\ \A r \in claims : r.form # 0 => Before(r, claims)
        BY DEF Before
    <2> QED
        BY <1>5, <2>1, <2>2
<1>6. ASSUME NEW o \in Operators, Recover(o)
      PROVE  read[o].form = abstract /\ read[o].form \in Forms /\ Store("application", read[o].form)
    BY <1>6 DEF Recover, WritersAreCurrent, RepairsTypes, Snapshots, Running
<1>7. ASSUME StoreClaims
      PROVE  \E sentence \in Sentences, form \in Forms :
                Store(sentence, form) /\ (sentence = "passage" \/ form = abstract)
    BY <1>7 DEF StoreClaims, WritersAreCurrent, RepairsTypes
<1> QED
    BY <1>1, <1>2, <1>3, <1>4, <1>5, <1>6, <1>7 DEF RepairsNext

\* Who is about to write has read what is there, unless scripts crossed.
LEMMA WritersStep ==
    ASSUME RepairsTypes, RepairsTypes', WritersAreCurrent, [RepairsNext]_repairVariables
    PROVE  WritersAreCurrent'
<1> SUFFICES ASSUME ~ crossed'
             PROVE  WritersAreCurrent'
    BY DEF WritersAreCurrent
<1>0. ~ crossed
    BY AbstractStep
<1>9. /\ extracting \subseteq {abstract}
      /\ \A o \in Operators : task[o] = "recover" => read[o].form = abstract
      /\ tended => abstract = 0
      /\ \A o \in Operators : task[o] = "evidence" /\ read[o].form = 0 =>
           /\ abstract = 0
           /\ \A r \in evidence : r.of # "passage" /\ r.form # 0 => Known(r, read[o].evidence)
           /\ \A r \in claims : r.of # "passage" /\ r.form # 0 => Known(r, read[o].claims)
    BY <1>0 DEF WritersAreCurrent, Running
<1>10. abstract \in Nat /\ abstract' \in Nat
    BY CleaningStops DEF RepairsTypes
<1>1. ASSUME NEW o \in Operators, RepairAbstract(o)
      PROVE  /\ extracting = {} /\ extracting' = {} /\ \A p \in Operators : task[p] # "recover"
             /\ ~ (abstract < abstract')
    BY <1>1 DEF RepairAbstract, Running
<1>11. abstract = 0 => abstract' = 0
    BY <1>1, <1>10, AbstractStep
<1>2. extracting' \subseteq {abstract'}
    <2>1. CASE abstract' = abstract
        BY <1>9, <2>1, AbstractStep
    <2>2. CASE \E o \in Operators : RepairAbstract(o)
        BY <1>1, <2>2
    <2> QED
        BY <2>1, <2>2, AbstractStep
<1>3. ASSUME NEW o \in Operators, task'[o] = "recover"
      PROVE  read'[o].form = abstract'
    <2>1. CASE Begin(o) /\ read'[o] = Snapshot("recover")
        BY <2>1, SnapshotReads DEF Begin
    <2>2. CASE task[o] = "recover" /\ read'[o] = read[o]
        <3>1. ~ \E p \in Operators : RepairAbstract(p)
            BY <1>1, <2>2
        <3> QED
            BY <1>9, <2>2, <3>1, AbstractStep
    <2> QED
        BY <1>3, <2>1, <2>2, WorkStep
<1>4. ASSUME NEW o \in Operators, task'[o] = "evidence", read'[o].form = 0
      PROVE  /\ abstract' = 0
             /\ \A r \in evidence' : r.of # "passage" /\ r.form # 0 => Known(r, read'[o].evidence)
             /\ \A r \in claims' : r.of # "passage" /\ r.form # 0 => Known(r, read'[o].claims)
    <2>1. CASE Begin(o) /\ read'[o] = Snapshot("evidence")
        <3>1. evidence' = evidence /\ claims' = claims
            BY <2>1 DEF Begin
        <3>2. /\ read'[o].evidence = {r \in evidence : r.form # 0}
              /\ read'[o].claims = {r \in claims : r.form # 0}
              /\ abstract = 0
            BY <1>4, <2>1, SnapshotReads
        <3> QED
            BY <1>11, <3>1, <3>2 DEF Known
    <2>2. CASE task[o] = "evidence" /\ read'[o] = read[o]
        <3>1. /\ abstract = 0
              /\ \A r \in evidence : r.of # "passage" /\ r.form # 0 => Known(r, read[o].evidence)
              /\ \A r \in claims : r.of # "passage" /\ r.form # 0 => Known(r, read[o].claims)
            BY <1>4, <1>9, <2>2
        <3>2. /\ \A r \in evidence' : r.of # "passage" /\ r.form # 0 => Before(r, evidence)
              /\ \A r \in claims' : r.of # "passage" /\ r.form # 0 => Before(r, claims)
            BY <1>0, <3>1, NewRowsReadAsTheAbstract
        <3>3. /\ \A r \in evidence' : r.of # "passage" /\ r.form # 0 => Known(r, read[o].evidence)
              /\ \A r \in claims' : r.of # "passage" /\ r.form # 0 => Known(r, read[o].claims)
            BY <3>1, <3>2 DEF Before, Known
        <3> QED
            BY <1>11, <2>2, <3>1, <3>3
    <2> QED
        BY <1>4, <2>1, <2>2, WorkStep
<1>5. ASSUME tended'
      PROVE  abstract' = 0
    <2>1. ASSUME NEW o \in Operators, Begin(o), ~ tended
          PROVE  abstract = 0
        BY <1>5, <2>1 DEF Begin
    <2>2. ASSUME NEW o \in Operators, RepairEvidence(o), ~ tended
          PROVE  abstract = 0
        BY <1>5, <1>9, <2>2 DEF RepairEvidence
    <2>3. ASSUME NEW o \in Operators,
                 \/ Abandon(o) \/ RepairAbstract(o) \/ Recover(o) \/ Revalidate(o)
                 \/ ClaimGap(o) \/ Categorize(o)
          PROVE  tended' = tended
        BY <2>3 DEF Abandon, RepairAbstract, Recover, Revalidate, ClaimGap, Categorize, texts
    <2>4. ASSUME ForceExtraction \/ LoadPaper \/ StoreClaims \/ ReviewGap \/ UNCHANGED repairVariables
          PROVE  tended' = tended
        BY <2>4 DEF ForceExtraction, LoadPaper, StoreClaims, ReviewGap, repairVariables, texts
    <2>5. abstract = 0
        BY <1>5, <1>9, <2>1, <2>2, <2>3, <2>4 DEF RepairsNext
    <2> QED
        BY <1>11, <2>5
<1> QED
    BY <1>2, <1>3, <1>4, <1>5 DEF WritersAreCurrent, Running

\* A repair for which once is enough leaves a row that it knows with nothing to clean.
LEMMA OnceIsEnough ==
    ASSUME NEW set \in SUBSET Rows, NEW stale \in SUBSET Rows, Suffices(stale),
           \A q \in set : q.of # "passage" /\ q.form # 0 => Known(q, stale),
           NEW r \in Cleaned(set, stale), r.of # "passage"
    PROVE  r.form = 0
<1>1. PICK q \in set : r = CleanedRow(q, stale)
    BY DEF Cleaned
<1>2. q \in Rows /\ r.of = q.of
    BY <1>1, CleanedRowIs
<1>3. CASE ~ Known(q, stale)
    BY <1>1, <1>2, <1>3, CleanedRowIs
<1>4. CASE Known(q, stale)
    <2>1. PICK d \in stale : r.form = Clean(d.form)
        BY <1>1, <1>2, <1>4, CleanedRowIs
    <2>2. d.form \in Forms /\ Clean(Clean(d.form)) = Clean(d.form)
        BY DEF Rows, Suffices
    <2>3. Clean(d.form) \in Forms
        BY <2>2, CleaningStops
    <2> QED
        BY <2>1, <2>2, <2>3, CleaningStops
<1> QED
    BY <1>3, <1>4

\* So what is written reads as the abstract does.
LEMMA QuotesStep ==
    ASSUME RepairsTypes, RepairsTypes', WritersAreCurrent, WritersAreCurrent',
           QuotesMatchTheirPaper, [RepairsNext]_repairVariables
    PROVE  QuotesMatchTheirPaper'
<1> SUFFICES ASSUME tended', ~ crossed', NEW r \in evidence' \cup claims', r.of # "passage"
             PROVE  r.form = abstract'
    BY DEF QuotesMatchTheirPaper
<1>1. ~ crossed /\ abstract' = 0
    BY AbstractStep DEF WritersAreCurrent
<1>2. SUFFICES ASSUME r.form # 0
               PROVE  FALSE
    BY <1>1
<1>4. CASE tended
    <2>1. abstract = 0 /\ \A s \in evidence \cup claims : s.of # "passage" => s.form = 0
        BY <1>1, <1>4 DEF WritersAreCurrent, QuotesMatchTheirPaper
    <2>2. Before(r, evidence) \/ Before(r, claims)
        BY <1>1, <1>2, <2>1, NewRowsReadAsTheAbstract
    <2> QED
        BY <2>1, <2>2 DEF Before
<1>5. CASE ~ tended
    <2>1. ASSUME NEW o \in Operators, Begin(o)
          PROVE  FALSE
        <3>1. evidence' = evidence /\ claims' = claims
            BY <2>1 DEF Begin
        <3>2. ~ Snapshot("evidence").todo
            BY <1>5, <2>1, BeginReads
        <3> QED
            BY <1>2, <3>1, <3>2, SnapshotReads
    <2>2. ASSUME NEW o \in Operators, RepairEvidence(o)
          PROVE  FALSE
        <3>1. /\ task[o] = "evidence" /\ read[o].form = 0
              /\ Suffices(read[o].evidence \cup read[o].claims)
              /\ evidence' = Cleaned(evidence, read[o].evidence)
              /\ claims' = Cleaned(claims, read[o].claims)
            BY <1>5, <2>2 DEF RepairEvidence
        <3>2. /\ \A s \in evidence : s.of # "passage" /\ s.form # 0 => Known(s, read[o].evidence)
              /\ \A s \in claims : s.of # "passage" /\ s.form # 0 => Known(s, read[o].claims)
            BY <1>1, <3>1 DEF WritersAreCurrent, Running
        <3>3. Suffices(read[o].evidence) /\ Suffices(read[o].claims)
            BY <3>1 DEF Suffices
        <3>4. /\ read[o].evidence \in SUBSET Rows /\ read[o].claims \in SUBSET Rows
              /\ evidence \in SUBSET Rows /\ claims \in SUBSET Rows
            BY DEF RepairsTypes, Snapshots
        <3>5. r \in evidence' => r.form = 0
            BY <3>1, <3>2, <3>3, <3>4, OnceIsEnough
        <3>6. r \in claims' => r.form = 0
            BY <3>1, <3>2, <3>3, <3>4, OnceIsEnough
        <3> QED
            BY <1>2, <3>5, <3>6
    <2>3. ASSUME NEW o \in Operators,
                 \/ Abandon(o) \/ RepairAbstract(o) \/ Recover(o) \/ Revalidate(o)
                 \/ ClaimGap(o) \/ Categorize(o)
          PROVE  tended' = tended
        BY <2>3 DEF Abandon, RepairAbstract, Recover, Revalidate, ClaimGap, Categorize, texts
    <2>4. ASSUME ForceExtraction \/ LoadPaper \/ StoreClaims \/ ReviewGap \/ UNCHANGED repairVariables
          PROVE  tended' = tended
        BY <2>4 DEF ForceExtraction, LoadPaper, StoreClaims, ReviewGap, repairVariables, texts
    <2> QED
        BY <1>5, <2>1, <2>2, <2>3, <2>4 DEF RepairsNext
<1> QED
    BY <1>4, <1>5

-----------------------------------------------------------------------------
(* The recovery of rejected applications.                                  *)

\* What a step does to the claims: only a repair changes a form, and only a store
\* adds a sentence.
LEMMA ClaimsStep ==
    ASSUME RepairsTypes, [RepairsNext]_repairVariables
    PROVE  \/ claims' \subseteq claims
           \/ \E o \in Operators : RepairEvidence(o)
           \/ \E o \in Operators : Recover(o)
           \/ StoreClaims
<1>2. ASSUME NEW o \in Operators,
             \/ Begin(o) \/ Abandon(o) \/ RepairAbstract(o) \/ Revalidate(o)
             \/ ClaimGap(o) \/ Categorize(o)
      PROVE  claims' \subseteq claims
    BY <1>2 DEF Begin, Abandon, RepairAbstract, Revalidate, ClaimGap, Categorize, texts
<1>3. ASSUME ForceExtraction \/ LoadPaper \/ ReviewGap \/ UNCHANGED repairVariables
      PROVE  claims' \subseteq claims
    BY <1>3 DEF ForceExtraction, LoadPaper, ReviewGap, repairVariables, texts
<1> QED
    BY <1>2, <1>3 DEF RepairsNext

\* A repair of the evidence makes one claim of each.
LEMMA RepairedClaims ==
    ASSUME RepairsTypes, NEW o \in Operators, RepairEvidence(o)
    PROVE  /\ claims = {} => claims' = {}
           /\ \A c \in claims' : \E q \in claims : c.of = q.of /\ c = CleanedRow(q, read[o].claims)
<1>1. claims' = {CleanedRow(q, read[o].claims) : q \in claims}
    BY DEF RepairEvidence, Cleaned
<1>2. read[o].claims \in SUBSET Rows /\ claims \in SUBSET Rows
    BY DEF RepairsTypes, Snapshots
<1>3. \A q \in claims : CleanedRow(q, read[o].claims).of = q.of
    BY <1>2, CleanedRowIs
<1> QED
    BY <1>1, <1>3

\* What the storing of claims stores.
LEMMA StoredByExtraction ==
    ASSUME RepairsTypes, StoreClaims
    PROVE  \E new : /\ claims' = claims \cup {new}
                    /\ new.of = "application" => new.form \in extracting
<1>1. extracting \subseteq Forms /\ section \in Forms
    BY DEF RepairsTypes
<1>2. CASE \E form \in extracting : Store("application", form)
    <2>1. PICK form \in extracting : Store("application", form)
        BY <1>2
    <2>2. form \in Forms /\ "application" \in Sentences
        BY <1>1
    <2>3. PICK new : claims' = claims \cup {new} /\ new.form = form
        BY <2>1, <2>2, StoredRow
    <2> QED
        BY <2>3
<1>3. CASE Store("passage", section)
    <2>1. PICK new : claims' = claims \cup {new} /\ new.of = "passage"
        BY <1>1, <1>3, StoredRow
    <2> QED
        BY <2>1
<1> QED
    BY <1>2, <1>3 DEF StoreClaims

\* The forms of the applications, while the abstract reads as what was rejected.
LEMMA SpoiledStep ==
    ASSUME RepairsTypes, RepairsTypes', NotYetRepaired, OneWriter, [RepairsNext]_repairVariables,
           ~ disorder', abstract' \in rejected'
    PROVE  \A c \in claims' : c.of = "application" => c.form = abstract'
<1>1. ~ disorder /\ abstract' \in rejected
    BY AbstractStep
<1>2. abstract' = abstract
    <2>1. ASSUME NEW o \in Operators, RepairAbstract(o)
          PROVE  FALSE
        <3>1. abstract' < abstract' /\ abstract' \in Nat
            BY <1>1, <2>1, RepairLeavesNone, CleaningStops DEF RepairsTypes
        <3> QED
            BY <3>1
    <2> QED
        BY <2>1, AbstractStep
<1>3. \A c \in claims : c.of = "application" => c.form = abstract
    BY <1>1, <1>2 DEF OneWriter
<1>4. extracting \subseteq {abstract} /\ \A o \in Operators : task[o] = "recover" => read[o].form = abstract
    BY <1>1, <1>2 DEF NotYetRepaired, Running
<1>5. ASSUME NEW o \in Operators, RepairEvidence(o)
      PROVE  FALSE
    BY <1>1, <1>2, <1>5 DEF RepairEvidence
<1>6. ASSUME NEW o \in Operators, Recover(o)
      PROVE  \A c \in claims' : c.of = "application" => c.form = abstract
    <2>1. Store("application", abstract) /\ abstract \in Forms
        BY <1>4, <1>6 DEF Recover, RepairsTypes
    <2>2. PICK new : claims' = claims \cup {new} /\ new.form = abstract
        BY <2>1, StoredRow
    <2> QED
        BY <1>3, <2>2
<1>7. ASSUME StoreClaims
      PROVE  \A c \in claims' : c.of = "application" => c.form = abstract
    BY <1>3, <1>4, <1>7, StoredByExtraction
<1> QED
    BY <1>2, <1>3, <1>5, <1>6, <1>7, ClaimsStep

\* Who begins to recover finds no application among the claims.
LEMMA RecoveryFindsNone ==
    ASSUME RepairsTypes, OneWriter, ~ disorder, Snapshot("recover").todo
    PROVE  \A c \in claims : c.of # "application"
<1>1. PICK form \in rejected : Recoverable(form)
    BY SnapshotReads
<1>2. form = abstract /\ abstract \in rejected
    BY <1>1 DEF Recoverable
<1>3. \A c \in claims : c.of = "application" => c.form = form
    BY <1>2 DEF OneWriter
<1> QED
    BY <1>1, <1>3 DEF Recoverable

\* One writer of claims, unless they crowd.
LEMMA OneWriterStep ==
    ASSUME RepairsTypes, RepairsTypes', NotYetRepaired, OneWriter, [RepairsNext]_repairVariables
    PROVE  OneWriter'
<1>0. (crowded => crowded') /\ (disorder => disorder')
    BY AbstractStep
<1>1. ASSUME ~ crowded'
      PROVE  /\ \A o, p \in Operators : task'[o] = "recover" /\ task'[p] = "recover" => o = p
             /\ extracting' # {} => claims' = {} /\ \A o \in Operators : task'[o] # "recover"
    <2>1. /\ \A o, p \in Operators : task[o] = "recover" /\ task[p] = "recover" => o = p
          /\ extracting # {} => claims = {} /\ \A o \in Operators : task[o] # "recover"
        BY <1>0, <1>1 DEF OneWriter, Running
    <2>2. ASSUME NEW o \in Operators, Begin(o), task'[o] = "recover"
          PROVE  extracting = {} /\ extracting' = {} /\ \A p \in Operators : task[p] # "recover"
        <3>1. ~ (Running("recover") # {} \/ extracting # {})
            BY <1>1, <2>2, BeginReads
        <3> QED
            BY <2>2, <3>1 DEF Begin, Running
    <2>3. \A o, p \in Operators : task'[o] = "recover" /\ task'[p] = "recover" => o = p
        <3>1. ASSUME NEW o \in Operators, NEW p \in Operators, Begin(o), task'[o] = "recover", p # o
              PROVE  task'[p] # "recover"
            BY <2>2, <3>1, BeginReads
        <3>2. ASSUME NEW o \in Operators, task'[o] = "recover", ~ Begin(o)
              PROVE  task[o] = "recover"
            BY <3>2, WorkStep
        <3> QED
            BY <2>1, <3>1, <3>2
    <2>4. ASSUME extracting' # {}
          PROVE  claims' = {} /\ \A o \in Operators : task'[o] # "recover"
        <3>1. ASSUME LoadPaper
              PROVE  claims' = {} /\ \A o \in Operators : task'[o] # "recover"
            BY <1>1, <3>1 DEF LoadPaper, Running
        <3>2. ASSUME ~ LoadPaper
              PROVE  extracting' = extracting
            <4>1. ASSUME NEW o \in Operators,
                         \/ Begin(o) \/ Abandon(o) \/ RepairAbstract(o) \/ RepairEvidence(o) \/ Recover(o)
                         \/ Revalidate(o) \/ ClaimGap(o) \/ Categorize(o)
                  PROVE  extracting' = extracting
                BY <4>1 DEF Begin, Abandon, RepairAbstract, RepairEvidence, Recover, Revalidate, ClaimGap, Categorize, texts
            <4>2. ASSUME ForceExtraction \/ ReviewGap \/ UNCHANGED repairVariables
                  PROVE  extracting' = extracting
                BY <4>2 DEF ForceExtraction, ReviewGap, repairVariables, texts
            <4>3. ~ StoreClaims
                BY <2>4 DEF StoreClaims
            <4> QED
                BY <3>2, <4>1, <4>2, <4>3 DEF RepairsNext
        <3>3. ASSUME extracting' = extracting
              PROVE  claims' = {} /\ \A o \in Operators : task'[o] # "recover"
            <4>1. claims = {} /\ \A o \in Operators : task[o] # "recover"
                BY <2>1, <2>4, <3>3
            <4>2. \A o \in Operators : task'[o] # "recover"
                BY <2>2, <2>4, <4>1, WorkStep
            <4>3. ~ StoreClaims /\ ~ \E o \in Operators : Recover(o)
                BY <2>4, <4>1 DEF StoreClaims, Recover
            <4>4. claims' = {}
                BY <4>1, <4>3, ClaimsStep, RepairedClaims
            <4> QED
                BY <4>2, <4>4
        <3> QED
            BY <3>1, <3>2, <3>3
    <2> QED
        BY <2>3, <2>4
<1>2. ~ disorder' => (abstract' \in rejected' => \A c \in claims' : c.of = "application" => c.form = abstract')
    BY SpoiledStep
<1>3. ASSUME ~ crowded', ~ disorder'
      PROVE  /\ \A o \in Operators : task'[o] = "recover" => \A c \in claims' : c.of # "application"
             /\ \A c, d \in claims' : c.of = "application" /\ d.of = "application" => c = d
    <2>1. /\ \A o, p \in Operators : task[o] = "recover" /\ task[p] = "recover" => o = p
          /\ extracting # {} => claims = {} /\ \A o \in Operators : task[o] # "recover"
          /\ \A o \in Operators : task[o] = "recover" => \A c \in claims : c.of # "application"
          /\ \A c, d \in claims : c.of = "application" /\ d.of = "application" => c = d
        BY <1>0, <1>3 DEF OneWriter, Running
    <2>2. ASSUME NEW o \in Operators, Recover(o)
          PROVE  /\ \A p \in Operators : task'[p] # "recover"
                 /\ \A c, d \in claims' : c.of = "application" /\ d.of = "application" => c = d
        <3>1. Put(o) /\ task[o] = "recover" /\ Store("application", read[o].form) /\ read[o].form \in Forms
            BY <2>2 DEF Recover, RepairsTypes, Snapshots
        <3>2. \A p \in Operators : task'[p] # "recover"
            BY <2>1, <3>1, PutLeavesTheOthers
        <3>3. PICK new : claims' = claims \cup {new}
            BY <3>1, StoredRow
        <3> QED
            BY <2>1, <3>1, <3>2, <3>3
    <2>3. ASSUME StoreClaims
          PROVE  /\ \A p \in Operators : task'[p] # "recover"
                 /\ \A c, d \in claims' : c.of = "application" /\ d.of = "application" => c = d
        <3>1. claims = {} /\ (\A p \in Operators : task[p] # "recover") /\ task' = task
            BY <2>1, <2>3 DEF StoreClaims
        <3>2. PICK new : claims' = claims \cup {new}
            BY <2>3, StoredByExtraction
        <3> QED
            BY <3>1, <3>2
    <2>4. ASSUME claims' \subseteq claims
          PROVE  /\ \A o \in Operators : task'[o] = "recover" => \A c \in claims' : c.of # "application"
                 /\ \A c, d \in claims' : c.of = "application" /\ d.of = "application" => c = d
        <3>1. ASSUME NEW o \in Operators, task'[o] = "recover", NEW c \in claims'
              PROVE  c.of # "application"
            <4>1. CASE task[o] = "recover"
                BY <2>1, <2>4, <4>1
            <4>2. CASE Snapshot("recover").todo
                BY <1>0, <1>3, <2>4, <4>2, RecoveryFindsNone
            <4> QED
                BY <3>1, <4>1, <4>2, WorkStep
        <3> QED
            BY <2>1, <2>4, <3>1
    <2>5. ASSUME NEW o \in Operators, RepairEvidence(o)
          PROVE  /\ \A p \in Operators : task'[p] = "recover" => \A c \in claims' : c.of # "application"
                 /\ \A c, d \in claims' : c.of = "application" /\ d.of = "application" => c = d
        <3>1. \A c \in claims' : \E q \in claims : c.of = q.of /\ c = CleanedRow(q, read[o].claims)
            BY <2>5, RepairedClaims
        <3>2. \A c, d \in claims' : c.of = "application" /\ d.of = "application" => c = d
            BY <2>1, <3>1
        <3>3. Put(o)
            BY <2>5 DEF RepairEvidence
        <3>4. \A p \in Operators : task'[p] = "recover" => task[p] = "recover"
            BY <3>3, PutLeavesTheOthers
        <3> QED
            BY <2>1, <3>1, <3>2, <3>4
    <2> QED
        BY <2>2, <2>3, <2>4, <2>5, ClaimsStep
<1> QED
    BY <1>1, <1>2, <1>3 DEF OneWriter, Running

-----------------------------------------------------------------------------

\* The invariant of the scripts: their rows, who has read what, and what they have
\* left (extraction/repair scripts, backfill_analysis_claims).
THEOREM RepairsInvariant == RepairsSpec => []RepairsInv
<1>1. RepairsInit => RepairsInv
    <2> SUFFICES ASSUME RepairsInit
                 PROVE  RepairsInv
        OBVIOUS
    <2>1. Nothing \in Snapshots
        BY CleaningStops DEF Nothing, Snapshots, GapStatuses
    <2>2. /\ abstract \in Forms /\ section \in Forms
          /\ claims = {Row(1, "dataset", abstract), Row(2, "passage", section)} /\ evidence = claims
        BY DEF RepairsInit
    <2>7. /\ Row(1, "dataset", abstract) \in Rows /\ Row(1, "dataset", abstract).of = "dataset"
          /\ Row(2, "passage", section) \in Rows /\ Row(2, "passage", section).of = "passage"
        BY <2>2, NewRow
    <2>3. RepairsTypes
        BY <2>1, <2>2, <2>7, FS_EmptySet DEF RepairsInit, RepairsTypes
    <2>8. rejected \subseteq {abstract} /\ abstract \in Nat
        BY <2>2, CleaningStops DEF RepairsInit
    <2>4. NotYetRepaired /\ WritersAreCurrent /\ QuotesMatchTheirPaper
        BY <2>8 DEF RepairsInit, NotYetRepaired, WritersAreCurrent, QuotesMatchTheirPaper, Running
    <2>5. OneWriter /\ OneBackfill
        BY <2>2, <2>7 DEF RepairsInit, OneWriter, OneBackfill, Running
    <2> QED
        BY <2>3, <2>4, <2>5 DEF RepairsInv
<1>2. RepairsInv /\ [RepairsNext]_repairVariables => RepairsInv'
    <2> SUFFICES ASSUME RepairsInv, [RepairsNext]_repairVariables
                 PROVE  RepairsInv'
        OBVIOUS
    <2> USE DEF RepairsInv
    <2>1. RepairsTypes'
        BY TypesStep
    <2>2. NotYetRepaired'
        BY <2>1, NotYetRepairedStep
    <2>3. WritersAreCurrent'
        BY <2>1, WritersStep
    <2>4. QuotesMatchTheirPaper'
        BY <2>1, <2>3, QuotesStep
    <2>5. OneWriter'
        BY <2>1, OneWriterStep
    <2>6. OneBackfill'
        BY <2>1, BackfillStep
    <2> QED
        BY <2>1, <2>2, <2>3, <2>4, <2>5, <2>6
<1> QED
    BY <1>1, <1>2, PTL DEF RepairsSpec

\* After both repairs, each until it finds nothing, every quote and claim of the
\* abstract reads as it does.
THEOREM QuotesReadAsTheirPaper == RepairsSpec => []QuotesMatchTheirPaper
<1>1. RepairsInv => QuotesMatchTheirPaper
    BY DEF RepairsInv
<1> QED
    BY <1>1, RepairsInvariant, PTL

\* At most one element that is like this: a set of at most one.
LEMMA AtMostOne ==
    ASSUME NEW S, \A c, d \in S : c = d
    PROVE  Cardinality(S) <= 1
<1>1. CASE S = {}
    BY <1>1, FS_EmptySet
<1>2. CASE S # {}
    <2>1. PICK c \in S : S = {c}
        BY <1>2
    <2>2. Cardinality({c}) = 1
        BY FS_Singleton
    <2> QED
        BY <2>1, <2>2
<1> QED
    BY <1>1, <1>2

\* Recovering again and again makes no second claim of a rejected sentence.
THEOREM RecoveryMakesNoDuplicate == RepairsSpec => []RecoveredOnce
<1>1. RepairsInv => RecoveredOnce
    <2> SUFFICES ASSUME RepairsInv, ~ crowded, ~ disorder
                 PROVE  Cardinality({c \in claims : c.of = "application"}) <= 1
        BY DEF RecoveredOnce
    <2>1. \A c, d \in {e \in claims : e.of = "application"} : c = d
        BY DEF RepairsInv, OneWriter
    <2> QED
        BY <2>1, AtMostOne
<1> QED
    BY <1>1, RepairsInvariant, PTL

\* A backfilled claim has the status of its gap, and is the only one.
THEOREM BackfillsAreCurrent == RepairsSpec => []BackfillMirrorsTheReview
<1>1. RepairsInv => BackfillMirrorsTheReview
    <2> SUFFICES ASSUME RepairsInv, ~ overtaken
                 PROVE  Cardinality(mirror) <= 1 /\ \A c \in mirror : c.status = gapStatus
        BY DEF BackfillMirrorsTheReview
    <2>1. (\A c, d \in mirror : c = d) /\ \A c \in mirror : c.status = gapStatus
        BY DEF RepairsInv, OneBackfill
    <2> QED
        BY <2>1, AtMostOne
<1> QED
    BY <1>1, RepairsInvariant, PTL

=============================================================================
