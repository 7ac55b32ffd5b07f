---------------------------- MODULE SavedQuestions ----------------------------
(***************************************************************************)
(* Questions asked of the corpus and kept in collections, and the summary  *)
(* a local language model writes of one.  An answer is made of quotes: of  *)
(* claims, and of passages that repeat no claim.  It is a snapshot; only   *)
(* its summary is ever written again.                                      *)
(*                                                                         *)
(* Every request has a session of its own and reads before minutes of a    *)
(* model's work; at the end an UPDATE names only the columns that differ   *)
(* from what the session had read.                                         *)
(***************************************************************************)
EXTENDS Naturals, FiniteSets

CONSTANTS
    Askers,       \* requests, each handled once
    Collections,
    Titles,
    Questions,    \* rows that can be stored
    OldQuestion,  \* one stored before, in a collection of its own
    Claims,       \* claims that an extraction of the candidate papers finds
    Passages,     \* chunks of their full text
    Repeats,      \* the claims a passage contains, for each passage
    TopK,         \* top_k_quotes
    Summaries,    \* answers of the model
    Cited,        \* the numbers each of them cites
    MaxResets,    \* bound: forced extractions
    Absent,       \* never stored
    Deleted       \* stored no more

ASSUME QuestionAssumption ==
    /\ OldQuestion \in Questions
    /\ Repeats \in [Passages -> SUBSET Claims]
    /\ Cited \in [Summaries -> SUBSET Nat]
    /\ TopK \in Nat \ {0}
    /\ IsFiniteSet(Claims) /\ IsFiniteSet(Passages)

\* The rows a question can have.
QuestionRows ==
    [of : Collections, hits : SUBSET (Claims \cup Passages),
     summary : Summaries \cup {Absent}, cites : {Absent} \cup {Cited[s] : s \in Summaries}]

ASSUME AbsenceAssumption ==
    /\ Absent # Deleted /\ Absent \notin Summaries
    /\ Absent \notin QuestionRows /\ Deleted \notin QuestionRows

VARIABLES
    titles,     \* qa_collections: the title of each, or Absent or Deleted
    saved,      \* qa_questions: the row of each, or Absent or Deleted
    foundClaims, \* extracted_claims of the candidate papers
    resets,     \* forced extractions so far
    at,         \* where each request is
    job,        \* what it was asked to do
    loaded,     \* the row, or the claims, it has read
    failures,   \* calls of the model that failed
    answer,     \* what the model wrote for it
    mingled     \* history: questions summarized by two requests at once

qaVars == <<titles, saved, foundClaims, resets, at, job, loaded, failures, answer, mingled>>

Open == {c \in Collections : titles[c] \in Titles}
Stored == {q \in Questions : saved[q] \notin {Absent, Deleted}}

NoJob == [op |-> "none"]

\* The question a request is summarizing.
Summarizes(r) == IF job[r].op = "summarize" THEN {job[r].q} ELSE {}

\* The row of a question whose answer has n quotes.
QuestionRow(c, hits) == [of |-> c, hits |-> hits, summary |-> Absent, cites |-> Absent]

QaInit ==
    /\ \E c \in Collections, s \in Summaries \cup {Absent}, hits \in SUBSET Claims :
         /\ Cardinality(hits) <= TopK
         /\ s # Absent => hits # {} /\ Cited[s] \subseteq 1..Cardinality(hits)
         /\ titles \in {[d \in Collections |-> IF d = c THEN t ELSE Absent] : t \in Titles}
         /\ saved = [q \in Questions |->
              IF q = OldQuestion
              THEN [of |-> c, hits |-> hits, summary |-> s, cites |-> IF s = Absent THEN Absent ELSE Cited[s]]
              ELSE Absent]
    /\ foundClaims \in SUBSET Claims
    /\ resets = 0
    /\ at = [r \in Askers |-> "new"]
    /\ job = [r \in Askers |-> NoJob]
    /\ loaded = [r \in Askers |-> Absent]
    /\ failures = [r \in Askers |-> 0]
    /\ answer = [r \in Askers |-> Absent]
    /\ mingled = {}

\* A request ends; it forgets what it had.
Answered(r, label) ==
    /\ at' = [at EXCEPT ![r] = label]
    /\ job' = [job EXCEPT ![r] = NoJob]
    /\ loaded' = [loaded EXCEPT ![r] = Absent]
    /\ failures' = [failures EXCEPT ![r] = 0]
    /\ answer' = [answer EXCEPT ![r] = Absent]

-----------------------------------------------------------------------------
(* Collections *)

CreateCollection(r) ==
    /\ at[r] = "new"
    /\ \E c \in Collections, t \in Titles :
         titles[c] = Absent /\ titles' = [titles EXCEPT ![c] = t]
    /\ Answered(r, "done")
    /\ UNCHANGED <<saved, foundClaims, resets, mingled>>

\* _collection_or_404: the three operations on a collection begin alike.
OpenCollection(r) ==
    /\ at[r] = "new"
    /\ \E c \in Collections, op \in {"rename", "delete", "save"}, t \in Titles :
         /\ c \in Open
         /\ job' = [job EXCEPT ![r] = [op |-> op, of |-> c, title |-> t]]
    /\ at' = [at EXCEPT ![r] = "opened"]
    /\ UNCHANGED <<titles, saved, foundClaims, resets, loaded, failures, answer, mingled>>

\* rename_collection; the row may be gone.
RenameCollection(r) ==
    /\ at[r] = "opened" /\ job[r].op = "rename"
    /\ IF job[r].of \notin Open
       THEN titles' = titles /\ Answered(r, "error")
       ELSE titles' = [titles EXCEPT ![job[r].of] = job[r].title] /\ Answered(r, "done")
    /\ UNCHANGED <<saved, foundClaims, resets, mingled>>

\* delete_collection: its questions go with it; deleting no row is only a warning.
DeleteCollection(r) ==
    LET c == job[r].of
    IN /\ at[r] = "opened" /\ job[r].op = "delete"
       /\ titles' = [titles EXCEPT ![c] = Deleted]
       /\ saved' = [q \in Questions |-> IF q \in Stored /\ saved[q].of = c THEN Deleted ELSE saved[q]]
       /\ Answered(r, "done")
       /\ UNCHANGED <<foundClaims, resets, mingled>>

-----------------------------------------------------------------------------
(* save_question *)

\* answer_question: the claims of the candidate papers, ...
ReadClaims(r) ==
    /\ at[r] = "opened" /\ job[r].op = "save"
    /\ loaded' = [loaded EXCEPT ![r] = foundClaims]
    /\ at' = [at EXCEPT ![r] = "ranking"]
    /\ UNCHANGED <<titles, saved, foundClaims, resets, job, failures, answer, mingled>>

\* ... the passages that contain none of them, ...
Kept(found) ==
    {p \in Passages : Repeats[p] \cap found = {}}

\* ... and of both the best, in an order that the question decides.
Hits(found) ==
    LET all == found \cup Kept(found)
    IN {hits \in SUBSET all : Cardinality(hits) = IF Cardinality(all) < TopK THEN Cardinality(all) ELSE TopK}

\* The row is inserted and the collection's time is set; both need the collection.
SaveQuestion(r) ==
    /\ at[r] = "ranking"
    /\ IF job[r].of \notin Open
       THEN saved' = saved /\ Answered(r, "error")
       ELSE /\ \E q \in Questions, hits \in Hits(loaded[r]) :
                 saved[q] = Absent /\ saved' = [saved EXCEPT ![q] = QuestionRow(job[r].of, hits)]
            /\ Answered(r, "done")
    /\ UNCHANGED <<titles, foundClaims, resets, mingled>>

-----------------------------------------------------------------------------
(* summarize_saved_question *)

OpenQuestion(r) ==
    /\ at[r] = "new"
    /\ \E q \in Questions :
         /\ q \in Stored
         /\ IF saved[q].hits = {}
            THEN Answered(r, "refused") /\ mingled' = mingled
            ELSE /\ job' = [job EXCEPT ![r] = [op |-> "summarize", q |-> q]]
                 /\ loaded' = [loaded EXCEPT ![r] = saved[q]]
                 /\ at' = [at EXCEPT ![r] = "asking"]
                 /\ mingled' = IF \E p \in Askers : q \in Summarizes(p) THEN mingled \cup {q} ELSE mingled
                 /\ UNCHANGED <<failures, answer>>
    /\ UNCHANGED <<titles, saved, foundClaims, resets>>

\* Mutant: a number one past the last quote is accepted.
InRange_OffByOne(summary, n) == \A i \in Cited[summary] : i <= n + 1

\* extract_citations.
InRange(summary, n) == \A i \in Cited[summary] : 1 <= i /\ i <= n

\* summarize_quotes: a summary that cites only its quotes, ...
ModelAnswers(r) ==
    /\ at[r] = "asking"
    /\ \E s \in Summaries :
         /\ InRange(s, Cardinality(loaded[r].hits))
         /\ answer' = [answer EXCEPT ![r] = s]
    /\ at' = [at EXCEPT ![r] = "storing"]
    /\ UNCHANGED <<titles, saved, foundClaims, resets, job, loaded, failures, mingled>>

\* ... or an error, no answer or a number out of range, which is tried once more.
ModelFails(r) ==
    /\ at[r] = "asking"
    /\ IF failures[r] = 0
       THEN failures' = [failures EXCEPT ![r] = 1] /\ UNCHANGED <<at, job, loaded, answer>>
       ELSE Answered(r, "refused")
    /\ UNCHANGED <<titles, saved, foundClaims, resets, mingled>>

\* Mutant: only the text is stored when it is a second summary.
StoreSummary_TextOnly(r) ==
    LET q == job[r].q
        wrote == answer[r]
    IN /\ at[r] = "storing"
       /\ IF q \notin Stored
          THEN saved' = saved /\ Answered(r, "error")
          ELSE /\ saved' = [saved EXCEPT ![q].summary = wrote,
                                         ![q].cites = IF loaded[r].cites = Absent THEN Cited[wrote] ELSE @]
               /\ Answered(r, "done")
       /\ UNCHANGED <<titles, foundClaims, resets, mingled>>

\* The UPDATE sets what differs from the row that was read; with no row left to
\* update, or nothing to set, it fails or does nothing.
StoreSummary(r) ==
    LET q == job[r].q
        wrote == answer[r]
        same == loaded[r].summary = wrote /\ loaded[r].cites = Cited[wrote]
    IN /\ at[r] = "storing"
       /\ IF q \notin Stored
          THEN saved' = saved /\ Answered(r, IF same THEN "done" ELSE "error")
          ELSE /\ saved' = [saved EXCEPT
                    ![q].summary = IF loaded[r].summary = wrote THEN @ ELSE wrote,
                    ![q].cites = IF loaded[r].cites = Cited[wrote] THEN @ ELSE Cited[wrote]]
               /\ Answered(r, "done")
       /\ UNCHANGED <<titles, foundClaims, resets, mingled>>

-----------------------------------------------------------------------------

\* A forced extraction: the claims are others, the answers stay as they were.
ClaimsChange ==
    /\ resets < MaxResets
    /\ resets' = resets + 1
    /\ foundClaims' \in SUBSET Claims
    /\ UNCHANGED <<titles, saved, at, job, loaded, failures, answer, mingled>>

QaNext ==
    \/ \E r \in Askers : CreateCollection(r) \/ OpenCollection(r) \/ RenameCollection(r) \/ DeleteCollection(r)
    \/ \E r \in Askers : ReadClaims(r) \/ SaveQuestion(r)
    \/ \E r \in Askers : OpenQuestion(r) \/ ModelAnswers(r) \/ ModelFails(r) \/ StoreSummary(r)
    \/ ClaimsChange

QaSpec == QaInit /\ [][QaNext]_qaVars

-----------------------------------------------------------------------------
(* Properties *)

\* The citations stored with a summary are those of that summary, unless two
\* requests summarized the question at once (each UPDATE then sets the columns
\* that differ from what its own session had read); and whatever overlaps, each
\* is the number of a quote of its own row, against which it was checked.
CitationsFitTheSummary ==
    \A q \in Stored :
      LET row == saved[q]
      IN /\ row.cites # Absent => row.cites \subseteq 1..Cardinality(row.hits)
         /\ q \notin mingled => row.cites = (IF row.summary = Absent THEN Absent ELSE Cited[row.summary])

-----------------------------------------------------------------------------
(* The invariant behind it *)

QaTypes ==
    /\ saved \in [Questions -> QuestionRows \cup {Absent, Deleted}]
    /\ foundClaims \subseteq Claims
    /\ DOMAIN at = Askers /\ DOMAIN job = Askers /\ DOMAIN loaded = Askers /\ DOMAIN answer = Askers
    /\ \A r \in Askers : at[r] = "ranking" => loaded[r] \subseteq Claims
    /\ \A r \in Askers : at[r] \in {"asking", "storing"} => job[r].op = "summarize"
    /\ \A r \in Askers : job[r].op = "summarize" => job[r].q \in Questions /\ at[r] \in {"asking", "storing"}

\* What a request has read of the question it summarizes: the quotes as they are,
\* and, when no other is at it, the whole row.
SummariesAreChecked ==
    \A r \in Askers : job[r].op = "summarize" =>
      LET q == job[r].q
      IN  /\ loaded[r] \in QuestionRows
          /\ saved[q] # Absent
          /\ q \in Stored => loaded[r].hits = saved[q].hits
          /\ q \in Stored \ mingled => loaded[r] = saved[q]
          /\ q \notin mingled => \A p \in Askers : Summarizes(p) = {q} => p = r
          /\ at[r] = "storing" => answer[r] \in Summaries /\ InRange(answer[r], Cardinality(loaded[r].hits))

QaInv == QaTypes /\ SummariesAreChecked /\ CitationsFitTheSummary
=============================================================================
