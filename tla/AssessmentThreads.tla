--------------------------- MODULE AssessmentThreads ---------------------------
(***************************************************************************)
(* The requests that work on the reports of one research input: its first  *)
(* assessment, reruns - by hand, or by the script that refreshes reports - *)
(* the synthesis of opportunities, the deletion of the whole thread, and a *)
(* project that lists it.                                                  *)
(*                                                                         *)
(* Each request is one PostgreSQL transaction at READ COMMITTED.  Its      *)
(* statements are steps: a statement sees what is committed when it        *)
(* starts, waits for the row locks of others, and meets the foreign keys   *)
(* (report -> input, link -> report, membership -> input and project) and  *)
(* the unique key of the links.  A build and a synthesis take minutes, in  *)
(* which everything else may happen.  Whoever waits in a cycle may be      *)
(* aborted by the server's deadlock detection.                             *)
(*                                                                         *)
(* A link ties a report to evidence; the links of all other roles count as *)
(* one, to None, which every report has.                                   *)
(***************************************************************************)
EXTENDS Naturals, FiniteSets

CONSTANTS
    Requests,  \* server threads, each serving one request at a time
    Reports,   \* rows of research_assessments that may come to be
    Evidence,  \* the evidence behind the applications of the reports
    None

ASSUME NoneAssumption == None \notin Evidence \cup Reports

VARIABLES
    input,    \* the row of research_inputs: "none", "here" or "gone"
    opps,     \* the committed reports; what evidence their opportunities cite
    links,    \* research_assessment_evidence: pairs of report and evidence
    kept,     \* whether Evidence is still there: a forced extraction deletes it
    project,  \* the row of research_projects: "none", "here" or "gone"
    member,   \* whether it lists the input
    tx,       \* the transaction of each request
    alone,    \* history: the syntheses no other on their report has overlapped
    doubt     \* history: the reports in doubt, see SynthesisCommit

database == <<input, opps, links, kept, project, member>>
history == <<alone, doubt>>
vars == <<database, tx, history>>

\* a: the report it is about; seen: the opportunities it loaded; value: those
\* it will save; locked: whether its UPDATE holds the row; want, cut: the
\* links its DELETE is after and has deleted; put: those it has inserted;
\* dead: the reports it has deleted.
Idle == [pc |-> "idle", a |-> None, seen |-> {}, value |-> {}, locked |-> FALSE,
         want |-> {}, cut |-> {}, put |-> {}, dead |-> {}]

Set(r, t) == tx' = [tx EXCEPT ![r] = t]

\* The transaction ends.  A row it has deleted is out of reach of a DELETE that
\* waited for it, even if an equal one has been inserted.
Commit(r) ==
    tx' = [q \in Requests |-> IF q = r THEN Idle
                              ELSE [tx[q] EXCEPT !.want = @ \ tx[r].cut]]

\* The transaction rolls back; the request answers with an error.
Abort(r) ==
    /\ Set(r, Idle)
    /\ alone' = alone \ {r}
    /\ UNCHANGED <<database, doubt>>

\* A statement that changes nothing committed.
Step(r, t) ==
    /\ Set(r, t)
    /\ UNCHANGED <<database, history>>

New == Reports \ (DOMAIN opps \cup {tx[r].a : r \in Requests})

LinksOf(a, cites) == {<<a, e>> : e \in cites}

-----------------------------------------------------------------------------
(* Whom a statement waits for *)

HoldsRow(q, a) ==
    \/ tx[q].locked /\ tx[q].a = a
    \/ a \in tx[q].dead

RefersTo(q, a) == \E l \in tx[q].put : l[1] = a

WaitsFor(r, q) ==
    LET t == tx[r]
        u == tx[q]
    IN \/ t.pc \in {"unlinking", "cutting"} /\ t.want \cap u.cut # {}
       \/ t.pc = "update" /\ HoldsRow(q, t.a)
       \/ t.pc = "put" /\ \/ t.a \in u.dead
                          \/ LinksOf(t.a, t.value) \cap (u.put \cup u.cut) # {}
       \/ t.pc = "purge" /\ \E b \in DOMAIN opps : HoldsRow(q, b) \/ RefersTo(q, b)
       \/ t.pc = "drop" /\ u.pc \in {"inserted", "joined", "dropped"}
       \/ t.pc = "build" /\ u.pc = "dropped"
       \/ t.pc = "join" /\ u.pc \in {"joined", "dropped"}

Waits(r) == {q \in Requests \ {r} : WaitsFor(r, q)}

\* Deadlock detection: one of those that wait in a cycle gives way.
Victim(r) ==
    /\ \E S \in SUBSET Requests : r \in S /\ \A q \in S : Waits(q) \cap S # {}
    /\ Abort(r)

-----------------------------------------------------------------------------
(* create_assessment and rerun_assessment *)

Create(r) ==
    /\ tx[r].pc = "idle"
    /\ input = "none"
    /\ \A q \in Requests : tx[q].pc # "create"
    /\ \E a \in New : Step(r, [Idle EXCEPT !.pc = "create", !.a = a])

\* The input, the report and its links are committed together.
CreateCommit(r) ==
    /\ tx[r].pc = "create"
    /\ input' = "here"
    /\ \E cites \in SUBSET (IF kept THEN Evidence ELSE {}) :
         /\ opps' = [a \in {tx[r].a} |-> cites]
         /\ links' = LinksOf(tx[r].a, cites \cup {None})
    /\ Commit(r)
    /\ UNCHANGED <<kept, project, member, history>>

Rerun(r) ==
    /\ tx[r].pc = "idle"
    /\ DOMAIN opps # {}
    /\ \E a \in New : Step(r, [Idle EXCEPT !.pc = "build", !.a = a])

\* refresh_stale_assessments lists the inputs that have a report, ...
Refresh(r) ==
    /\ tx[r].pc = "idle"
    /\ DOMAIN opps # {}
    /\ Step(r, [Idle EXCEPT !.pc = "listed"])

\* ... builds for other inputs, and fails on one that is gone by its turn.
RefreshNext(r) ==
    /\ tx[r].pc = "listed"
    /\ IF input = "here" THEN \E a \in New : Step(r, [Idle EXCEPT !.pc = "build", !.a = a]) ELSE Abort(r)

\* Mutant: reruns after the delete resurrect the input.
RerunInsert_Upsert(r) ==
    /\ tx[r].pc = "build"
    /\ Waits(r) = {}
    /\ Step(r, [tx[r] EXCEPT !.pc = "inserted"])

\* The flush of the new report: its foreign key locks the input.
RerunInsert(r) ==
    /\ tx[r].pc = "build"
    /\ Waits(r) = {}
    /\ IF input = "here" THEN Step(r, [tx[r] EXCEPT !.pc = "inserted"]) ELSE Abort(r)

RerunCommit(r) ==
    LET new == tx[r].a
    IN /\ tx[r].pc = "inserted"
       /\ \E cites \in SUBSET (IF kept THEN Evidence ELSE {}) :
            /\ opps' = [a \in DOMAIN opps \cup {new} |-> IF a = new THEN cites ELSE opps[a]]
            /\ links' = links \cup LinksOf(new, cites \cup {None})
       /\ Commit(r)
       /\ UNCHANGED <<input, kept, project, member, history>>

-----------------------------------------------------------------------------
(* delete_assessment *)

Delete(r) ==
    /\ tx[r].pc = "idle"
    /\ DOMAIN opps # {}
    /\ Step(r, [Idle EXCEPT !.pc = "unlink"])

\* DELETE the links of the thread: those committed when it starts.
DeleteLinks(r) ==
    /\ tx[r].pc = "unlink"
    /\ Step(r, [tx[r] EXCEPT !.pc = "unlinking", !.want = links])

DeleteLinksDone(r) ==
    /\ tx[r].pc = "unlinking"
    /\ Waits(r) = {}
    /\ Step(r, [tx[r] EXCEPT !.pc = "purge", !.cut = @ \cup (tx[r].want \cap links), !.want = {}])

\* DELETE the reports; a link that is still there refuses it.
DeleteReports(r) ==
    /\ tx[r].pc = "purge"
    /\ Waits(r) = {}
    /\ IF links \subseteq tx[r].cut
       THEN Step(r, [tx[r] EXCEPT !.pc = "drop", !.dead = DOMAIN opps])
       ELSE Abort(r)

\* DELETE the input; a report that is still there refuses it.
DeleteInput(r) ==
    /\ tx[r].pc = "drop"
    /\ Waits(r) = {}
    /\ IF DOMAIN opps \subseteq tx[r].dead
       THEN Step(r, [tx[r] EXCEPT !.pc = "dropped"])
       ELSE Abort(r)

\* The membership goes with the input.  A second deletion finds no rows.
DeleteCommit(r) ==
    /\ tx[r].pc = "dropped"
    /\ input' = "gone"
    /\ opps' = [a \in DOMAIN opps \ tx[r].dead |-> opps[a]]
    /\ links' = links \ tx[r].cut
    /\ member' = FALSE
    /\ Commit(r)
    /\ UNCHANGED <<kept, project, history>>

-----------------------------------------------------------------------------
(* synthesize_assessment_opportunities *)

Synthesizing(r, a) == tx[r].pc \in {"ask", "update", "cut", "cutting", "put", "save"} /\ tx[r].a = a

Synthesis(r) ==
    /\ tx[r].pc = "idle"
    /\ \E a \in DOMAIN opps :
         LET rivals == {q \in Requests : Synthesizing(q, a)}
         IN /\ Set(r, [Idle EXCEPT !.pc = "ask", !.a = a, !.seen = opps[a]])
            /\ alone' = IF rivals = {} THEN alone \cup {r} ELSE alone \ rivals
    /\ UNCHANGED <<database, doubt>>

\* The model fails, or an answer is assigned: the session will update the
\* row only if the answer differs from the value it loaded.
SynthesisAnswer(r) ==
    /\ tx[r].pc = "ask"
    /\ \/ Abort(r)
       \/ \E cites \in (SUBSET Evidence) \ {{}} :
            \/ Step(r, [tx[r] EXCEPT !.pc = "update", !.value = cites])
            \/ /\ cites = tx[r].seen
               /\ Step(r, [tx[r] EXCEPT !.pc = "cut", !.value = cites])

\* The autoflush before the DELETE; a deleted row makes it fail.
SynthesisUpdate(r) ==
    /\ tx[r].pc = "update"
    /\ Waits(r) = {}
    /\ IF tx[r].a \in DOMAIN opps
       THEN Step(r, [tx[r] EXCEPT !.pc = "cut", !.locked = TRUE])
       ELSE Abort(r)

\* Mutant: the links of an earlier synthesis stay.
SynthesisUnlink_Keep(r) ==
    /\ tx[r].pc = "cut"
    /\ Step(r, [tx[r] EXCEPT !.pc = "cutting"])

\* DELETE the report's opportunity links: those committed when it starts.
SynthesisUnlink(r) ==
    /\ tx[r].pc = "cut"
    /\ Step(r, [tx[r] EXCEPT !.pc = "cutting", !.want = links \cap LinksOf(tx[r].a, Evidence)])

SynthesisUnlinkDone(r) ==
    /\ tx[r].pc = "cutting"
    /\ Waits(r) = {}
    /\ Step(r, [tx[r] EXCEPT !.pc = "put", !.cut = tx[r].want \cap links, !.want = {}])

\* INSERT the new links: the unique key, the evidence and the report object.
SynthesisLink(r) ==
    LET new == LinksOf(tx[r].a, tx[r].value)
    IN /\ tx[r].pc = "put"
       /\ Waits(r) = {}
       /\ IF tx[r].a \in DOMAIN opps /\ kept /\ new \cap (links \ tx[r].cut) = {}
          THEN Step(r, [tx[r] EXCEPT !.pc = "save", !.put = new])
          ELSE Abort(r)

SynthesisCommit(r) ==
    LET a == tx[r].a
    IN /\ tx[r].pc = "save"
       /\ opps' = IF tx[r].locked THEN [opps EXCEPT ![a] = tx[r].value] ELSE opps
       /\ links' = (links \ tx[r].cut) \cup tx[r].put
       /\ Commit(r)
       /\ doubt' = IF r \in alone THEN doubt \ {a}
                   ELSE IF tx[r].locked THEN doubt ELSE doubt \cup {a}
       /\ alone' = alone \ {r}
       /\ UNCHANGED <<input, kept, project, member>>

-----------------------------------------------------------------------------
(* Projects, and a forced extraction *)

CreateProject ==
    /\ project = "none"
    /\ project' = "here"
    /\ UNCHANGED <<input, opps, links, kept, member, tx, history>>

\* add_assessment_to_project: the input is there and not yet a member.
Join(r) ==
    /\ tx[r].pc = "idle"
    /\ project = "here" /\ input = "here" /\ ~member
    /\ Step(r, [Idle EXCEPT !.pc = "join"])

JoinInsert(r) ==
    /\ tx[r].pc = "join"
    /\ Waits(r) = {}
    /\ IF project = "here" /\ input = "here" /\ ~member
       THEN Step(r, [tx[r] EXCEPT !.pc = "joined"])
       ELSE Abort(r)

JoinCommit(r) ==
    /\ tx[r].pc = "joined"
    /\ member' = TRUE
    /\ Commit(r)
    /\ UNCHANGED <<input, opps, links, kept, project, history>>

Joined == \E r \in Requests : tx[r].pc = "joined"

\* remove_assessment_from_project and delete_project, each one statement.
Leave ==
    /\ member
    /\ \A r \in Requests : tx[r].pc # "dropped"
    /\ member' = FALSE
    /\ UNCHANGED <<input, opps, links, kept, project, tx, history>>

DeleteProject ==
    /\ project = "here" /\ ~Joined
    /\ \A r \in Requests : tx[r].pc # "dropped"
    /\ project' = "gone"
    /\ member' = FALSE
    /\ UNCHANGED <<input, opps, links, kept, tx, history>>

\* reset_extraction_data waits for the links others are changing.
Reset ==
    /\ kept
    /\ \A r \in Requests : tx[r].cut = {} /\ tx[r].put = {}
    /\ kept' = FALSE
    /\ links' = {}
    /\ UNCHANGED <<input, opps, project, member, tx, history>>

-----------------------------------------------------------------------------

Init ==
    /\ input = "none"
    /\ opps = <<>>
    /\ links = {}
    /\ kept = TRUE
    /\ project = "none"
    /\ member = FALSE
    /\ tx = [r \in Requests |-> Idle]
    /\ alone = {}
    /\ doubt = {}

Next ==
    \/ \E r \in Requests :
         \/ Create(r) \/ CreateCommit(r)
         \/ Rerun(r) \/ Refresh(r) \/ RefreshNext(r) \/ RerunInsert(r) \/ RerunCommit(r)
         \/ Delete(r) \/ DeleteLinks(r) \/ DeleteLinksDone(r)
         \/ DeleteReports(r) \/ DeleteInput(r) \/ DeleteCommit(r)
         \/ Synthesis(r) \/ SynthesisAnswer(r) \/ SynthesisUpdate(r)
         \/ SynthesisUnlink(r) \/ SynthesisUnlinkDone(r)
         \/ SynthesisLink(r) \/ SynthesisCommit(r)
         \/ Join(r) \/ JoinInsert(r) \/ JoinCommit(r)
         \/ Victim(r)
    \/ CreateProject
    \/ Leave
    \/ DeleteProject
    \/ Reset

Spec == Init /\ [][Next]_vars

-----------------------------------------------------------------------------
(* Properties *)

\* Statement by statement, overlapping and failing, the requests do what the
\* routes promise in single steps: the thread grows, or goes as a whole, and
\* nothing brings it back.
Promise == INSTANCE AssessmentHistory WITH thread <- input, listed <- member

KeepsItsPromise == Promise!Spec

\* The links of a report are those its opportunities cite - the re-synthesis
\* replaces both - unless one synthesis confirmed the value it had loaded
\* while another was under way, or a forced extraction has deleted them.
LinksFollowOpportunities ==
    \A a \in DOMAIN opps :
        LET linked == {e \in Evidence : <<a, e>> \in links}
        IN a \in doubt \/ linked = opps[a] \/ (~kept /\ linked = {})

-----------------------------------------------------------------------------
(* The invariant behind them *)

Stages == {"idle", "create", "build", "listed", "inserted", "unlink", "unlinking", "purge", "drop",
           "dropped", "ask", "update", "cut", "cutting", "put", "save", "join", "joined"}

Pairs == Reports \X (Evidence \cup {None})

Transactions == [pc: Stages, a: Reports \cup {None}, seen: SUBSET Evidence, value: SUBSET Evidence,
                 locked: BOOLEAN, want: SUBSET Pairs, cut: SUBSET Pairs, put: SUBSET Pairs,
                 dead: SUBSET Reports]

TypeOK ==
    /\ input \in {"none", "here", "gone"}
    /\ DOMAIN opps \subseteq Reports
    /\ opps \in [DOMAIN opps -> SUBSET Evidence]
    /\ links \subseteq Pairs
    /\ kept \in BOOLEAN /\ member \in BOOLEAN
    /\ project \in {"none", "here", "gone"}
    /\ tx \in [Requests -> Transactions]
    /\ alone \subseteq Requests
    /\ doubt \subseteq Reports

\* The input, its reports, its membership and their links stay together.
RowsRefer ==
    /\ input = "here" <=> DOMAIN opps # {}
    /\ member => input = "here"
    /\ \A l \in links : l[1] \in DOMAIN opps

OnNew(t) == t.pc \in {"create", "build", "inserted"}

Writing(t) == t.pc \in {"cut", "cutting", "put", "save"}

OnReport(t) == t.pc \in {"ask", "update"} \/ Writing(t)

\* What a transaction has in hand, against the tables.
Sound(t) ==
    /\ OnNew(t) => t.a \in Reports \ DOMAIN opps
    /\ t.pc = "create" => input = "none"
    /\ input = "none" => t.pc \in {"idle", "create"}
    /\ t.pc \in {"inserted", "joined"} => input = "here"
    /\ t.pc = "dropped" => DOMAIN opps \subseteq t.dead
    /\ t.dead \subseteq DOMAIN opps
    /\ \A l \in links : l[1] \in t.dead => l \in t.cut
    /\ t.dead # {} => t.pc \in {"drop", "dropped"}
    /\ t.locked => Writing(t)
    /\ t.put # {} => t.pc = "save"
    /\ t.cut # {} => t.pc \in {"put", "save", "purge", "drop", "dropped"}
    /\ t.locked \/ t.pc = "save" => t.a \in DOMAIN opps
    /\ OnReport(t) => t.a \in Reports
    /\ OnReport(t) /\ t.pc # "ask" => t.value # {}
    /\ t.pc = "save" => t.put = LinksOf(t.a, t.value) /\ kept
    /\ Writing(t) => t.locked \/ t.value = t.seen
    /\ t.pc = "cutting" => t.want \subseteq LinksOf(t.a, Evidence)
    /\ t.pc \in {"put", "save"} => t.cut \subseteq LinksOf(t.a, Evidence)

\* Two transactions under way: what locks keep apart.
Apart(t, u) ==
    /\ OnNew(t) => u.a # t.a
    /\ t.pc = "create" => u.pc # "create"
    /\ t.pc \in {"inserted", "joined"} => u.pc # "dropped"
    /\ t.locked \/ t.pc = "save" => t.a \notin u.dead
    /\ t.locked /\ u.locked => t.a # u.a
    /\ t.dead \cap u.dead = {}

\* The DELETE of a synthesis takes all links of its report.
Sweeps(t) ==
    /\ t.pc = "cutting" => links \cap LinksOf(t.a, Evidence) \subseteq t.want
    /\ t.pc \in {"put", "save"} => links \cap LinksOf(t.a, Evidence) \subseteq t.cut

\* A synthesis alone on its report finds it as it was loaded.
AloneIsAlone ==
    \A r \in alone :
        /\ OnReport(tx[r])
        /\ \A q \in Requests : OnReport(tx[q]) /\ tx[q].a = tx[r].a => q = r
        /\ tx[r].a \in DOMAIN opps => tx[r].seen = opps[tx[r].a]

IInv ==
    /\ TypeOK
    /\ RowsRefer
    /\ \A r \in Requests : Sound(tx[r])
    /\ \A r, q \in Requests : r # q => Apart(tx[r], tx[q])
    /\ \A r \in Requests : r \in alone \/ (tx[r].locked /\ tx[r].a \notin doubt) => Sweeps(tx[r])
    /\ AloneIsAlone
    /\ LinksFollowOpportunities
=============================================================================
