---------------------------- MODULE SourceRequests ----------------------------
(***************************************************************************)
(* The requests a process sends to one source: a connector that pages      *)
(* through the results of a query, or a fetcher of citations that asks for *)
(* one work after another.  Each object spaces its requests and repeats    *)
(* those that fail for a while; a connector keeps its place in what the    *)
(* run saves after every page, and a later run takes up from there with a  *)
(* new object.                                                             *)
(*                                                                         *)
(* The source lists new papers first and may withdraw old ones; it answers *)
(* with short pages, with errors, and with answers that lack the papers or *)
(* what a connector finds its way by: the total, the number of records, a  *)
(* cursor.  What is not told counts as zero or as the end.                 *)
(* Time is counted in seconds from the start of the last request.          *)
(***************************************************************************)
EXTENDS Naturals, Sequences, FiniteSets, SequencesExt, Subsequences

CONSTANTS
    Papers,      \* what the source can ever list
    Shape,       \* how its record of a paper looks: "good", "untitled" or "null"
    OldPapers,   \* what it lists at first, in order
    FullPage,
    MaxDelay,    \* bound: seconds an answer, or the work on a page, takes
    MaxChanges,  \* bound: papers listed or withdrawn later
    MaxStarts    \* bound: processes, one after another

ASSUME PapersAssumption ==
    /\ OldPapers \in Seq(Papers)
    /\ Shape \in [Papers -> {"good", "untitled", "null"}]
    /\ FullPage \in Nat \ {0}
    /\ MaxDelay \in Nat

\* Seconds between requests, attempts, and the longest wait between them.
Arxiv == [interval |-> 3, attempts |-> 5, longest |-> 30]
Core == [interval |-> 2, attempts |-> 3, longest |-> 10]
Scholar == [interval |-> 6, attempts |-> 5, longest |-> 30]
Springer == [interval |-> 1, attempts |-> 5, longest |-> 30]
ScholarCitations == [interval |-> 6, attempts |-> 5, longest |-> 30]
Crossref == [interval |-> 1, attempts |-> 5, longest |-> 30]

Connectors == [arxiv |-> Arxiv, core |-> Core, semantic_scholar |-> Scholar, springer |-> Springer]
Fetchers == [scholar_citations |-> ScholarCitations, crossref |-> Crossref]
Budget == [s \in DOMAIN Connectors \cup DOMAIN Fetchers |->
              IF s \in DOMAIN Connectors THEN Connectors[s] ELSE Fetchers[s]]

VARIABLES
    asked,      \* which one is asked
    listing,    \* what it lists
    place,      \* resume_state of the run, or where its fetcher is
    phase,      \* what the process is doing
    response,   \* the answer in hand: papers, and whether it was the last
    tries,      \* attempts at the request
    since,      \* seconds since the object's last request; none at first
    starts,     \* processes so far
    changes,    \* papers listed or withdrawn so far
    apart,      \* history: the least time between two requests of one object
    delivered,  \* history: papers handed to the run
    lost        \* history: an answer left something out, or a paper was withdrawn

requestVars == <<asked, listing, place, phase, response, tries, since, starts, changes, apart, delivered, lost>>

Never == 1000     \* no request yet
NoPage == [papers |-> <<>>, place |-> <<>>, last |-> FALSE]
Later(seconds) == IF since = Never THEN Never ELSE IF since + seconds > 99 THEN 99 ELSE since + seconds
Least(a, b) == IF a < b THEN a ELSE b
Most(a, b) == IF a < b THEN b ELSE a

Pages == asked \in DOMAIN Connectors

\* The place before the first page: an index, or a cursor that there is not yet.
\* A cursor stands for the papers still to come.
FirstPlace(s) == IF s = "springer" THEN 1 ELSE IF s = "semantic_scholar" THEN <<>> ELSE 0

RequestsInit ==
    /\ asked \in DOMAIN Budget
    /\ listing = OldPapers
    /\ place = FirstPlace(asked)
    /\ phase = "off"
    /\ response = NoPage
    /\ tries = 0
    /\ since = Never
    /\ starts = 0
    /\ changes = 0
    /\ apart = Never
    /\ delivered = {}
    /\ lost = FALSE

-----------------------------------------------------------------------------
(* A request: _throttle and the retried _fetch_page *)

\* A process starts, or a run is taken up again, with a new object; a batch of
\* citations chooses its works anew.
Start ==
    /\ phase \in {"off", "raised", "killed"} /\ starts < MaxStarts
    /\ starts' = starts + 1
    /\ since' = Never
    /\ tries' = 0
    /\ phase' = "throttle"
    /\ place' = IF Pages THEN place ELSE 0
    /\ UNCHANGED <<asked, listing, response, changes, apart, delivered, lost>>

\* The object sleeps for what is left of the interval, and notes the time.
Send ==
    LET distance == Most(since, Budget[asked].interval)
    IN /\ phase = "throttle"
       /\ apart' = IF since = Never THEN apart ELSE Least(apart, distance)
       /\ since' = 0
       /\ tries' = tries + 1
       /\ phase' = "sent"
       /\ UNCHANGED <<asked, listing, place, response, starts, changes, delivered, lost>>

\* wait_exponential: 1, 2, 4, 8 seconds, up to the longest.
Backoff(n) == Least(<<1, 2, 4, 8>>[n], Budget[asked].longest)

\* Mutant: a repeated request is sent after the wait, without the throttle.
Retry_Unthrottled(delay) ==
    /\ phase = "sent" /\ tries < Budget[asked].attempts
    /\ apart' = Least(apart, delay + Backoff(tries))
    /\ since' = 0
    /\ tries' = tries + 1
    /\ UNCHANGED <<asked, listing, place, phase, response, starts, changes, delivered, lost>>

\* No answer, 429, or an error of the server: after a wait the whole request is
\* made again, its throttle included.
Retry(delay) ==
    /\ phase = "sent" /\ tries < Budget[asked].attempts
    /\ since' = Later(delay + Backoff(tries))
    /\ phase' = "throttle"
    /\ UNCHANGED <<asked, listing, place, response, tries, starts, changes, apart, delivered, lost>>

\* An error that is not repeated, or the last of the attempts: the connector
\* raises and the run fails; a batch of citations goes on with the next work.
GiveUp(delay) ==
    /\ phase = "sent"
    /\ IF Pages
       THEN phase' = "raised" /\ UNCHANGED <<place, tries, since>>
       ELSE place' = place + 1 /\ phase' = "next" /\ tries' = 0 /\ since' = Later(delay)
    /\ UNCHANGED <<asked, listing, response, starts, changes, apart, delivered, lost>>

-----------------------------------------------------------------------------
(* The pages of each connector: what it makes of an answer with these papers *)

Total == Len(listing)

\* The next index counts the entries that came; a body without entries ends it.
ArxivPage(papers, total) ==
    LET next == place + Len(papers)
    IN [papers |-> papers, place |-> next, last |-> papers = <<>> \/ next >= total]

CorePage(papers, total) ==
    LET next == place + Len(papers)
    IN [papers |-> papers, place |-> next, last |-> papers = <<>> \/ next >= total]

\* Mutant: the index of the last record is taken for the end.
SpringerPage_OffByOne(papers, displayed, total) ==
    LET next == place + displayed
    IN [papers |-> papers, place |-> next, last |-> displayed = 0 \/ next >= total]

\* Springer counts from one, and the records it says it shows.
SpringerPage(papers, displayed, total) ==
    LET next == place + displayed
    IN [papers |-> papers, place |-> next, last |-> displayed = 0 \/ next > total]

\* There is no next cursor, or the page has no records.  What is saved then is
\* the place before the first page: a run stopped just there starts over.
ScholarPage(papers, cursor) ==
    [papers |-> papers, place |-> cursor, last |-> papers = <<>> \/ cursor = <<>>]

PageOf(papers, displayed, total, cursor) ==
    CASE asked = "arxiv" -> ArxivPage(papers, total)
      [] asked = "core" -> CorePage(papers, total)
      [] asked = "springer" -> SpringerPage(papers, displayed, total)
      [] asked = "semantic_scholar" -> ScholarPage(papers, cursor)

\* Records on which a connector raises: a list that is null where the name is
\* there.  The feed of arXiv has no nulls, and CORE's are provided for.
ArxivRaises(paper) == FALSE
CoreRaises(paper) == FALSE
ScholarRaises(paper) == Shape[paper] = "null"
SpringerRaises(paper) == Shape[paper] = "null"

Raises(paper) ==
    CASE asked = "arxiv" -> ArxivRaises(paper)
      [] asked = "core" -> CoreRaises(paper)
      [] asked = "semantic_scholar" -> ScholarRaises(paper)
      [] asked = "springer" -> SpringerRaises(paper)

\* The papers from an index on, or those a cursor has still to give.
Ahead ==
    IF asked = "semantic_scholar"
    THEN IF place = <<>> THEN listing ELSE Among(place, ToSet(listing))
    ELSE LET from == IF asked = "springer" THEN place ELSE place + 1
         IN SubSeq(listing, from, Len(listing))

\* The answer to a request has papers, and all that its connector goes by.
Tells(n, displayed, total, whole) ==
    /\ n > 0
    /\ asked # "semantic_scholar" => total = Total
    /\ asked = "springer" => displayed = n
    /\ asked = "semantic_scholar" => whole

\* The source answers with the next papers, at most a page and perhaps fewer or
\* none, and with what else it tells: a field that is missing is taken for zero,
\* a cursor that is missing for the end, and the records it says it shows need not
\* be those it sends.
AnswerPage(delay) ==
    /\ phase = "sent" /\ Pages
    /\ \E n \in 0..Least(FullPage, Len(Ahead)) :
         \E displayed \in 0..FullPage, total \in {Total, 0}, whole \in BOOLEAN :
            LET papers == SubSeq(Ahead, 1, n)
                rest == SubSeq(Ahead, n + 1, Len(Ahead))
            IN /\ response' = PageOf(papers, displayed, total, IF whole THEN rest ELSE <<>>)
               /\ phase' = IF \E i \in 1..n : Raises(papers[i]) THEN "raised" ELSE "page"
               /\ lost' = (lost \/ (rest # <<>> /\ ~ Tells(n, displayed, total, whole)))
    /\ tries' = 0
    /\ since' = Later(delay)
    /\ UNCHANGED <<asked, listing, place, starts, changes, apart, delivered>>

\* The run takes the page: papers and place are committed together.
TakePage(delay) ==
    /\ phase = "page"
    /\ delivered' = delivered \cup ToSet(response.papers)
    /\ place' = response.place
    /\ phase' = IF response.last THEN "last" ELSE "throttle"
    /\ response' = NoPage
    /\ since' = Later(delay)
    /\ UNCHANGED <<asked, listing, tries, starts, changes, apart, lost>>

\* That there are no more is committed after it.
Complete ==
    /\ phase = "last"
    /\ phase' = "completed"
    /\ UNCHANGED <<asked, listing, place, response, tries, since, starts, changes, apart, delivered, lost>>

\* fetch_raw: the payload of one work.
AnswerWork(delay) ==
    /\ phase = "sent" /\ ~ Pages
    /\ delivered' = delivered \cup {listing[place + 1]}
    /\ place' = place + 1
    /\ tries' = 0
    /\ since' = Later(delay)
    /\ phase' = "next"
    /\ UNCHANGED <<asked, listing, response, starts, changes, apart, lost>>

NextWork ==
    /\ phase = "next"
    /\ phase' = IF place < Len(listing) THEN "throttle" ELSE "completed"
    /\ UNCHANGED <<asked, listing, place, response, tries, since, starts, changes, apart, delivered, lost>>

-----------------------------------------------------------------------------

\* The process is killed, or the run pauses after a page.
Interrupt ==
    /\ phase \in {"throttle", "sent", "page", "last", "next"}
    /\ phase' = "killed"
    /\ response' = NoPage
    /\ UNCHANGED <<asked, listing, place, tries, since, starts, changes, apart, delivered, lost>>

\* A new paper is listed first.
ListNew ==
    /\ Pages /\ changes < MaxChanges
    /\ \E p \in Papers \ (ToSet(listing) \cup ToSet(OldPapers)) : listing' = <<p>> \o listing
    /\ changes' = changes + 1
    /\ UNCHANGED <<asked, place, phase, response, tries, since, starts, apart, delivered, lost>>

Withdraw ==
    /\ Pages /\ changes < MaxChanges
    /\ \E i \in DOMAIN listing : listing' = RemoveAt(listing, i)
    /\ lost' = TRUE
    /\ changes' = changes + 1
    /\ UNCHANGED <<asked, place, phase, response, tries, since, starts, apart, delivered>>

RequestsNext ==
    \/ Start \/ Send \/ Complete \/ NextWork \/ Interrupt \/ ListNew \/ Withdraw
    \/ \E delay \in 0..MaxDelay :
         Retry(delay) \/ GiveUp(delay) \/ AnswerPage(delay) \/ TakePage(delay) \/ AnswerWork(delay)

RequestsSpec == RequestsInit /\ [][RequestsNext]_requestVars

-----------------------------------------------------------------------------
(* Properties *)

\* Two requests of one object are never closer than its interval, a repeated
\* one and the first of the next page included: a source that refuses is not
\* asked faster.  (A new object knows nothing of the last one's requests.)
RequestsKeepTheirDistance == apart >= Budget[asked].interval

\* A run that counts as completed has been handed every paper that was listed
\* when it began, through short pages, failures, kills and papers that push the
\* rest down; what is missing was withdrawn, or followed an answer that did not
\* tell what the connector goes by: such a run completes too.
CompletedMeansDelivered ==
    phase = "completed" /\ Pages /\ ~ lost => ToSet(OldPapers) \subseteq delivered

-----------------------------------------------------------------------------
(* The invariant behind them *)

IsPlace(p) ==
    IF asked = "semantic_scholar" THEN p \in Seq(Papers)
    ELSE p \in Nat /\ (asked = "springer" => p >= 1)

RequestTypes ==
    /\ asked \in DOMAIN Budget
    /\ since \in Nat /\ apart \in Nat
    /\ tries \in Nat
    /\ phase = "sent" => tries >= 1
    /\ phase = "next" => ~ Pages
    /\ listing \in Seq(Papers)
    /\ IsPlace(place)
    /\ phase = "page" => /\ response.papers \in Seq(Papers)
                         /\ IsPlace(response.place)

\* The old papers that a place has behind it: an index those before it, a cursor
\* all that it does not give.
Behind(p) ==
    IF asked = "semantic_scholar"
    THEN IF p = <<>> THEN {} ELSE ToSet(OldPapers) \ ToSet(p)
    ELSE {listing[i] : i \in {j \in DOMAIN listing : j < IF asked = "springer" THEN p ELSE p + 1}} \cap ToSet(OldPapers)

\* While nothing was lost the run has what its place has behind it, and all of
\* it after the last page.
NothingIsPassedOver ==
    Pages /\ ~ lost =>
        /\ ToSet(OldPapers) \subseteq ToSet(listing)
        /\ Behind(place) \subseteq delivered
        /\ phase = "page" =>
             /\ Behind(response.place) \subseteq delivered \cup ToSet(response.papers)
             /\ response.last => ToSet(OldPapers) \subseteq delivered \cup ToSet(response.papers)
        /\ phase \in {"last", "completed"} => ToSet(OldPapers) \subseteq delivered

RequestsInv == RequestTypes /\ RequestsKeepTheirDistance /\ NothingIsPassedOver
=============================================================================
