--------------------------- MODULE AnnotationFiles ---------------------------
(***************************************************************************)
(* The annotation files of the benchmark and the requests that edit them.  *)
(* A request reads a whole file, merges the fields it was sent and writes  *)
(* the whole file back; nothing locks the file, and the write first        *)
(* empties it.  Requests run on threads of one server, which may stop at   *)
(* any moment.                                                             *)
(*                                                                         *)
(* The names of definitions and variables are chosen so that this module   *)
(* can be extended together with others.                                   *)
(***************************************************************************)
EXTENDS Naturals, Sequences, FiniteSets, SequencesExt

CONSTANTS
    Requests,   \* PUT requests, each handled once
    Listing,    \* the annotation files in the order of the directory
    Named,      \* those a request finds by their name; the rest by a scan
    Fields,     \* the fields an annotator fills in
    Texts,      \* what can be written in one
    Blank,      \* an empty field
    MaxStops    \* bound: stops of the server

Files == ToSet(Listing)

ASSUME NamedAssumption == Named \subseteq Files
ASSUME ListingAssumption == Listing \in Seq(Files)
ASSUME FieldsAssumption == IsFiniteSet(Fields)

VARIABLES
    disk,       \* content of each file
    stage,      \* where each request is
    ask,        \* the file and the fields it was sent
    unread,     \* files it has still to load
    draft,      \* the annotation it has loaded, and merged its fields into
    stops,      \* stops of the server so far
    acked,      \* history: each file as its finished requests left it
    disturbed   \* history: files with overlapping requests or a stop amid one

filesVars == <<disk, stage, ask, unread, draft, stops, acked, disturbed>>

Contents == {Blank} \cup Texts
Edits == UNION {[S -> Contents] : S \in SUBSET Fields \ {{}}}
BlankFields == [x \in Fields |-> Blank]

\* What a file holds: an annotation with or without its identity block; nothing
\* between the opening and the write; or a text over the rest of a longer one.
Template == [state |-> "whole", known |-> TRUE, fields |-> BlankFields]
Emptied == [state |-> "empty", known |-> FALSE, fields |-> BlankFields]
NoDraft == Emptied
NoAsk == [file |-> Listing[1], edit |-> BlankFields]

\* The length of a text, as far as one can be longer than another.
Length(content) ==
    Cardinality({x \in Fields : content.fields[x] # Blank})
      + (IF content.known THEN Cardinality(Fields) + 1 ELSE 0)

Busy(f) == {r \in Requests : stage[r] \in {"load", "save", "write"} /\ ask[r].file = f}

FilesInit ==
    /\ disk = [f \in Files |-> Template]
    /\ stage = [r \in Requests |-> "new"]
    /\ ask = [r \in Requests |-> NoAsk]
    /\ unread = [r \in Requests |-> <<>>]
    /\ draft = [r \in Requests |-> NoDraft]
    /\ stops = 0
    /\ acked = [f \in Files |-> BlankFields]
    /\ disturbed = {}

-----------------------------------------------------------------------------
(* update_annotation *)

FilesEnd(r, label) ==
    /\ stage' = [stage EXCEPT ![r] = label]
    /\ ask' = [ask EXCEPT ![r] = NoAsk]
    /\ unread' = [unread EXCEPT ![r] = <<>>]
    /\ draft' = [draft EXCEPT ![r] = NoDraft]

\* _find: a file whose name is known is loaded alone; otherwise all are.
PutAnnotation(r) ==
    /\ stage[r] = "new"
    /\ \E f \in Files, edit \in Edits :
         /\ ask' = [ask EXCEPT ![r] = [file |-> f, edit |-> edit]]
         /\ unread' = [unread EXCEPT ![r] = IF f \in Named THEN <<f>> ELSE Listing]
         /\ disturbed' = IF Busy(f) = {} THEN disturbed ELSE disturbed \cup {f}
    /\ stage' = [stage EXCEPT ![r] = "load"]
    /\ UNCHANGED <<disk, draft, stops, acked>>

\* load: an empty file is read as an annotation without identity; of a mixed
\* text the first part is read, unless it does not parse.
LoadFile(r) ==
    LET f == Head(unread[r])
    IN /\ stage[r] = "load" /\ unread[r] # <<>>
       /\ unread' = [unread EXCEPT ![r] = Tail(@)]
       /\ draft' = IF f = ask[r].file THEN [draft EXCEPT ![r] = [disk[f] EXCEPT !.state = "whole"]] ELSE draft
       /\ UNCHANGED <<disk, stage, ask, stops, acked, disturbed>>

CannotParse(r) ==
    /\ stage[r] = "load" /\ unread[r] # <<>>
    /\ disk[Head(unread[r])].state = "mixed"
    /\ FilesEnd(r, "error")
    /\ UNCHANGED <<disk, stops, acked, disturbed>>

\* A scan looks for the identifier that the files themselves state.
NotFound(r) ==
    /\ stage[r] = "load" /\ unread[r] = <<>>
    /\ ask[r].file \notin Named /\ ~ draft[r].known
    /\ FilesEnd(r, "missing")
    /\ UNCHANGED <<disk, stops, acked, disturbed>>

\* Mutant: fields that were not sent are reset.
MergeEdit_Everything(fields, edit) ==
    [x \in Fields |-> IF x \in DOMAIN edit THEN edit[x] ELSE Blank]

\* apply_updates: only the fields that were sent.
MergeEdit(fields, edit) ==
    [x \in Fields |-> IF x \in DOMAIN edit THEN edit[x] ELSE fields[x]]

ApplyUpdates(r) ==
    /\ stage[r] = "load" /\ unread[r] = <<>>
    /\ ask[r].file \in Named \/ draft[r].known
    /\ draft' = [draft EXCEPT ![r].fields = MergeEdit(@, ask[r].edit)]
    /\ stage' = [stage EXCEPT ![r] = "save"]
    /\ UNCHANGED <<disk, ask, unread, stops, acked, disturbed>>

\* save: the file is opened for writing, which empties it, ...
OpenForWriting(r) ==
    /\ stage[r] = "save"
    /\ disk' = [disk EXCEPT ![ask[r].file] = Emptied]
    /\ stage' = [stage EXCEPT ![r] = "write"]
    /\ UNCHANGED <<ask, unread, draft, stops, acked, disturbed>>

\* ... and then written from its start, over what another request has put there.
WriteFile(r) ==
    LET f == ask[r].file
    IN /\ stage[r] = "write"
       /\ disk' = [disk EXCEPT ![f] =
            [draft[r] EXCEPT !.state =
               IF disk[f].state = "mixed" \/ Length(disk[f]) > Length(draft[r]) THEN "mixed" ELSE "whole"]]
       /\ acked' = [acked EXCEPT ![f] = [x \in Fields |-> IF x \in DOMAIN ask[r].edit THEN ask[r].edit[x] ELSE @[x]]]
       /\ FilesEnd(r, "done")
       /\ UNCHANGED <<stops, disturbed>>

\* The server stops: every request in progress is gone.
ServerStops ==
    LET cut == {r \in Requests : stage[r] \in {"load", "save", "write"}}
    IN /\ cut # {} /\ stops < MaxStops
       /\ stops' = stops + 1
       /\ stage' = [r \in Requests |-> IF r \in cut THEN "cut" ELSE stage[r]]
       /\ ask' = [r \in Requests |-> IF r \in cut THEN NoAsk ELSE ask[r]]
       /\ unread' = [r \in Requests |-> IF r \in cut THEN <<>> ELSE unread[r]]
       /\ draft' = [r \in Requests |-> IF r \in cut THEN NoDraft ELSE draft[r]]
       /\ disturbed' = disturbed \cup {ask[r].file : r \in cut}
       /\ UNCHANGED <<disk, acked>>

FilesNext ==
    \/ \E r \in Requests : PutAnnotation(r) \/ LoadFile(r) \/ CannotParse(r) \/ NotFound(r)
                             \/ ApplyUpdates(r) \/ OpenForWriting(r) \/ WriteFile(r)
    \/ ServerStops

FilesSpec == FilesInit /\ [][FilesNext]_filesVars

-----------------------------------------------------------------------------
(* Properties *)

\* The fields an annotator was told are saved are the ones on disk, with the
\* identity of the paper, in every file whose requests never overlapped and were
\* never cut: what is lost is lost only to two saves at once or to a stop.
LostEditsNeedOverlap ==
    \A f \in Files :
      \/ f \in disturbed
      \/ \E r \in Busy(f) : stage[r] = "write"
      \/ disk[f] = [state |-> "whole", known |-> TRUE, fields |-> acked[f]]

-----------------------------------------------------------------------------
(* The invariant behind it *)

Annotations ==
    [state : {"whole", "empty", "mixed"}, known : BOOLEAN, fields : [Fields -> Contents]]

FilesTypes ==
    /\ disk \in [Files -> Annotations]
    /\ stage \in [Requests -> {"new", "load", "save", "write", "error", "missing", "done", "cut"}]
    /\ DOMAIN ask = Requests
    /\ \A r \in Requests : stage[r] \in {"load", "save", "write"} =>
           ask[r].file \in Files /\ ask[r].edit \in Edits
    /\ unread \in [Requests -> Seq(Files)]
    /\ draft \in [Requests -> Annotations]
    /\ acked \in [Files -> [Fields -> Contents]]
    /\ disturbed \subseteq Files

Saved(fields) == [state |-> "whole", known |-> TRUE, fields |-> fields]

\* Only one request is at a file that was never disturbed, and it has loaded what
\* the requests before it have left, or has still to come to it.
OneAtATime ==
    \A f \in Files \ disturbed :
      /\ \A r, s \in Busy(f) : r = s
      /\ \A r \in Busy(f) :
           /\ stage[r] = "load" =>
                disk[f] = Saved(acked[f]) /\ (f \in ToSet(unread[r]) \/ draft[r] = Saved(acked[f]))
           /\ stage[r] = "save" =>
                disk[f] = Saved(acked[f]) /\ draft[r] = Saved(MergeEdit(acked[f], ask[r].edit))
           /\ stage[r] = "write" =>
                disk[f] = Emptied /\ draft[r] = Saved(MergeEdit(acked[f], ask[r].edit))
      /\ Busy(f) = {} => disk[f] = Saved(acked[f])

FilesInv == FilesTypes /\ OneAtATime
=============================================================================
