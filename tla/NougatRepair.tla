----------------------------- MODULE NougatRepair -----------------------------
(***************************************************************************)
(* normalize_nougat_markdown: the repair of what the OCR of a paper gets   *)
(* wrong in the structure of its text, pass by pass, over the lines of any *)
(* short text.  A line is only what the repair tells apart.                *)
(***************************************************************************)
EXTENDS Integers, Sequences, FiniteSets, SequencesExt, Subsequences

CONSTANTS
    MaxLines,         \* bound: lines of a text
    PseudocodeSpans   \* lines with math that make a listing an algorithm

Fence == "fence"        \* a line that starts with ```
Opening == "open"        \* \begin{tabular}
Closing == "close"      \* \end{tabular}
Float == "float"        \* \begin{table}, \end{table}: removed wherever it stands
Empty == "empty"
Prose == "prose"
Math == "math"          \* a line with a span of inline math

Lines == {Fence, Opening, Closing, Float, Empty, Prose, Math}

VARIABLES
    original,    \* the text as it was read
    markdown,    \* the text as repaired so far
    pass         \* the pass that comes next

repairVars == <<original, markdown, pass>>

Count(line, s) == Cardinality({i \in DOMAIN s : s[i] = line})
Before(s, i) == SubSeq(s, 1, i - 1)
Fenced(s, i) == s[i] # Fence /\ Count(Fence, Before(s, i)) % 2 = 1
Turn(line) == IF line = Opening THEN 1 ELSE IF line = Closing THEN -1 ELSE 0
Depth(s) == Count(Opening, s) - Count(Closing, s)

-----------------------------------------------------------------------------
(* The passes *)

\* A fence that is left open at the end is dropped.
PairFences(s) ==
    LET fences == {i \in DOMAIN s : s[i] = Fence}
    IN IF Cardinality(fences) % 2 = 0 THEN s
       ELSE RemoveAt(s, CHOOSE i \in fences : \A j \in fences : j <= i)

DropFloats(s) == [i \in DOMAIN s |-> IF s[i] = Float THEN Empty ELSE s[i]]

\* Mutant: only the end of the text closes a table.
CloseTables_AtTheEnd(s) ==
    IF Depth(s) > 0 THEN s \o [i \in 1..Depth(s) |-> Closing] \o <<Empty>> ELSE s

\* A table that is open at an empty line ends before it, if any lacks its end.
CloseAt(acc, line) ==
    LET depth == acc.depth + Turn(line)
        ends == depth > 0 /\ acc.lacks > 0 /\ line = Empty
    IN [out |-> acc.out \o (IF ends THEN <<Closing, line>> ELSE <<line>>),
        depth |-> IF ends THEN depth - 1 ELSE depth,
        lacks |-> IF ends THEN acc.lacks - 1 ELSE acc.lacks]

\* As many tables as lack their end are ended: each at the first empty line in
\* it, those that are left at the end of the text.
CloseTables(s) ==
    LET closed[n \in 0..Len(s)] ==
          IF n = 0 THEN [out |-> <<>>, depth |-> 0, lacks |-> Depth(s)] ELSE CloseAt(closed[n - 1], s[n])
        all == closed[Len(s)]
    IN IF all.lacks > 0 THEN all.out \o [i \in 1..all.lacks |-> Closing] \o <<Empty>> ELSE all.out

\* What comes before a table's end is taken for the table, whatever it is.
IsTable(acc, line) == acc.depth > 0 \/ (acc.fenced /\ line = Opening)

Toggles(acc, line) == acc.depth = 0 /\ line = Fence

\* Mutant: the fence is closed before the table and not opened again after it.
LiftAt_NotReopened(acc, line) ==
    [out |-> acc.out \o (IF IsTable(acc, line) /\ acc.depth = 0 THEN <<Fence, line>> ELSE <<line>>),
     fenced |-> IF Toggles(acc, line) THEN ~acc.fenced ELSE acc.fenced,
     depth |-> IF IsTable(acc, line) THEN acc.depth + Turn(line) ELSE acc.depth]

\* A fence is closed before a table that stands in it and opened again after.
LiftAt(acc, line) ==
    LET depth == IF IsTable(acc, line) THEN acc.depth + Turn(line) ELSE acc.depth
    IN [out |-> acc.out \o (IF acc.depth = 0 /\ depth > 0 THEN <<Fence, line>>
                            ELSE IF acc.depth > 0 /\ depth = 0 THEN <<line, Fence>> ELSE <<line>>),
        fenced |-> IF Toggles(acc, line) THEN ~acc.fenced ELSE acc.fenced,
        depth |-> depth]

LiftTables(s) ==
    LET lifted[n \in 0..Len(s)] ==
          IF n = 0 THEN [out |-> <<>>, fenced |-> FALSE, depth |-> 0] ELSE LiftAt(lifted[n - 1], s[n])
        all == lifted[Len(s)]
    IN IF all.depth > 0 THEN Append(all.out, Fence) ELSE all.out

\* The fences that open a listing, up to a place, and the last of them.
Starts(s, i) == {j \in DOMAIN s : s[j] = Fence /\ j <= i /\ Count(Fence, Before(s, j)) % 2 = 0}
Block(s, i) == CHOOSE j \in Starts(s, i) : \A k \in Starts(s, i) : k <= j

IsPseudocode(s, b) ==
    Cardinality({k \in DOMAIN s : s[k] = Math /\ Fenced(s, k) /\ Block(s, k) = b}) >= PseudocodeSpans

\* A fenced listing with enough math loses its fences.
UnfencePseudocode(s) ==
    [i \in DOMAIN s |-> IF s[i] = Fence /\ IsPseudocode(s, Block(s, i)) THEN Empty ELSE s[i]]

-----------------------------------------------------------------------------
(* The repair *)

RepairInit ==
    /\ original \in UNION {[1..n -> Lines] : n \in 0..MaxLines}
    /\ markdown = original
    /\ pass = "fences"

Pass(now, Repaired(_), next) ==
    /\ pass = now
    /\ markdown' = Repaired(markdown)
    /\ pass' = next
    /\ UNCHANGED original

RepairNext ==
    \/ Pass("fences", PairFences, "floats")
    \/ Pass("floats", DropFloats, "tables")
    \/ Pass("tables", CloseTables, "lift")
    \/ Pass("lift", LiftTables, "unfence")
    \/ Pass("unfence", UnfencePseudocode, "done")

RepairSpec == RepairInit /\ [][RepairNext]_repairVars

-----------------------------------------------------------------------------
(* Properties *)

\* What the reader of a page is to see, in its order.
Said(s) == Among(s, {Prose, Math, Opening})

WellNested(s) == \A i \in DOMAIN s : Depth(SubSeq(s, 1, i)) >= 0

\* A table has begun before a line, and only text has come since.
InTable(s, k) ==
    \E i \in 1 .. k - 1 : s[i] = Opening /\ \A j \in i + 1 .. k - 1 : s[j] \in {Prose, Math}

\* A table of a plain text stops, at its end or without it, before a fence or
\* another table begins, and there are no other ends.
Plain(s) ==
    \A k \in DOMAIN s :
        /\ s[k] \in {Opening, Fence} => ~InTable(s, k)
        /\ s[k] = Closing => InTable(s, k)

Tables(s) == {i \in DOMAIN s : s[i] \in {Opening, Closing}}
InListings(s) == {i \in Tables(s) : Fenced(s, i)}

\* The repair leaves no fence without its partner and no table without an end,
\* and text, formulas and tables as they were read.  In a plain text it also
\* puts every end where it belongs, and no part of a table is left in a listing.
TextIsRenderable ==
    pass = "done" =>
      /\ Count(Fence, markdown) % 2 = 0
      /\ Depth(markdown) <= 0
      /\ Said(markdown) = Said(original)
      /\ Plain(original) => Depth(markdown) = 0 /\ WellNested(markdown) /\ InListings(markdown) = {}
=============================================================================
