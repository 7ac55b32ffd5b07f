--------------------------- MODULE MCCorpusBatches ---------------------------
EXTENDS CorpusBatches, TLC

CONSTANTS r1, r2, p1, p2

\* Each of two papers cites the other, as versions of one work do.
MCCites == {<<p1, p2>>, <<p2, p1>>}

\* Runs of different kinds share nothing but the papers: only runs of one kind
\* are put side by side.  Evidence and exclusions do not matter to citations.
OneKind ==
    /\ \A q, r \in Runs : "off" \in {pc[q], pc[r]} \/ arg[q].kind = arg[r].kind
    /\ \A r \in Runs : Fetches(r) => excluded = {} /\ era = 0

Symmetric == Permutations(Runs) \cup Permutations(Papers)
=============================================================================
