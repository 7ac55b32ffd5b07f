---------------------------- MODULE MCTextLayers ----------------------------
EXTENDS TextLayers, TLC

CONSTANTS r1, r2, r3, arxiv, core, bare, long, blank

\* Two batches of paragraphs, and none.
MCBatches == [t \in Texts |-> IF t = long THEN 2 ELSE 0]
Symmetric == Permutations(Runs)
=============================================================================
