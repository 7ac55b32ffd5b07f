-------------------------- MODULE MCPipelineControl --------------------------
(* A small instance: one pipeline with a run table and one without (whose   *)
(* process may take over a pid), two requests at a time.                    *)
EXTENDS PipelineControl, TLC

CONSTANTS extraction, retrieval_eval, p1, p2, p3, i1, i2, h1, h2

MCKeyOf == [p \in Procs |-> IF p = p3 THEN retrieval_eval ELSE extraction]
Symmetric == Permutations({p1, p2}) \cup Permutations({i1, i2})
=============================================================================
