----------------------------- MODULE MCPipeline -----------------------------
(* Pipeline for TLC: runs whose objects have different lengths.              *)
EXTENDS Pipeline

MCPieces == [r \in Runs |-> IF r = "long" THEN 3 ELSE 2]
=============================================================================
