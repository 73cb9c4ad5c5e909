-------------------------- MODULE MCPipelineEngine --------------------------
EXTENDS PipelineEngine, TLC

CONSTANTS f1, f2, f3, f4

\* One file larger than the reserve; a chunk closed by the number of its files,
\* one of them empty; and a last one.
FourFiles == <<f1, f2, f3, f4>>
Sizes == f1 :> 3 @@ f2 :> 1 @@ f3 :> 0 @@ f4 :> 1
=============================================================================
