--------------------------- MODULE MCPipelinePerf ---------------------------
(* PipelinePerf on the programs of MCPrograms. *)
EXTENDS PipelinePerf, MCPrograms
=============================================================================
