----------------------------- MODULE MCPipeline -----------------------------
(* Pipeline on the programs of MCPrograms. *)
EXTENDS Pipeline, MCPrograms
=============================================================================
