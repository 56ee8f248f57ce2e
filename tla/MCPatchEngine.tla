--------------------------- MODULE MCPatchEngine ---------------------------
(* PatchEngine on small texts. *)
EXTENDS PatchEngine, TLC
============================================================================
