---------------------------- MODULE MCCommandRun ----------------------------
(* A command of a few chunks over a pipe and a channel that are soon full. *)
EXTENDS CommandRun
=============================================================================
