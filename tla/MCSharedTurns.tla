---------------------------- MODULE MCSharedTurns ----------------------------
(* Two nodes that share a session over two super-steps, with restarts. *)
EXTENDS SharedTurns
=============================================================================
