--------------------------- MODULE MCSandboxProcess ---------------------------
(* SandboxProcess for TLC. *)
EXTENDS SandboxProcess

MCWalls == {1, None}
MCRedirects == {<<"descendant", Pipes>>}
=============================================================================
