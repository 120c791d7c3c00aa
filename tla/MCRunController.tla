--------------------------- MODULE MCRunController ---------------------------
(* A run with two exact tools and ceilings that bind at different moments.  *)
EXTENDS RunController

CONSTANTS search, fetch
=============================================================================
