---------------------------- MODULE MCDurableRun ----------------------------
(* Two agent nodes that share a tool-call budget; one tool is journaled.     *)
EXTENDS DurableRun

CONSTANTS n1, n2, c1, c2, c3

MCOwner == [c \in Calls |-> IF c = c1 THEN n1 ELSE n2]
=============================================================================
