------------------------- MODULE MCResourceRegistry -------------------------
(* Instances of ResourceRegistry for TLC. *)
EXTENDS ResourceRegistry

CONSTANTS n1, n2, n3, n4
=============================================================================
