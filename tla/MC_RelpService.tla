--------------------------- MODULE MC_RelpService ---------------------------
(* Model-checking instance of RelpService. *)
EXTENDS RelpService

CONSTANTS p1, p2

MCParsers == {p1, p2}
=============================================================================
