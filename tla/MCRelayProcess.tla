--------------------------- MODULE MCRelayProcess ---------------------------
(***************************************************************************)
(* RelayProcess for TLC: two database paths that lead to one file or two.  *)
(***************************************************************************)
EXTENDS RelayProcess

CONSTANTS f, g

Paths(first, second) == [d \in Databases |-> IF d = "candidates" THEN first ELSE second]
MCPlacements == {Paths(f, g), Paths(f, f)}
=============================================================================
