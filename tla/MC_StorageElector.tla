------------------------- MODULE MC_StorageElector --------------------------
(* Two nodes, the clock of the second one ahead.                            *)
EXTENDS StorageElector, TLC

CONSTANTS n1, n2

MCNodes == {n1, n2}
OneAhead == n1 :> 0 @@ n2 :> 1
=============================================================================
