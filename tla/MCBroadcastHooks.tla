------------------------- MODULE MCBroadcastHooks -------------------------
(* BroadcastHooks for TLC: two ports, two bridges and two requests. *)
EXTENDS BroadcastHooks

CONSTANTS p1, p2, b1, b2, w1

MCPortOf == [s \in Session |-> IF s = b2 THEN p2 ELSE p1]
=============================================================================
