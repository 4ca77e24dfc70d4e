---------------------------- MODULE MCWsManager ----------------------------
(* Small instances of WsManager.  The clients are interchangeable in the    *)
(* runs that check safety only.                                             *)
EXTENDS WsManager, TLC

CONSTANTS c1, c2, c3
MCClients2 == {c1, c2}
MCClients3 == {c1, c2, c3}
Symmetry2 == Permutations(MCClients2)
Symmetry3 == Permutations(MCClients3)
=============================================================================
