--------------------------- MODULE MCPortManager ---------------------------
(* PortManager for TLC: the ports are interchangeable. *)
EXTENDS PortManager, TLC

Symmetry == Permutations(Port)
=============================================================================
