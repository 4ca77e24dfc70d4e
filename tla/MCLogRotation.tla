--------------------------- MODULE MCLogRotation ---------------------------
(* LogRotation for TLC. *)
EXTENDS LogRotation
=============================================================================
