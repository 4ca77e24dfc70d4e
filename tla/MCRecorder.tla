----------------------------- MODULE MCRecorder -----------------------------
(* A small instance of Recorder; its two ports do not differ in anything.   *)
EXTENDS Recorder, TLC

CONSTANTS p1, p2

MCSymmetry == Permutations({p1, p2})
=============================================================================
