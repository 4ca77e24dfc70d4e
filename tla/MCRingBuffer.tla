---------------------------- MODULE MCRingBuffer ----------------------------
(* A small instance of RingBuffer: every byte string up to two bytes longer *)
(* than the buffer.                                                         *)
EXTENDS RingBuffer, SequencesExt

MCByte == {0, 1}
MCData == BoundedSeq(MCByte, Capacity + 2)
=============================================================================
