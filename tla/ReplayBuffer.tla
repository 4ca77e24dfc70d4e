---------------------------- MODULE ReplayBuffer ----------------------------
(***************************************************************************)
(* What the replay buffer of a port promises to the clients that connect   *)
(* later: it holds the last Capacity bytes that were appended since it was *)
(* last cleared, oldest first.  RingBuffer implements this module.         *)
(***************************************************************************)
EXTENDS Naturals, Sequences

CONSTANTS Capacity,   \* bytes the buffer holds (ring_buffer_size)
          Data        \* the byte strings that may be appended

VARIABLES tail,       \* the bytes a replay would deliver now
          arg         \* the argument of the last call: what was appended

vars == <<tail, arg>>

\* The last n elements of s, or the whole of s when it is not longer.
LastN(s, n) ==
    IF Len(s) <= n THEN s ELSE [i \in 1..n |-> s[Len(s) - n + i]]

Init == tail = <<>> /\ arg = <<>>

AppendBytes(data) == /\ arg' = data
                     /\ tail' = LastN(tail \o data, Capacity)

Clear == arg' = <<>> /\ tail' = <<>>

Next == Clear \/ \E data \in Data : AppendBytes(data)

Spec == Init /\ [][Next]_vars
=============================================================================
