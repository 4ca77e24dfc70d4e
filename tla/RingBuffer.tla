----------------------------- MODULE RingBuffer -----------------------------
(***************************************************************************)
(* serwebs.utils.RingBuffer: the circular byte buffer behind the session   *)
(* replay of a port.  WsManager.broadcast appends every chunk read from    *)
(* the device, WsManager.connect sends what ReadAll returns to the new     *)
(* client, WsManager.clear_buffer clears it when the port is closed.       *)
(***************************************************************************)
EXTENDS Integers, Sequences

CONSTANTS Capacity,   \* ring_buffer_size of the configuration
          Byte,       \* the values a byte can take
          Data        \* the byte strings append may be called with

\* The slice arithmetic of append needs at least one slot, and the byte array
\* starts filled with zeros.
ASSUME CapacityAssumption == Capacity \in Nat \ {0}
ASSUME ByteAssumption == 0 \in Byte /\ Data \subseteq Seq(Byte)

VARIABLES buf,        \* _buf, a bytearray of Capacity slots
          write_pos,  \* _write_pos, the slot the next byte goes to
          length,     \* _length, how many slots hold data
          arg         \* the argument of the last call, <<>> for clear

vars == <<buf, write_pos, length, arg>>

Slot == 0..(Capacity - 1)

Init == /\ buf = [i \in Slot |-> 0]
        /\ write_pos = 0
        /\ length = 0
        /\ arg = <<>>

-----------------------------------------------------------------------------
\* (A slip: the write position is not reset.)
MutAppendLarge(data) ==
    /\ Len(data) >= Capacity
    /\ buf' = [i \in Slot |-> data[Len(data) - Capacity + i + 1]]
    /\ write_pos' = write_pos
    /\ length' = Capacity

\* append with at least Capacity bytes: only the tail of data is kept and the
\* write position is reset.
AppendLarge(data) ==
    /\ Len(data) >= Capacity
    /\ buf' = [i \in Slot |-> data[Len(data) - Capacity + i + 1]]
    /\ write_pos' = 0
    /\ length' = Capacity

\* buf after the slice assignments of append for less than Capacity bytes: one
\* slice when the data fits before the end, two when it wraps around.
Written(data) ==
    LET first == Capacity - write_pos
    IN  [i \in Slot |->
           IF i >= write_pos
             THEN IF i < write_pos + Len(data) THEN data[i - write_pos + 1]
                                               ELSE buf[i]
             ELSE IF i < Len(data) - first THEN data[first + i + 1]
                                           ELSE buf[i]]

\* append with less than Capacity bytes.
AppendSmall(data) ==
    LET end == write_pos + Len(data)
    IN  /\ Len(data) \in 1..(Capacity - 1)
        /\ buf' = Written(data)
        /\ write_pos' = end % Capacity
        /\ length' = IF length + Len(data) < Capacity
                       THEN length + Len(data) ELSE Capacity

\* Empty data returns at once and changes nothing.
AppendBytes(data) ==
    /\ arg' = data
    /\ \/ data = <<>> /\ UNCHANGED <<buf, write_pos, length>>
       \/ AppendLarge(data)
       \/ AppendSmall(data)

\* (A slip: only the length is reset.)
MutClear == /\ length' = 0
            /\ arg' = <<>> /\ UNCHANGED <<buf, write_pos>>

\* clear forgets the contents but leaves the old bytes in buf.
Clear == /\ write_pos' = 0
         /\ length' = 0
         /\ arg' = <<>>
         /\ UNCHANGED buf

\* The bytes read_all returns, oldest first.
ReadAll ==
    IF length < Capacity
      THEN [i \in 1..length |-> buf[i - 1]]
      ELSE [i \in 1..Capacity |->
              IF i <= Capacity - write_pos
                THEN buf[write_pos + i - 1]
                ELSE buf[write_pos + i - 1 - Capacity]]

Next == Clear \/ \E data \in Data : AppendBytes(data)

Spec == Init /\ [][Next]_vars

-----------------------------------------------------------------------------
(* Properties                                                              *)

\* Every variable has its type: the positions never leave the byte array.
TypeOK == /\ buf \in [Slot -> Byte]
          /\ write_pos \in Slot
          /\ length \in 0..Capacity
          /\ arg \in Seq(Byte)

\* Until it is full the buffer is filled from slot 0 up to the write position.
\* read_all relies on it when it returns buf[:length] without looking at the
\* write position.
FilledFromZero == length < Capacity => write_pos = length

\* The inductive invariant.
IInv == TypeOK /\ FilledFromZero

\* read_all returns the last Capacity bytes appended since the last clear,
\* whatever the sizes of the appends and wherever they wrapped.
Replay == INSTANCE ReplayBuffer WITH tail <- ReadAll
ReplayHoldsTheTail == Replay!Spec

=============================================================================
