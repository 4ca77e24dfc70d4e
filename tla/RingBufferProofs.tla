-------------------------- MODULE RingBufferProofs --------------------------
(***************************************************************************)
(* The replay buffer keeps its promise for every capacity and every byte   *)
(* string: its invariant is inductive and it implements ReplayBuffer.      *)
(***************************************************************************)
EXTENDS RingBuffer, SequenceTheorems, TLAPS

\* A write position advanced by less than a whole turn wraps at most once: what
\* "end % capacity" computes in append.
LEMMA WrapOnce ==
    ASSUME NEW c \in Nat \ {0}, NEW e \in Nat, e < 2 * c
    PROVE  e % c = IF e < c THEN e ELSE e - c
<1>1. CASE e < c
  <2>1. e = c * 0 + e /\ 0 <= e /\ e < c
    BY <1>1
  <2> QED BY <2>1, <1>1, SMT
<1>2. CASE e >= c
  BY <1>2, SMTT(30)
<1> QED BY <1>1, <1>2

\* What AppendSmall does to the two positions, without the modulus.
LEMMA SmallPositions ==
    ASSUME TypeOK, NEW data \in Data, AppendSmall(data)
    PROVE  /\ Len(data) \in 1..(Capacity - 1)
           /\ write_pos' = IF write_pos + Len(data) < Capacity
                             THEN write_pos + Len(data)
                             ELSE write_pos + Len(data) - Capacity
           /\ length' = IF length + Len(data) < Capacity
                          THEN length + Len(data) ELSE Capacity
<1>1. Len(data) \in 1..(Capacity - 1)
  BY DEF AppendSmall
<1>2. PICK end \in Nat : end = write_pos + Len(data)
  BY <1>1, CapacityAssumption DEF TypeOK, Slot
<1>3. write_pos' = end % Capacity
  BY <1>2 DEF AppendSmall
<1>4. end < 2 * Capacity
  BY <1>1, <1>2, CapacityAssumption DEF TypeOK, Slot
<1>5. write_pos' = IF end < Capacity THEN end ELSE end - Capacity
  BY <1>3, <1>4, WrapOnce, CapacityAssumption, Zenon
<1>6. length' = IF length + Len(data) < Capacity
                  THEN length + Len(data) ELSE Capacity
  BY DEF AppendSmall
<1>7. write_pos' = IF write_pos + Len(data) < Capacity
                     THEN write_pos + Len(data)
                     ELSE write_pos + Len(data) - Capacity
  BY <1>1, <1>2, <1>5, CapacityAssumption DEF TypeOK, Slot
<1> QED BY <1>1, <1>6, <1>7, Zenon

\* The slices append assigns hold bytes only.
LEMMA WrittenType ==
    ASSUME TypeOK, NEW data \in Seq(Byte), Len(data) \in 1..(Capacity - 1)
    PROVE  Written(data) \in [Slot -> Byte]
<1> DEFINE first == Capacity - write_pos
<1> SUFFICES ASSUME NEW i \in Slot
             PROVE  (IF i >= write_pos
                       THEN IF i < write_pos + Len(data)
                              THEN data[i - write_pos + 1] ELSE buf[i]
                       ELSE IF i < Len(data) - first THEN data[first + i + 1]
                                                     ELSE buf[i]) \in Byte
  BY DEF Written
<1>1. buf[i] \in Byte
  BY DEF TypeOK
<1>2. \A k \in 1..Len(data) : data[k] \in Byte
  OBVIOUS
<1>3. ASSUME i >= write_pos, i < write_pos + Len(data)
      PROVE  i - write_pos + 1 \in 1..Len(data)
  BY <1>3, CapacityAssumption DEF TypeOK, Slot
<1>4. ASSUME i < write_pos, i < Len(data) - first
      PROVE  first + i + 1 \in 1..Len(data)
  BY <1>4, CapacityAssumption DEF TypeOK, Slot
<1>5. i >= write_pos \/ i < write_pos
  BY CapacityAssumption DEF TypeOK, Slot
<1> QED BY <1>1, <1>2, <1>3, <1>4, <1>5

\* The type and the filling order are preserved by every operation.
LEMMA InductiveStep == IInv /\ [Next]_vars => IInv'
<1> SUFFICES ASSUME IInv, [Next]_vars PROVE IInv'
  OBVIOUS
<1> USE CapacityAssumption
<1>0. TypeOK /\ FilledFromZero
  BY DEF IInv
<1>1. CASE Clear
  <2>1. TypeOK'
    BY <1>0, <1>1 DEF Clear, TypeOK, Slot
  <2>2. FilledFromZero'
    BY <1>1 DEF Clear, FilledFromZero
  <2> QED BY <2>1, <2>2 DEF IInv
<1>2. ASSUME NEW data \in Data, AppendBytes(data)
      PROVE  IInv'
  <2>1. data \in Seq(Byte)
    BY ByteAssumption
  <2>0. arg' \in Seq(Byte)
    BY <1>2, <2>1 DEF AppendBytes
  <2>2. CASE data = <<>> /\ UNCHANGED <<buf, write_pos, length>>
    BY <1>0, <2>0, <2>2 DEF IInv, TypeOK, FilledFromZero
  <2>3. CASE AppendLarge(data)
    <3>1. \A i \in Slot : Len(data) - Capacity + i + 1 \in 1..Len(data)
      BY <2>1, <2>3 DEF AppendLarge, Slot
    <3>2. buf' \in [Slot -> Byte]
      BY <2>1, <2>3, <3>1 DEF AppendLarge
    <3>3. write_pos' \in Slot /\ length' \in 0..Capacity /\ FilledFromZero'
      BY <2>3 DEF AppendLarge, Slot, FilledFromZero
    <3> QED BY <2>0, <3>2, <3>3 DEF IInv, TypeOK
  <2>4. CASE AppendSmall(data)
    <3>1. /\ Len(data) \in 1..(Capacity - 1)
          /\ write_pos' = IF write_pos + Len(data) < Capacity
                            THEN write_pos + Len(data)
                            ELSE write_pos + Len(data) - Capacity
          /\ length' = IF length + Len(data) < Capacity
                         THEN length + Len(data) ELSE Capacity
      BY <1>0, <2>4, SmallPositions
    <3>2. buf' \in [Slot -> Byte]
      BY <1>0, <2>1, <2>4, <3>1, WrittenType DEF AppendSmall
    <3>3. write_pos' \in Slot /\ length' \in 0..Capacity
      BY <1>0, <3>1 DEF TypeOK, Slot
    <3>4. FilledFromZero'
      BY <1>0, <3>1 DEF FilledFromZero, TypeOK, Slot
    <3> QED BY <2>0, <3>2, <3>3, <3>4 DEF IInv, TypeOK
  <2> QED BY <1>2, <2>2, <2>3, <2>4 DEF AppendBytes
<1>3. CASE UNCHANGED vars
  BY <1>0, <1>3 DEF vars, IInv, TypeOK, FilledFromZero
<1> QED BY <1>1, <1>2, <1>3 DEF Next

LEMMA InductiveInvariant == Spec => []IInv
<1>1. Init => IInv
  BY CapacityAssumption, ByteAssumption
  DEF Init, IInv, TypeOK, FilledFromZero, Slot
<1> QED BY <1>1, InductiveStep, PTL DEF Spec

THEOREM TypeCorrect == Spec => []TypeOK
<1>1. IInv => TypeOK
  BY DEF IInv
<1> QED BY <1>1, InductiveInvariant, PTL

THEOREM FilledFromZeroHolds == Spec => []FilledFromZero
<1>1. IInv => FilledFromZero
  BY DEF IInv
<1> QED BY <1>1, InductiveInvariant, PTL

-----------------------------------------------------------------------------
\* The slot read_all takes its i-th byte from, at write position w and length l.
SlotOf(w, l, i) == IF l < Capacity THEN i - 1
                   ELSE IF i <= Capacity - w THEN w + i - 1
                                             ELSE w + i - 1 - Capacity

\* What is known of the bytes read_all returns.
ReadAllFacts ==
    /\ ReadAll \in Seq(Byte)
    /\ Len(ReadAll) = length
    /\ \A i \in 1..length : SlotOf(write_pos, length, i) \in Slot /\ ReadAll[i] = buf[SlotOf(write_pos, length, i)]

LEMMA ReadAllIsSequence == TypeOK => ReadAllFacts
<1> SUFFICES ASSUME TypeOK PROVE ReadAllFacts
  OBVIOUS
<1> USE CapacityAssumption
<1>1. \A i \in 1..length : SlotOf(write_pos, length, i) \in Slot
  BY DEF TypeOK, Slot, SlotOf
<1>2. ReadAll = [i \in 1..length |-> buf[SlotOf(write_pos, length, i)]]
  <2>1. CASE length < Capacity
    BY <2>1 DEF ReadAll, SlotOf
  <2>2. CASE ~(length < Capacity)
    <3>1. length = Capacity
      BY <2>2 DEF TypeOK
    <3> QED BY <2>2, <3>1 DEF ReadAll, SlotOf
  <2> QED BY <2>1, <2>2
<1>3. \A i \in 1..length : buf[SlotOf(write_pos, length, i)] \in Byte
  BY <1>1 DEF TypeOK
<1>4. length \in Nat
  BY DEF TypeOK
<1>5. ReadAll \in Seq(Byte) /\ Len(ReadAll) = length
  BY <1>2, <1>3, <1>4
<1> QED BY <1>1, <1>2, <1>5 DEF ReadAllFacts

\* t is the last m bytes of s.
IsTail(t, s, m) == /\ t \in Seq(Byte)
                   /\ Len(t) = m
                   /\ \A i \in 1..m : t[i] = s[Len(s) - m + i]

\* How many bytes the abstract buffer keeps of l.
Kept(l) == IF l <= Capacity THEN l ELSE Capacity

\* The abstract append, element by element.
LEMMA LastNIsTail ==
    ASSUME NEW s \in Seq(Byte)
    PROVE  IsTail(Replay!LastN(s, Capacity), s, Kept(Len(s)))
<1> USE CapacityAssumption DEF Replay!LastN, IsTail, Kept
<1>1. CASE Len(s) <= Capacity
  BY <1>1
<1>2. CASE ~(Len(s) <= Capacity)
  <2>1. \A i \in 1..Capacity : s[Len(s) - Capacity + i] \in Byte
    BY <1>2
  <2> QED BY <1>2, <2>1
<1> QED BY <1>1, <1>2

\* A sequence that is the same tail of s is what the abstract append leaves.
LEMMA TailIsLastN ==
    ASSUME NEW s \in Seq(Byte), NEW t, IsTail(t, s, Kept(Len(s)))
    PROVE  t = Replay!LastN(s, Capacity)
<1> DEFINE u == Replay!LastN(s, Capacity)
<1>1. IsTail(u, s, Kept(Len(s)))
  BY LastNIsTail
<1> HIDE DEF u
<1>2. /\ t \in Seq(Byte) /\ u \in Seq(Byte) /\ Len(t) = Len(u)
      /\ \A i \in 1..Len(t) : t[i] = u[i]
  BY <1>1 DEF IsTail
<1>3. t = u
  BY <1>2, SeqEqual
<1> QED BY <1>3 DEF u

\* The positions before (w, l) and after (w1, l1) n bytes are appended.
Advanced(w, l, n, w1, l1) ==
    /\ l \in 0..Capacity /\ w \in 0..(Capacity - 1)
    /\ l < Capacity => w = l
    /\ n \in 1..(Capacity - 1)
    /\ l1 = IF l + n < Capacity THEN l + n ELSE Capacity
    /\ w1 = IF w + n < Capacity THEN w + n ELSE w + n - Capacity

\* j, the slot of the i-th byte after the append, against k, its index in the old
\* contents followed by the data: an old byte has not been overwritten and is
\* where it was, a new one is where the slices of append put it.
Located(w, l, n, k, j) ==
    /\ j \in Slot
    /\ k \in 1..(l + n)
    /\ k <= l => /\ j = SlotOf(w, l, k)
                /\ IF j >= w THEN ~(j < w + n)
                             ELSE ~(j < n - (Capacity - w))
    /\ k > l => IF j >= w THEN j < w + n /\ j - w + 1 = k - l
                         ELSE /\ j < n - (Capacity - w)
                              /\ Capacity - w + j + 1 = k - l

LEMMA SlotAfterAppend ==
    ASSUME NEW l, NEW w, NEW n, NEW l1, NEW w1, Advanced(w, l, n, w1, l1),
           NEW i \in 1..l1
    PROVE  Located(w, l, n, l + n - l1 + i, SlotOf(w1, l1, i))
<1> USE CapacityAssumption DEF SlotOf, Slot, Located, Advanced
<1>1. CASE l + n < Capacity
  BY <1>1
<1>2. CASE ~(l + n < Capacity) /\ l < Capacity
  BY <1>2
<1>3. CASE l = Capacity /\ w + n < Capacity
  BY <1>3
<1>4. CASE l = Capacity /\ ~(w + n < Capacity)
  BY <1>4
<1> QED BY <1>1, <1>2, <1>3, <1>4

\* The same for the buffer itself.
LEMMA AppendedElement ==
    ASSUME IInv, NEW data \in Data, AppendSmall(data), NEW i, i \in 1..length'
    PROVE  LET k == length + Len(data) - length' + i
           IN  /\ k \in 1..(length + Len(data))
               /\ buf'[SlotOf(write_pos', length', i)]
                    = IF k <= length THEN buf[SlotOf(write_pos, length, k)]
                                     ELSE data[k - length]
<1> DEFINE n == Len(data)
           k == length + n - length' + i
           j == SlotOf(write_pos', length', i)
<1>1. Advanced(write_pos, length, n, write_pos', length')
  BY SmallPositions DEF IInv, TypeOK, FilledFromZero, Slot, Advanced
<1>2. Located(write_pos, length, n, k, j)
  BY <1>1, SlotAfterAppend, Zenon
<1>3. length \in Nat /\ n \in Nat
  BY <1>1, CapacityAssumption DEF Advanced
<1> HIDE DEF n, k, j
<1>4. j \in Slot /\ k \in 1..(length + n)
  BY <1>2 DEF Located
<1>5. buf'[j] = IF j >= write_pos
                  THEN IF j < write_pos + n THEN data[j - write_pos + 1]
                                            ELSE buf[j]
                  ELSE IF j < n - (Capacity - write_pos)
                         THEN data[Capacity - write_pos + j + 1]
                         ELSE buf[j]
  BY <1>4 DEF AppendSmall, Written, n
<1>6. buf'[j] = IF k <= length THEN buf[SlotOf(write_pos, length, k)]
                               ELSE data[k - length]
  BY <1>2, <1>3, <1>4, <1>5 DEF Located
<1> QED BY <1>4, <1>6 DEF n, k, j

\* The old contents followed by the data.
LEMMA WholeFacts ==
    ASSUME ReadAllFacts, NEW data \in Data
    PROVE  LET whole == ReadAll \o data
           IN  /\ whole \in Seq(Byte) /\ Len(whole) = length + Len(data)
               /\ \A k \in 1..(length + Len(data)) :
                    whole[k] = IF k <= length THEN ReadAll[k]
                                              ELSE data[k - length]
  BY ByteAssumption, ConcatProperties DEF ReadAllFacts

LEMMA SmallStepRefines ==
    ASSUME IInv, IInv', ReadAllFacts, ReadAllFacts',
           NEW data \in Data, AppendSmall(data), arg' = data
    PROVE  Replay!AppendBytes(data)
<1> DEFINE whole == ReadAll \o data
<1> USE CapacityAssumption
<1>1. /\ length \in Nat /\ length' \in Nat /\ Len(data) \in Nat
      /\ length' = Kept(length + Len(data))
  BY SmallPositions DEF IInv, TypeOK, Kept
<1>2. /\ whole \in Seq(Byte) /\ Len(whole) = length + Len(data)
      /\ \A k \in 1..(length + Len(data)) :
           whole[k] = IF k <= length THEN ReadAll[k] ELSE data[k - length]
  BY WholeFacts
<1> HIDE DEF whole
<1>3. ASSUME NEW i \in Nat, i \in 1..length'
      PROVE  ReadAll'[i] = whole[length + Len(data) - length' + i]
  <2> DEFINE k == length + Len(data) - length' + i
  <2>1. ReadAll'[i] = buf'[SlotOf(write_pos', length', i)]
    BY <1>3 DEF ReadAllFacts
  <2>2. /\ k \in 1..(length + Len(data))
        /\ buf'[SlotOf(write_pos', length', i)]
             = IF k <= length THEN buf[SlotOf(write_pos, length, k)]
                              ELSE data[k - length]
    BY <1>3, AppendedElement
  <2> HIDE DEF k
  <2>3. k <= length => ReadAll[k] = buf[SlotOf(write_pos, length, k)]
    BY <1>1, <2>2 DEF ReadAllFacts
  <2>4. ReadAll'[i] = whole[k]
    BY <1>2, <2>1, <2>2, <2>3
  <2> QED BY <2>4 DEF k
<1>4. IsTail(ReadAll', whole, Kept(Len(whole)))
  <2>1. ReadAll' \in Seq(Byte) /\ Len(ReadAll') = length'
    BY DEF ReadAllFacts
  <2>2. ASSUME NEW i \in Nat, i \in 1..length'
        PROVE  ReadAll'[i] = whole[Len(whole) - length' + i]
    <3>1. ReadAll'[i] = whole[length + Len(data) - length' + i]
      BY <1>3, <2>2
    <3> QED BY <1>1, <1>2, <3>1
  <2>3. \A i \in 1..length' : i \in Nat
    BY <1>1
  <2> QED BY <1>1, <1>2, <2>1, <2>2, <2>3 DEF IsTail
<1>5. ReadAll' = Replay!LastN(whole, Capacity)
  BY <1>2, <1>4, TailIsLastN
<1> QED BY <1>5 DEF Replay!AppendBytes, whole

LEMMA LargeStepRefines ==
    ASSUME IInv, IInv', ReadAllFacts, ReadAllFacts',
           NEW data \in Data, AppendLarge(data), arg' = data
    PROVE  Replay!AppendBytes(data)
<1> DEFINE whole == ReadAll \o data
<1> USE CapacityAssumption
<1>1. /\ length \in Nat /\ Len(data) \in Nat /\ Len(data) >= Capacity
      /\ length' = Capacity /\ write_pos' = 0
  BY ByteAssumption DEF AppendLarge, IInv, TypeOK
<1>2. /\ whole \in Seq(Byte) /\ Len(whole) = length + Len(data)
      /\ \A k \in 1..(length + Len(data)) :
           whole[k] = IF k <= length THEN ReadAll[k] ELSE data[k - length]
  BY WholeFacts
<1> HIDE DEF whole
<1>3. ASSUME NEW i \in 1..Capacity
      PROVE  ReadAll'[i] = whole[Len(whole) - Capacity + i]
  <2>1. ReadAll'[i] = buf'[i - 1]
    BY <1>1 DEF ReadAllFacts, SlotOf
  <2>2. i - 1 \in Slot
    BY DEF Slot
  <2>3. buf'[i - 1] = data[Len(data) - Capacity + i]
    BY <1>1, <2>2 DEF AppendLarge
  <2>4. whole[Len(whole) - Capacity + i] = data[Len(data) - Capacity + i]
    BY <1>1, <1>2
  <2> QED BY <2>1, <2>3, <2>4
<1>4. Kept(Len(whole)) = Capacity
  BY <1>1, <1>2 DEF Kept
<1>5. IsTail(ReadAll', whole, Kept(Len(whole)))
  BY <1>1, <1>3, <1>4 DEF ReadAllFacts, IsTail
<1>6. ReadAll' = Replay!LastN(whole, Capacity)
  BY <1>2, <1>5, TailIsLastN
<1> QED BY <1>6 DEF Replay!AppendBytes, whole

\* An empty append leaves the bytes a replay delivers alone, as the abstract one
\* does.
LEMMA EmptyStepRefines ==
    ASSUME IInv, ReadAllFacts, arg' = <<>>, UNCHANGED <<buf, write_pos, length>>
    PROVE  Replay!AppendBytes(<<>>)
<1>1. ReadAll' = ReadAll
  BY DEF ReadAll
<1>2. ReadAll \o <<>> = ReadAll /\ Len(ReadAll) <= Capacity
  BY CapacityAssumption, ConcatEmptySeq DEF ReadAllFacts, IInv, TypeOK
<1>3. Replay!LastN(ReadAll \o <<>>, Capacity) = ReadAll
  BY <1>2 DEF Replay!LastN
<1> QED BY <1>1, <1>3 DEF Replay!AppendBytes

\* Every operation of the ring buffer is the operation of the abstract buffer
\* with the same argument.
LEMMA StepRefines ==
    IInv /\ IInv' /\ ReadAllFacts /\ ReadAllFacts' /\ [Next]_vars
      => [Replay!Next]_(Replay!vars)
<1> SUFFICES ASSUME IInv, IInv', ReadAllFacts, ReadAllFacts', [Next]_vars
             PROVE  [Replay!Next]_(Replay!vars)
  OBVIOUS
<1>1. CASE Clear
  <2>1. length' = 0 /\ arg' = <<>>
    BY <1>1 DEF Clear
  <2>2. ReadAll' = <<>>
    BY <2>1 DEF ReadAllFacts
  <2> QED BY <2>1, <2>2 DEF Replay!Next, Replay!Clear
<1>2. ASSUME NEW data \in Data, AppendBytes(data)
      PROVE  [Replay!Next]_(Replay!vars)
  <2>1. arg' = data
    BY <1>2 DEF AppendBytes
  <2>2. CASE data = <<>> /\ UNCHANGED <<buf, write_pos, length>>
    BY <2>1, <2>2, EmptyStepRefines DEF Replay!Next
  <2>3. CASE AppendLarge(data)
    BY <2>1, <2>3, LargeStepRefines DEF Replay!Next
  <2>4. CASE AppendSmall(data)
    BY <2>1, <2>4, SmallStepRefines DEF Replay!Next
  <2> QED BY <1>2, <2>2, <2>3, <2>4 DEF AppendBytes
<1>3. CASE UNCHANGED vars
  BY <1>3 DEF vars, ReadAll, Replay!vars
<1> QED BY <1>1, <1>2, <1>3 DEF Next

\* For every capacity, byte set and sequence of appends and clears, what read_all
\* returns is the last Capacity bytes appended since the last clear.
THEOREM ReplayRefined == Spec => ReplayHoldsTheTail
<1>1. Init => Replay!Init
  BY CapacityAssumption DEF Init, Replay!Init, ReadAll
<1>2. IInv => ReadAllFacts
  BY ReadAllIsSequence DEF IInv
<1> QED BY <1>1, <1>2, StepRefines, InductiveInvariant, PTL
        DEF Spec, ReplayHoldsTheTail, Replay!Spec
=============================================================================
