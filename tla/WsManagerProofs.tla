-------------------------- MODULE WsManagerProofs --------------------------
(***************************************************************************)
(* For any number of clients and chunks, any client limit and any size of  *)
(* the replay buffer.  Four invariants, each proved on top of the earlier: *)
(*                                                                         *)
(*   IInv      the history is in the order of reading however broadcasts   *)
(*             are suspended, and a close leaves neither clients nor       *)
(*             replay data behind; no loop over a list matters to it;      *)
(*   ListInv   (with ClientTypes) how the suspended loops, the lists that  *)
(*             shrink under them, the queues of the clients and what the   *)
(*             clients got fit together, whoever leaves;                   *)
(*   StreamInv until a client is taken off a list, nobody attached has a   *)
(*             gap in its replay or its live data;                         *)
(*   OrderInv  while no connection has gone, broadcasts do not overtake    *)
(*             each other.                                                 *)
(***************************************************************************)
EXTENDS WsManager, SequenceTheorems, FiniteSetTheorems, WellFoundedInduction, TLAPS

\* The variables of the history and of close_port have their type.
HistoryTypes ==
    /\ portOpen \in BOOLEAN /\ read \in Nat /\ closes \in Nat
    /\ log \in Seq(Nat) /\ pending \in Seq(Nat) /\ ring \in Seq(Nat)
    /\ closer = [loop |-> closer.loop, fence |-> closer.fence]
    /\ closer.loop.pc \in {"idle", "stopping", "sending", "closing"}

\* The log, and what is scheduled behind it, are the chunks as they were read.
InOrder ==
    /\ \A i \in 1..Len(log) : log[i] = i
    /\ \A i \in 1..Len(pending) : pending[i] = Len(log) + i
    /\ read = Len(log) + Len(pending)

\* The replay buffer is the end of the log; it is shorter than it could be only
\* after a close.
RingIsTail == \E n \in 0..RingCap : ring = LastN(log, n) /\ (closes = 0 => n = RingCap)

\* How far close_port has got, as long as nobody opens the port again.
CloseProgress ==
    /\ closer.loop.pc # "idle" => closes > 0
    /\ ~portOpen /\ closer.loop.pc = "stopping" => closer.fence = read
    /\ ~portOpen /\ closes > 0 /\ closer.loop.pc # "stopping" => pending = <<>>
    /\ ~portOpen /\ closes > 0 /\ closer.loop.pc \in {"idle", "closing"} => reg = 0
    /\ ~portOpen /\ closes > 0 /\ closer.loop.pc = "idle" => ring = <<>>

\* The inductive invariant of the history.
IInv == HistoryTypes /\ InOrder /\ RingIsTail /\ CloseProgress


-----------------------------------------------------------------------------
(* The invariants of the clients                                           *)

\* A loop over a list.
Loop == [pc : {"idle", "stopping", "sending", "closing", "done"},
         list : 0..MaxLists, idx : Nat, at : Client \cup {Closer},
         dead : SUBSET Client]

Suspended(loop) == loop.list \in ListId /\ loop.idx > 0 /\ loop.at \in Client

\* The variables that concern the clients have their type.
ClientTypes ==
    /\ portOpen \in BOOLEAN /\ departed \in BOOLEAN
    /\ read \in 0..MaxChunks /\ closes \in 0..MaxCloses
    /\ pending \in Seq(Chunk) /\ ring \in Seq(Chunk) /\ log \in Seq(Chunk)
    /\ lists \in [ListId -> Seq(Client)] /\ reg \in 0..MaxLists
    /\ bc \in [Chunk -> Loop]
    /\ \A k \in Chunk : /\ bc[k].pc \in {"idle", "sending", "done"}
                        /\ bc[k].pc = "sending" => Suspended(bc[k])
    /\ hnd \in [Client -> {"new", "replaying", "greeting", "open", "done", "crashed"}]
    /\ sock \in [Client -> {"up", "closing", "down"}]
    /\ paused \in [Client -> BOOLEAN] /\ waitq \in [Client -> Seq(Actor)]
    /\ closer \in [loop : Loop, fence : Nat]
    /\ closer.loop.pc \in {"idle", "stopping", "sending", "closing"}
    /\ closer.loop.pc \in {"sending", "closing"} => Suspended(closer.loop)
    /\ got \in [Client -> Seq(Chunk)] /\ replayed \in [Client -> Seq(Chunk)]
    /\ since \in [Client -> Nat]

\* No list has a client twice, and a client that has not connected is on none.
Distinct ==
    \A l \in ListId : \A i, j \in DOMAIN lists[l] :
       /\ i # j => lists[l][i] # lists[l][j]
       /\ hnd[lists[l][i]] # "new"

\* A broadcast has begun when its chunk is in the log; nobody has a chunk of one
\* that has not, and a client that has not connected has none.
Begun ==
    /\ \A k \in Chunk : bc[k].pc = "idle" <=> k > Len(log)
    /\ \A c \in Client : /\ \A i \in DOMAIN got[c] : got[c][i] <= Len(log)
                         /\ hnd[c] = "new" => got[c] = <<>>

\* A suspended broadcast has written to nobody beyond the index it is at.
Ahead ==
    \A k \in Chunk : bc[k].pc = "sending" =>
       \A p \in DOMAIN lists[bc[k].list] :
          p > bc[k].idx => k \notin Members(got[lists[bc[k].list][p]])

\* No more than one place of a sequence has x.
Once(s, x) == \A a, b \in DOMAIN s : s[a] = x /\ s[b] = x => a = b

\* The broadcasts that stand in line for a client are those suspended at it.
InLine ==
    \A c \in Client : \A k \in Chunk :
       /\ k \in Members(waitq[c]) <=> bc[k].pc = "sending" /\ bc[k].at = c
       /\ Once(waitq[c], k)

\* What holds of the lists, the queues and what clients got, whoever leaves.
ListInv == Distinct /\ Begun /\ Ahead /\ InLine /\ AtMostOnceLive
           /\ NoLeakedRegistration /\ ClientLimit

\* Until a client is taken off a list: everyone attached is registered, has the replay
\* from before it was, and has every chunk whose broadcast has passed its place.
StreamInv ==
    ~departed =>
       /\ closes = 0
       /\ reg # 0 => lists[reg] # <<>>
       /\ \A k \in Chunk : bc[k].pc = "sending" => bc[k].list = reg
       /\ \A c \in Client : Attached(c) =>
             /\ c \in Registered /\ since[c] <= Len(log)
             /\ \A k \in Chunk : k <= since[c] /\ since[c] < k + RingCap => k \in Members(replayed[c])
             /\ \A k \in Chunk : \A p \in DOMAIN lists[reg] :
                   /\ lists[reg][p] = c /\ since[c] < k
                   /\ \/ bc[k].pc = "done"
                      \/ bc[k].pc = "sending" /\ p <= bc[k].idx
                   => k \in Members(got[c])

\* No connection has gone.
AllUp == \A c \in Client : sock[c] = "up"

\* x stands before y in s.
Before(s, x, y) == \E a, b \in DOMAIN s : a < b /\ s[a] = x /\ s[b] = y

\* While no connection has gone, an earlier broadcast is ahead of a later one: further
\* down the list, or at the same client and before it in the line there.
OrderInv ==
    AllUp =>
       /\ reg # 0 => lists[reg] # <<>>
       /\ closer.loop.pc # "closing"
       /\ closer.loop.pc = "sending" => closer.loop.list = reg /\ closer.loop.dead = {}
       /\ \A k \in Chunk : bc[k].pc = "sending" =>
             /\ bc[k].list = reg /\ bc[k].dead = {} /\ bc[k].idx \in DOMAIN lists[reg]
             /\ bc[k].at = lists[reg][bc[k].idx]
       /\ \A k1, k2 \in Chunk : k1 < k2 =>
             /\ bc[k2].pc = "done" => bc[k1].pc = "done"
             /\ bc[k1].pc = "sending" /\ bc[k2].pc = "sending" =>
                   /\ bc[k1].idx >= bc[k2].idx
                   /\ bc[k1].idx = bc[k2].idx => Before(waitq[bc[k1].at], k1, k2)
       /\ \A c \in Client : Strictly(got[c])

-----------------------------------------------------------------------------
(* The end of a sequence                                                   *)

\* LastN(s, n) has the last n elements of s, or all of them.
LEMMA LastNProperties ==
    ASSUME NEW s \in Seq(Nat), NEW n \in Nat
    PROVE  LET t == LastN(s, n)
               k == IF Len(s) <= n THEN Len(s) ELSE n
           IN  /\ t \in Seq(Nat) /\ Len(t) = k
               /\ \A i \in 1..k : t[i] = s[Len(s) - k + i]
<1>1. Len(s) \in Nat /\ \A i \in 1..Len(s) : s[i] \in Nat
  BY LenProperties, ElementOfSeq
<1>2. CASE Len(s) <= n
  BY <1>1, <1>2 DEF LastN
<1>3. CASE ~(Len(s) <= n)
  <2>1. LastN(s, n) = SubSeq(s, Len(s) - n + 1, Len(s))
    BY <1>3 DEF LastN
  <2>2. /\ Len(s) - n + 1 \in Int /\ Len(s) \in Int
        /\ \A i \in Len(s) - n + 1..Len(s) : s[i] \in Nat
        /\ (Len(s) - (Len(s) - n + 1)) + 1 = n
    BY <1>1, <1>3
  <2>3. /\ LastN(s, n) \in Seq(Nat) /\ Len(LastN(s, n)) = n
        /\ \A i \in 1..n : LastN(s, n)[i] = s[Len(s) - n + 1 + i - 1]
    <3> DEFINE a == Len(s) - n + 1  b == Len(s)
    <3>1. a \in Int /\ b \in Int /\ \A i \in a..b : s[i] \in Nat
      BY <2>2
    <3>2. b - a + 1 = n
      BY <2>2
    <3>3. n = 0 => ~(a <= b)
      BY <1>1
    <3>4. n # 0 => a <= b
      BY <1>1
    <3> HIDE DEF a, b
    <3>5. /\ SubSeq(s, a, b) \in Seq(Nat)
          /\ Len(SubSeq(s, a, b)) = IF a <= b THEN b - a + 1 ELSE 0
          /\ \A i \in 1..b - a + 1 : SubSeq(s, a, b)[i] = s[a + i - 1]
      BY <3>1, SubSeqProperties
    <3>6. LastN(s, n) = SubSeq(s, a, b)
      BY <2>1 DEF a, b
    <3> QED BY <3>2, <3>3, <3>4, <3>5, <3>6 DEF a
  <2>4. \A i \in 1..n : Len(s) - n + 1 + i - 1 = Len(s) - n + i
    BY <1>1
  <2> QED BY <1>3, <2>3, <2>4
<1> QED BY <1>2, <1>3

\* Appending to the end of a log, and keeping the last cap elements, gives the end
\* of the longer log.
LEMMA TailOfAppend ==
    ASSUME NEW s \in Seq(Nat), NEW cap \in Nat, NEW n \in 0..cap, NEW x \in Nat
    PROVE  \E m \in 0..cap : /\ LastN(Append(LastN(s, n), x), cap) = LastN(Append(s, x), m)
                             /\ n = cap => m = cap
<1> DEFINE t == LastN(s, n)
           u == Append(t, x)
           v == Append(s, x)
           m == IF n = cap THEN cap ELSE n + 1
<1>1. /\ t \in Seq(Nat) /\ Len(s) \in Nat /\ n \in Nat /\ Len(t) \in Nat
      /\ Len(t) = IF Len(s) <= n THEN Len(s) ELSE n
      /\ \A i \in 1..Len(t) : t[i] = s[Len(s) - Len(t) + i]
  <2>1. n \in Nat /\ Len(s) \in Nat
    BY LenProperties
  <2> DEFINE h == IF Len(s) <= n THEN Len(s) ELSE n
  <2>2. /\ t \in Seq(Nat) /\ Len(t) = h
        /\ \A i \in 1..h : t[i] = s[Len(s) - h + i]
    BY <2>1, LastNProperties
  <2> HIDE DEF t, h
  <2>3. \A i \in 1..Len(t) : t[i] = s[Len(s) - Len(t) + i]
    BY <2>2
  <2> QED BY <2>1, <2>2, <2>3, LenProperties DEF h
<1> HIDE DEF t
<1>2. /\ u \in Seq(Nat) /\ Len(u) = Len(t) + 1 /\ u[Len(t) + 1] = x
      /\ \A i \in 1..Len(t) : u[i] = t[i]
  BY <1>1, AppendProperties
<1>3. /\ v \in Seq(Nat) /\ Len(v) = Len(s) + 1 /\ v[Len(s) + 1] = x
      /\ \A i \in 1..Len(s) : v[i] = s[i]
  BY AppendProperties
<1>4. m \in 0..cap /\ m \in Nat /\ (n = cap => m = cap)
  OBVIOUS
<1> DEFINE k == IF Len(u) <= cap THEN Len(u) ELSE cap
           j == IF Len(v) <= m THEN Len(v) ELSE m
<1>5. /\ LastN(u, cap) \in Seq(Nat) /\ Len(LastN(u, cap)) = k
      /\ \A i \in 1..k : LastN(u, cap)[i] = u[Len(u) - k + i]
  BY <1>2, LastNProperties
<1>6. /\ LastN(v, m) \in Seq(Nat) /\ Len(LastN(v, m)) = j
      /\ \A i \in 1..j : LastN(v, m)[i] = v[Len(v) - j + i]
  BY <1>3, <1>4, LastNProperties
<1>7. k = j /\ k \in Nat /\ Len(u) - k \in Nat /\ k <= Len(t) + 1 /\ Len(t) <= Len(s)
  BY <1>1, <1>2, <1>3
<1> HIDE DEF u, v, m, k, j
<1>8. ASSUME NEW i \in 1..k
      PROVE  u[Len(u) - k + i] = v[Len(v) - k + i]
  <2> DEFINE a == Len(u) - k + i
  <2>1. /\ a \in 1..Len(t) + 1 /\ Len(v) - k + i = Len(s) - Len(t) + a
        /\ a \in 1..Len(t) \/ a = Len(t) + 1
    <3>1. /\ Len(u) = Len(t) + 1 /\ Len(v) = Len(s) + 1
          /\ Len(t) \in Nat /\ Len(s) \in Nat /\ k \in Nat /\ k <= Len(t) + 1
      BY <1>1, <1>2, <1>3, <1>7
    <3> QED BY <3>1
  <2> HIDE DEF a
  <2>2. CASE a = Len(t) + 1
    <3>1. Len(v) - k + i = Len(s) + 1
      BY <2>1, <2>2, <1>1
    <3>2. u[a] = x /\ v[Len(s) + 1] = x
      BY <2>2, <1>2, <1>3
    <3> QED BY <3>1, <3>2 DEF a
  <2>3. CASE a \in 1..Len(t)
    <3>1. u[a] = s[Len(s) - Len(t) + a]
      BY <2>3, <1>1, <1>2
    <3>2. Len(s) - Len(t) + a \in 1..Len(s)
      BY <2>3, <1>1, <1>7
    <3>3. u[a] = v[Len(s) - Len(t) + a]
      BY <3>1, <3>2, <1>3
    <3> QED BY <2>1, <3>3 DEF a
  <2> QED BY <2>1, <2>2, <2>3
<1>9. LastN(u, cap) = LastN(v, m)
  <2>1. \A i \in 1..k : LastN(u, cap)[i] = LastN(v, m)[i]
    BY <1>5, <1>6, <1>7, <1>8
  <2>2. Len(LastN(u, cap)) = k /\ Len(LastN(v, m)) = k
    BY <1>5, <1>6, <1>7
  <2> QED BY <2>1, <2>2, <1>5, <1>6, SeqEqual
<1> QED BY <1>4, <1>9 DEF t, u, v

\* Nothing is the end of any log.
LEMMA EmptyTail ==
    ASSUME NEW s \in Seq(Nat)
    PROVE  LastN(s, 0) = <<>>
<1>1. LastN(s, 0) \in Seq(Nat) /\ Len(LastN(s, 0)) = IF Len(s) <= 0 THEN Len(s) ELSE 0
  BY LastNProperties
<1>2. Len(s) \in Nat
  BY LenProperties
<1>3. Len(LastN(s, 0)) = 0
  BY <1>1, <1>2
<1> QED BY <1>1, <1>3, EmptySeq

-----------------------------------------------------------------------------
(* The steps                                                               *)

\* A step that touches neither the history nor close_port and registers nobody
\* while the port is closed.
LEMMA OthersKeep ==
    ASSUME IInv,
           UNCHANGED <<portOpen, read, pending, ring, log, closer, closes>>,
           reg' = reg \/ reg' = 0 \/ portOpen
    PROVE  IInv'
BY DEF IInv, HistoryTypes, InOrder, RingIsTail, CloseProgress

\* A chunk is read.
LEMMA SyncKeeps ==
    ASSUME IInv, BroadcastSync
    PROVE  IInv'
<1>1. /\ portOpen /\ read' = read + 1 /\ pending' = Append(pending, read + 1)
      /\ UNCHANGED <<portOpen, ring, log, reg, closer, closes>>
  BY DEF BroadcastSync
<1>2. HistoryTypes /\ InOrder /\ RingIsTail /\ CloseProgress
  BY DEF IInv
<1>3. /\ pending \in Seq(Nat) /\ Len(pending) \in Nat /\ log \in Seq(Nat) /\ Len(log) \in Nat
      /\ read \in Nat /\ read + 1 \in Nat
  BY <1>2, LenProperties DEF HistoryTypes
<1>4. /\ pending' \in Seq(Nat) /\ Len(pending') = Len(pending) + 1
      /\ pending'[Len(pending) + 1] = read + 1
      /\ \A i \in 1..Len(pending) : pending'[i] = pending[i]
  BY <1>1, <1>3, AppendProperties
<1>5. HistoryTypes'
  BY <1>1, <1>2, <1>3, <1>4 DEF HistoryTypes
<1>6. InOrder'
  <2>1. \A i \in 1..Len(pending') : i \in 1..Len(pending) \/ i = Len(pending) + 1
    BY <1>3, <1>4
  <2>2. \A i \in 1..Len(pending') : pending'[i] = Len(log) + i
    <3> SUFFICES ASSUME NEW i \in 1..Len(pending') PROVE pending'[i] = Len(log) + i
      OBVIOUS
    <3>1. CASE i \in 1..Len(pending)
      BY <3>1, <1>2, <1>4 DEF InOrder
    <3>2. CASE i = Len(pending) + 1
      <4>1. read = Len(log) + Len(pending) /\ pending'[i] = read + 1
        BY <3>2, <1>2, <1>4 DEF InOrder
      <4> QED BY <3>2, <4>1, <1>3
    <3> QED BY <3>1, <3>2, <2>1
  <2>3. log' = log /\ read' = Len(log) + Len(pending')
    BY <1>1, <1>2, <1>3, <1>4 DEF InOrder
  <2> QED BY <2>2, <2>3, <1>2 DEF InOrder
<1>7. RingIsTail' /\ CloseProgress'
  BY <1>1, <1>2 DEF RingIsTail, CloseProgress
<1> QED BY <1>5, <1>6, <1>7 DEF IInv

\* A broadcast starts: the chunk it logs is the next one.
LEMMA StartKeeps ==
    ASSUME IInv, BroadcastStart
    PROVE  IInv'
<1> DEFINE k == Head(pending)
<1>1. /\ pending # <<>> /\ pending' = Tail(pending)
      /\ ring' = LastN(Append(ring, k), RingCap) /\ log' = Append(log, k)
      /\ UNCHANGED <<portOpen, read, reg, closer, closes>>
  BY DEF BroadcastStart
<1>2. HistoryTypes /\ InOrder /\ RingIsTail /\ CloseProgress
  BY DEF IInv
<1>3. /\ pending \in Seq(Nat) /\ Len(pending) \in Nat /\ log \in Seq(Nat) /\ Len(log) \in Nat
      /\ RingCap \in Nat
  BY <1>2, LenProperties, BoundsAssumption DEF HistoryTypes
<1>4. /\ k \in Nat /\ k = pending[1] /\ 1 \in 1..Len(pending)
      /\ pending' \in Seq(Nat) /\ Len(pending') = Len(pending) - 1
      /\ \A i \in 1..Len(pending') : pending'[i] = pending[i + 1]
  BY <1>1, <1>3, HeadTailProperties
<1>5. k = Len(log) + 1
  BY <1>2, <1>4, <1>3 DEF InOrder
<1> HIDE DEF k
<1>6. /\ log' \in Seq(Nat) /\ Len(log') = Len(log) + 1 /\ log'[Len(log) + 1] = k
      /\ \A i \in 1..Len(log) : log'[i] = log[i]
  BY <1>1, <1>3, <1>4, AppendProperties
<1>7. InOrder'
  <2>1. \A i \in 1..Len(log') : i \in 1..Len(log) \/ i = Len(log) + 1
    BY <1>3, <1>6
  <2>2. \A i \in 1..Len(log') : log'[i] = i
    BY <2>1, <1>2, <1>5, <1>6 DEF InOrder
  <2>3. ASSUME NEW i \in 1..Len(pending')
        PROVE  pending'[i] = Len(log') + i
    <3>1. i + 1 \in 1..Len(pending) /\ pending'[i] = pending[i + 1]
      BY <1>3, <1>4
    <3>2. pending'[i] = Len(log) + (i + 1)
      BY <3>1, <1>2 DEF InOrder
    <3> QED BY <3>2, <1>3, <1>6
  <2>4. read' = Len(log') + Len(pending')
    BY <1>1, <1>2, <1>3, <1>4, <1>6 DEF InOrder
  <2> QED BY <2>2, <2>3, <2>4 DEF InOrder
<1>8. RingIsTail' /\ ring' \in Seq(Nat)
  <2>1. PICK n \in 0..RingCap : ring = LastN(log, n) /\ (closes = 0 => n = RingCap)
    BY <1>2 DEF RingIsTail
  <2>2. PICK m \in 0..RingCap : /\ LastN(Append(LastN(log, n), k), RingCap) = LastN(Append(log, k), m)
                                /\ n = RingCap => m = RingCap
    BY <1>3, <1>4, TailOfAppend
  <2>3. ring' = LastN(log', m) /\ (closes' = 0 => m = RingCap)
    BY <1>1, <2>1, <2>2
  <2>4. m \in Nat
    BY <1>3
  <2> QED BY <2>3, <2>4, <1>6, LastNProperties DEF RingIsTail
<1>9. HistoryTypes'
  BY <1>1, <1>2, <1>4, <1>6, <1>8 DEF HistoryTypes
<1>10. CloseProgress'
  <2>1. ~(~portOpen /\ closes > 0 /\ closer.loop.pc # "stopping")
    BY <1>1, <1>2 DEF CloseProgress
  <2>2. closer.loop.pc \in {"idle", "closing"} => closer.loop.pc # "stopping"
    OBVIOUS
  <2> QED BY <1>1, <1>2, <2>1, <2>2 DEF CloseProgress
<1> QED BY <1>7, <1>8, <1>9, <1>10 DEF IInv

\* The port is closed: what was read so far is the fence.
LEMMA CloseKeeps ==
    ASSUME IInv, ClosePort
    PROVE  IInv'
<1>1. /\ portOpen' = FALSE /\ closes' = closes + 1
      /\ closer' = [loop |-> [Idle EXCEPT !.pc = "stopping"], fence |-> read]
      /\ UNCHANGED <<read, pending, ring, log, reg>>
  BY DEF ClosePort
<1>2. closer'.loop.pc = "stopping" /\ closer'.fence = read
      /\ closer' = [loop |-> closer'.loop, fence |-> closer'.fence]
  BY <1>1 DEF Idle
<1>3. closes' > 0 /\ closes' \in Nat /\ closes' # 0
  BY <1>1 DEF IInv, HistoryTypes
<1> QED BY <1>1, <1>2, <1>3 DEF IInv, HistoryTypes, InOrder, RingIsTail, CloseProgress

\* The port is opened again.
LEMMA OpenKeeps ==
    ASSUME IInv, OpenPort
    PROVE  IInv'
BY DEF OpenPort, IInv, HistoryTypes, InOrder, RingIsTail, CloseProgress

\* disconnect_all goes on, or begins with the list it took out of the dictionary:
\* nothing is scheduled any more while the port is closed, and at the end the replay
\* buffer is empty.
LEMMA CloseFromKeeps ==
    ASSUME IInv, NEW l, NEW i, CloseFrom(l, i), closer.loop.pc # "idle",
           UNCHANGED <<portOpen, read, pending, log, closes>>,
           ~portOpen => reg' = 0 /\ pending = <<>>
    PROVE  IInv'
<1>1. HistoryTypes /\ InOrder /\ RingIsTail /\ CloseProgress
  BY DEF IInv
<1>2. closes > 0 /\ closes # 0
  BY <1>1 DEF CloseProgress, HistoryTypes
<1>3. \/ closer' = [loop |-> Idle, fence |-> 0] /\ ring' = <<>>
      \/ /\ \E j : closer' = [loop |-> Closing(l, j, lists'[l][j]), fence |-> 0]
         /\ ring' = ring
  BY DEF CloseFrom
<1>4. /\ closer' = [loop |-> closer'.loop, fence |-> closer'.fence]
      /\ \/ closer'.loop.pc = "idle" /\ ring' = <<>>
         \/ closer'.loop.pc = "closing" /\ ring' = ring
  <2>1. CASE closer' = [loop |-> Idle, fence |-> 0] /\ ring' = <<>>
    BY <2>1 DEF Idle
  <2>2. ASSUME NEW j, closer' = [loop |-> Closing(l, j, lists'[l][j]), fence |-> 0], ring' = ring
        PROVE  /\ closer' = [loop |-> closer'.loop, fence |-> closer'.fence]
               /\ closer'.loop.pc = "closing"
    <3>1. closer'.loop = Closing(l, j, lists'[l][j]) /\ closer'.fence = 0
      BY <2>2
    <3>2. Closing(l, j, lists'[l][j]).pc = "closing"
      BY DEF Closing, Sending
    <3> QED BY <2>2, <3>1, <3>2
  <2> QED BY <2>1, <2>2, <1>3
<1>5. RingIsTail' /\ ring' \in Seq(Nat)
  <2>1. CASE ring' = ring
    BY <2>1, <1>1 DEF RingIsTail, HistoryTypes
  <2>2. CASE ring' = <<>>
    <3>1. LastN(log, 0) = <<>> /\ 0 \in 0..RingCap
      BY <1>1, EmptyTail, BoundsAssumption DEF HistoryTypes
    <3> QED BY <2>2, <3>1, <1>2 DEF RingIsTail
  <2> QED BY <2>1, <2>2, <1>4
<1>6. HistoryTypes'
  BY <1>1, <1>4, <1>5 DEF HistoryTypes
<1>7. InOrder'
  BY <1>1 DEF InOrder
<1>8. CloseProgress'
  BY <1>2, <1>4 DEF CloseProgress
<1> QED BY <1>5, <1>6, <1>7, <1>8 DEF IInv

\* The loop of broadcast_status goes on, or disconnect_all follows.
LEMMA StatusFromKeeps ==
    ASSUME IInv, NEW l, NEW i, NEW dead, NEW queues, StatusFrom(l, i, dead, queues),
           closer.loop.pc # "idle",
           UNCHANGED <<portOpen, read, pending, log, closes>>,
           ~portOpen => pending = <<>>
    PROVE  IInv'
<1>1. CASE DisconnectAll
  BY <1>1, CloseFromKeeps DEF DisconnectAll
<1>2. CASE ~DisconnectAll
  <2>1. /\ ~(StopAt(l, i) > Len(lists[l]))
        /\ closer' = [closer EXCEPT !.loop = LoopAfter(l, i, dead)]
        /\ UNCHANGED <<reg, ring>>
    BY <1>2 DEF StatusFrom
  <2>2. LoopAfter(l, i, dead).pc = "sending"
    BY <2>1 DEF LoopAfter, Sending
  <2>3. closer = [loop |-> closer.loop, fence |-> closer.fence]
    BY DEF IInv, HistoryTypes
  <2>4. closer' = [loop |-> LoopAfter(l, i, dead), fence |-> closer.fence]
    BY <2>1, <2>3
  <2>5. closer'.loop.pc = "sending" /\ closer' = [loop |-> closer'.loop, fence |-> closer'.fence]
    BY <2>2, <2>4
  <2>6. closes > 0
    BY DEF IInv, CloseProgress
  <2> QED BY <2>1, <2>5, <2>6 DEF IInv, HistoryTypes, InOrder, RingIsTail, CloseProgress
<1> QED BY <1>1, <1>2

\* The three steps of close_port.
LEMMA CloserKeeps ==
    ASSUME IInv, StatusStart \/ StatusResume \/ DisconnectResume
    PROVE  IInv'
<1>1. HistoryTypes /\ InOrder /\ CloseProgress
  BY DEF IInv
<1>2. CASE StatusStart
  <2>1. /\ closer.loop.pc = "stopping" /\ Len(log) >= closer.fence
        /\ UNCHANGED <<portOpen, read, pending, log, closes>>
        /\ DisconnectAll \/ StatusFrom(reg, 1, {}, waitq)
    BY <1>2 DEF StatusStart
  <2>2. ~portOpen => pending = <<>>
    <3> SUFFICES ASSUME ~portOpen PROVE pending = <<>>
      OBVIOUS
    <3>1. pending \in Seq(Nat) /\ Len(pending) \in Nat /\ Len(log) \in Nat
      BY <1>1, LenProperties DEF HistoryTypes
    <3>2. Len(log) >= read /\ read = Len(log) + Len(pending)
      BY <1>1, <2>1 DEF CloseProgress, InOrder
    <3>3. Len(pending) = 0
      BY <3>1, <3>2
    <3> QED BY <3>1, <3>3, EmptySeq
  <2>3. CASE DisconnectAll
    BY <2>1, <2>2, <2>3, CloseFromKeeps DEF DisconnectAll
  <2>4. CASE StatusFrom(reg, 1, {}, waitq)
    BY <2>1, <2>2, <2>4, StatusFromKeeps
  <2> QED BY <2>1, <2>3, <2>4
<1>3. CASE StatusResume
  <2> DEFINE b == closer.loop
  <2>1. /\ b.pc = "sending"
        /\ UNCHANGED <<portOpen, read, pending, log, closes>>
        /\ StatusFrom(b.list, b.idx + 1, DeadOf(b), Dequeued(b.at))
    BY <1>3 DEF StatusResume
  <2>2. ~portOpen => pending = <<>>
    BY <1>1, <2>1 DEF CloseProgress
  <2>3. b.pc # "idle"
    BY <2>1
  <2> QED BY <2>1, <2>2, <2>3, StatusFromKeeps
<1>4. CASE DisconnectResume
  <2>1. /\ closer.loop.pc = "closing"
        /\ UNCHANGED <<portOpen, read, pending, log, reg, closes>>
        /\ CloseFrom(closer.loop.list, closer.loop.idx + 1)
    BY <1>4 DEF DisconnectResume
  <2>2. ~portOpen => reg' = 0 /\ pending = <<>>
    BY <1>1, <2>1 DEF CloseProgress
  <2>3. closer.loop.pc # "idle"
    BY <2>1
  <2> QED BY <2>1, <2>2, <2>3, CloseFromKeeps
<1> QED BY <1>2, <1>3, <1>4

-----------------------------------------------------------------------------
\* The history, and the progress of a close, in every reachable state.
THEOREM Invariant == Spec => []IInv
<1>1. Init => IInv
  <2> SUFFICES ASSUME Init PROVE IInv
    OBVIOUS
  <2>1. LastN(<<>>, RingCap) = <<>> /\ RingCap \in 0..RingCap
    BY BoundsAssumption DEF LastN
  <2>2. HistoryTypes /\ CloseProgress
    BY DEF Init, HistoryTypes, CloseProgress, Idle
  <2>3. InOrder
    BY DEF Init, InOrder
  <2>4. RingIsTail
    BY <2>1 DEF Init, RingIsTail
  <2> QED BY <2>2, <2>3, <2>4 DEF IInv
<1>2. IInv /\ [Next]_vars => IInv'
  <2> SUFFICES ASSUME IInv, [Next]_vars PROVE IInv'
    OBVIOUS
  <2>1. CASE BroadcastSync
    BY <2>1, SyncKeeps
  <2>2. CASE BroadcastStart
    BY <2>2, StartKeeps
  <2>3. ASSUME NEW k \in Chunk, BroadcastResume(k) PROVE IInv'
    BY <2>3, OthersKeep DEF BroadcastResume
  <2>4. ASSUME NEW c \in Client, Connect(c) PROVE IInv'
    BY <2>4, OthersKeep DEF Connect, Admits
  <2>5. ASSUME NEW c \in Client, ConnectResume(c) PROVE IInv'
    BY <2>5, OthersKeep DEF ConnectResume
  <2>6. ASSUME NEW c \in Client, HandlerEnds(c) \/ HandlerFails(c) PROVE IInv'
    <3>1. reg' = reg \/ reg' = 0
      BY <2>6 DEF HandlerEnds, HandlerFails, Disconnect
    <3> QED BY <2>6, <3>1, OthersKeep DEF HandlerEnds, HandlerFails
  <2>7. ASSUME NEW c \in Client,
               Stall(c) \/ Drain(c) \/ WriteBegins(c) \/ WriteEnds(c) \/ ConnectionLost(c)
        PROVE  IInv'
    BY <2>7, OthersKeep DEF Stall, Drain, WriteBegins, WriteEnds, ConnectionLost
  <2>8. CASE ClosePort
    BY <2>8, CloseKeeps
  <2>9. CASE OpenPort
    BY <2>9, OpenKeeps
  <2>10. CASE StatusStart \/ StatusResume \/ DisconnectResume
    BY <2>10, CloserKeeps
  <2>11. CASE UNCHANGED vars
    BY <2>11, OthersKeep DEF vars
  <2> QED BY <2>1, <2>2, <2>3, <2>4, <2>5, <2>6, <2>7, <2>8, <2>9, <2>10, <2>11 DEF Next
<1> QED BY <1>1, <1>2, PTL DEF Spec

\* Whatever the suspensions and whatever closes overlap them, the session log has
\* the chunks in the order they were read and the replay buffer the end of it.
THEOREM HistoryInReadOrderHolds == Spec => []HistoryInReadOrder
<1>1. IInv => HistoryInReadOrder
  <2> SUFFICES ASSUME IInv PROVE HistoryInReadOrder
    OBVIOUS
  <2>1. log \in Seq(Nat) /\ \A i \in 1..Len(log) : log[i] = i
    BY DEF IInv, HistoryTypes, InOrder
  <2>2. log = [i \in 1..Len(log) |-> i]
    BY <2>1
  <2> QED BY <2>2 DEF IInv, RingIsTail, HistoryInReadOrder
<1> QED BY <1>1, Invariant, PTL

\* When close_port is over and nobody reopened the port, there is no replay data
\* and no registered client, whoever was in the middle of connecting or leaving.
THEOREM ClosedPortIsCleanHolds == Spec => []ClosedPortIsClean
<1>1. IInv => ClosedPortIsClean
  BY DEF IInv, CloseProgress, ClosedPortIsClean, Registered
<1> QED BY <1>1, Invariant, PTL

-----------------------------------------------------------------------------
(* Induction on the natural numbers, from the least element of a set       *)

\* Every set of natural numbers that is not empty has a least element.
LEMMA LeastNatural ==
    ASSUME NEW T, T \subseteq Nat, T # {}
    PROVE  \E x \in T : \A y \in T : x <= y
<1>1. PICK x \in T : \A y \in T : ~(<<y, x>> \in OpToRel(<, Nat))
  BY NatLessThanWellFounded, WFMin
<1>2. \A y \in T : <<y, x>> \in Nat \X Nat /\ (y < x => <<y, x>> \in OpToRel(<, Nat))
  BY DEF OpToRel
<1>3. \A y \in T : ~(y < x)
  BY <1>1, <1>2
<1> QED BY <1>3

\* A set that has 0 and the successor of each of its members has all numbers.
LEMMA SetInduction ==
    ASSUME NEW T, 0 \in T, \A n \in Nat : n \in T => n + 1 \in T
    PROVE  Nat \subseteq T
<1> SUFFICES ASSUME Nat \ T # {} PROVE FALSE
  OBVIOUS
<1>1. PICK x \in Nat \ T : \A y \in Nat \ T : x <= y
  BY LeastNatural
<1>2. x # 0 /\ x - 1 \in Nat /\ x - 1 \in T
  BY <1>1
<1> QED BY <1>1, <1>2

-----------------------------------------------------------------------------
(* Removing clients from a list                                            *)

\* t is s without some of its elements: an element moves towards the front or stays
\* where it is, and two elements keep their order.
Shrunk(t, s) ==
    /\ \A n \in DOMAIN t : \E i \in DOMAIN s : n <= i /\ t[n] = s[i]
    /\ \A m, n \in DOMAIN t : m < n =>
          \E i, j \in DOMAIN s : i < j /\ t[m] = s[i] /\ t[n] = s[j]

\* One step of the definition of Without.
WithoutStep(s, gone, f, n) ==
    IF n = 0 THEN <<>>
    ELSE IF s[n] \in gone THEN f[n - 1] ELSE Append(f[n - 1], s[n])

\* The recursive function in Without exists: Without(s, gone) is f[Len(s)] for an f
\* that is built up step by step.
LEMMA WithoutUnfolds ==
    ASSUME NEW S, NEW s \in Seq(S), NEW gone
    PROVE  \E f : /\ Without(s, gone) = f[Len(s)]
                  /\ \A n \in 0..Len(s) : f[n] = WithoutStep(s, gone, f, n)
<1> DEFINE Is(f, m) == f = [n \in 0..m |-> IF n = 0 THEN <<>>
                             ELSE IF s[n] \in gone THEN f[n - 1] ELSE Append(f[n - 1], s[n])]
           T == {m \in Nat : \E f : Is(f, m)}
<1>1. 0 \in T
  <2> DEFINE f == [n \in 0..0 |-> <<>>]
  <2>1. f = [n \in 0..0 |-> IF n = 0 THEN <<>>
                            ELSE IF s[n] \in gone THEN f[n - 1] ELSE Append(f[n - 1], s[n])]
    OBVIOUS
  <2> QED BY <2>1
<1>2. ASSUME NEW m \in Nat, m \in T
      PROVE  m + 1 \in T
  <2>1. PICK f : Is(f, m)
    BY <1>2
  <2> DEFINE g == [n \in 0..m + 1 |-> IF n <= m THEN f[n] ELSE
                     IF s[n] \in gone THEN f[n - 1] ELSE Append(f[n - 1], s[n])]
             h == [n \in 0..m + 1 |-> IF n = 0 THEN <<>>
                     ELSE IF s[n] \in gone THEN g[n - 1] ELSE Append(g[n - 1], s[n])]
  <2>2. ASSUME NEW n \in 0..m + 1 PROVE g[n] = h[n]
    <3>1. CASE n = 0
      BY <2>1, <3>1
    <3>2. CASE n # 0
      <4>1. n - 1 \in 0..m + 1 /\ n - 1 <= m
        BY <3>2
      <4>2. g[n - 1] = f[n - 1]
        BY <4>1
      <4>3. CASE n <= m
        <5>1. n \in 0..m
          BY <4>3
        <5>2. g[n] = f[n]
          BY <4>3
        <5> HIDE DEF g
        <5>3. f[n] = IF s[n] \in gone THEN f[n - 1] ELSE Append(f[n - 1], s[n])
          BY <2>1, <5>1, <3>2
        <5>4. h[n] = IF s[n] \in gone THEN g[n - 1] ELSE Append(g[n - 1], s[n])
          BY <3>2
        <5> QED BY <5>2, <5>3, <5>4, <4>2
      <4>4. CASE n = m + 1
        <5>1. g[n] = IF s[n] \in gone THEN f[n - 1] ELSE Append(f[n - 1], s[n])
          BY <4>4
        <5> HIDE DEF g
        <5>4. h[n] = IF s[n] \in gone THEN g[n - 1] ELSE Append(g[n - 1], s[n])
          BY <3>2
        <5> QED BY <5>1, <5>4, <4>2
      <4> QED BY <4>3, <4>4
    <3> QED BY <3>1, <3>2
  <2>3. g = h
    BY <2>2
  <2> HIDE DEF g
  <2>4. Is(g, m + 1)
    BY <2>3
  <2> HIDE DEF Is
  <2> QED BY <2>4
<1>3. Nat \subseteq T
  <2> HIDE DEF T
  <2> QED BY <1>1, <1>2, SetInduction
<1>4. Len(s) \in Nat
  BY LenProperties
<1>5. \E f : Is(f, Len(s))
  BY <1>3, <1>4
<1> DEFINE F == CHOOSE f : Is(f, Len(s))
<1>6. Is(F, Len(s))
  BY <1>5
<1>7. Without(s, gone) = F[Len(s)]
  BY DEF Without
<1> HIDE DEF F
<1>8. \A n \in 0..Len(s) : F[n] = WithoutStep(s, gone, F, n)
  BY <1>6 DEF WithoutStep
<1> QED BY <1>7, <1>8

\* What is left of the first n elements of s.
LeftOf(S, s, gone, n, t) ==
    /\ t \in Seq(S) /\ Len(t) <= n
    /\ \A m \in 1..Len(t) : t[m] \notin gone /\ \E i \in 1..n : m <= i /\ t[m] = s[i]
    /\ \A m1, m2 \in 1..Len(t) : m1 < m2 =>
          \E i, j \in 1..n : i < j /\ t[m1] = s[i] /\ t[m2] = s[j]
    /\ \A i \in 1..n : s[i] \notin gone => \E m \in 1..Len(t) : t[m] = s[i]
    /\ (\A i \in 1..n : s[i] \notin gone) => Len(t) = n /\ \A i \in 1..n : t[i] = s[i]

\* What is left of the first n elements determines what is left of the first n + 1.
LEMMA LeftOfNext ==
    ASSUME NEW S, NEW s \in Seq(S), NEW gone, NEW n \in Nat, n + 1 \in 1..Len(s), NEW t,
           LeftOf(S, s, gone, n, t)
    PROVE  LeftOf(S, s, gone, n + 1, IF s[n + 1] \in gone THEN t ELSE Append(t, s[n + 1]))
<1>1. t \in Seq(S) /\ Len(t) \in Nat /\ Len(t) <= n /\ s[n + 1] \in S
  BY LenProperties, ElementOfSeq DEF LeftOf
<1>2. \A i \in 1..n + 1 : i \in 1..n \/ i = n + 1
  OBVIOUS
<1>2a. \A i \in 1..n : i \in 1..n + 1
  OBVIOUS
<1>3. CASE s[n + 1] \in gone
  <2>1. \A m \in 1..Len(t) : t[m] \notin gone /\ \E i \in 1..n + 1 : m <= i /\ t[m] = s[i]
    BY <1>2a DEF LeftOf
  <2>2. \A m1, m2 \in 1..Len(t) : m1 < m2 =>
          \E i, j \in 1..n + 1 : i < j /\ t[m1] = s[i] /\ t[m2] = s[j]
    BY <1>2a DEF LeftOf
  <2>3. \A i \in 1..n + 1 : s[i] \notin gone => \E m \in 1..Len(t) : t[m] = s[i]
    BY <1>2, <1>3 DEF LeftOf
  <2>4. n + 1 \in 1..n + 1
    OBVIOUS
  <2>5. Len(t) <= n + 1
    BY <1>1
  <2>6. ~(\A i \in 1..n + 1 : s[i] \notin gone)
    BY <1>3, <2>4
  <2>7. LeftOf(S, s, gone, n + 1, t)
    BY ONLY <1>1, <2>1, <2>2, <2>3, <2>5, <2>6, Zenon DEF LeftOf
  <2> QED BY <1>3, <2>7
<1>4. CASE s[n + 1] \notin gone
  <2> DEFINE u == Append(t, s[n + 1])
  <2>1. /\ u \in Seq(S) /\ Len(u) = Len(t) + 1 /\ u[Len(t) + 1] = s[n + 1]
        /\ \A m \in 1..Len(t) : u[m] = t[m]
    BY <1>1, AppendProperties
  <2> HIDE DEF u
  <2>2. \A m \in 1..Len(u) : m \in 1..Len(t) \/ m = Len(u)
    BY <1>1, <2>1
  <2>3. \A m \in 1..Len(t) : m \in 1..Len(u)
    BY <1>1, <2>1
  <2>3a. Len(u) \in 1..Len(u) /\ Len(u) <= n + 1 /\ n + 1 \in 1..n + 1 /\ u[Len(u)] = s[n + 1]
    BY <1>1, <2>1
  <2>4. ASSUME NEW m \in 1..Len(u)
        PROVE  u[m] \notin gone /\ \E i \in 1..n + 1 : m <= i /\ u[m] = s[i]
    <3>1. CASE m \in 1..Len(t)
      BY <3>1, <2>1, <1>2a DEF LeftOf
    <3>2. CASE m = Len(u)
      BY <3>2, <2>3a, <1>4
    <3> QED BY <2>2, <3>1, <3>2
  <2>5. ASSUME NEW m1 \in 1..Len(u), NEW m2 \in 1..Len(u), m1 < m2
        PROVE  \E i, j \in 1..n + 1 : i < j /\ u[m1] = s[i] /\ u[m2] = s[j]
    <3>1. m1 \in 1..Len(t) /\ u[m1] = t[m1]
      BY <1>1, <2>1, <2>5
    <3>2. CASE m2 \in 1..Len(t)
      <4>1. u[m2] = t[m2]
        BY <2>1, <3>2
      <4>2. PICK i \in 1..n, j \in 1..n : i < j /\ t[m1] = s[i] /\ t[m2] = s[j]
        BY <3>1, <3>2, <2>5 DEF LeftOf
      <4> QED BY <3>1, <4>1, <4>2, <1>2a
    <3>3. CASE m2 = Len(u)
      <4>1. PICK i \in 1..n : t[m1] = s[i]
        BY <3>1 DEF LeftOf
      <4>2. i < n + 1 /\ i \in 1..n + 1
        OBVIOUS
      <4> QED BY <3>1, <3>3, <4>1, <4>2, <2>3a
    <3> QED BY <2>2, <3>2, <3>3
  <2>6. ASSUME NEW i \in 1..n + 1, s[i] \notin gone
        PROVE  \E m \in 1..Len(u) : u[m] = s[i]
    <3>1. CASE i \in 1..n
      <4>1. PICK m \in 1..Len(t) : t[m] = s[i]
        BY <2>6, <3>1 DEF LeftOf
      <4> QED BY <4>1, <2>1, <2>3
    <3>2. CASE i = n + 1
      BY <3>2, <2>3a
    <3> QED BY <1>2, <3>1, <3>2
  <2>7. ASSUME \A i \in 1..n + 1 : s[i] \notin gone
        PROVE  Len(u) = n + 1 /\ \A i \in 1..n + 1 : u[i] = s[i]
    <3>1. Len(t) = n /\ \A i \in 1..n : t[i] = s[i]
      BY <2>7, <1>2a DEF LeftOf
    <3>2. Len(u) = n + 1
      BY <3>1, <2>1
    <3>3. \A i \in 1..n : u[i] = s[i]
      BY <3>1, <2>1
    <3> QED BY <3>2, <3>3, <1>2, <2>3a
  <2>8. LeftOf(S, s, gone, n + 1, u)
    BY ONLY <2>1, <2>3a, <2>4, <2>5, <2>6, <2>7, Zenon DEF LeftOf
  <2> QED BY <1>4, <2>8 DEF u
<1> QED BY <1>3, <1>4

\* What Without does: it removes the clients that are gone and nobody else, keeps
\* the others in order, and leaves the list as it is when none of it is gone.
LEMMA WithoutProperties ==
    ASSUME NEW S, NEW s \in Seq(S), NEW gone
    PROVE  /\ Without(s, gone) \in Seq(S)
           /\ Shrunk(Without(s, gone), s)
           /\ Members(Without(s, gone)) = Members(s) \ gone
           /\ Members(s) \cap gone = {} => Without(s, gone) = s
<1>1. PICK f : /\ Without(s, gone) = f[Len(s)]
               /\ \A n \in 0..Len(s) : f[n] = WithoutStep(s, gone, f, n)
  BY WithoutUnfolds
<1>2. Len(s) \in Nat /\ DOMAIN s = 1..Len(s)
  BY LenProperties
<1> DEFINE T == {n \in Nat : n <= Len(s) => LeftOf(S, s, gone, n, f[n])}
<1>3. 0 \in T
  <2>1. f[0] = <<>>
    BY <1>1, <1>2 DEF WithoutStep
  <2>2. LeftOf(S, s, gone, 0, <<>>)
    BY DEF LeftOf
  <2> QED BY <2>1, <2>2
<1>4. ASSUME NEW n \in Nat, n \in T
      PROVE  n + 1 \in T
  <2> SUFFICES ASSUME n + 1 <= Len(s) PROVE LeftOf(S, s, gone, n + 1, f[n + 1])
    OBVIOUS
  <2>1. n + 1 \in 1..Len(s) /\ n + 1 \in 0..Len(s) /\ n <= Len(s) /\ n + 1 # 0 /\ (n + 1) - 1 = n
    BY <1>2
  <2>2. LeftOf(S, s, gone, n, f[n])
    BY <1>4, <2>1
  <2>3. f[n + 1] = IF s[n + 1] \in gone THEN f[n] ELSE Append(f[n], s[n + 1])
    BY <1>1, <2>1 DEF WithoutStep
  <2> QED BY <2>1, <2>2, <2>3, LeftOfNext
<1>5. Nat \subseteq T
  <2> HIDE DEF T
  <2> QED BY <1>3, <1>4, SetInduction
<1> DEFINE t == Without(s, gone)
<1>6. LeftOf(S, s, gone, Len(s), t)
  BY <1>1, <1>2, <1>5
<1> HIDE DEF T, t
<1>7. t \in Seq(S) /\ DOMAIN t = 1..Len(t)
  BY <1>6, LenProperties DEF LeftOf
<1>8. Shrunk(t, s)
  <2>1. \A n \in DOMAIN t : \E i \in DOMAIN s : n <= i /\ t[n] = s[i]
    BY <1>6, <1>2, <1>7 DEF LeftOf
  <2>2. \A m1, m2 \in 1..Len(t) : m1 < m2 =>
          \E i, j \in 1..Len(s) : i < j /\ t[m1] = s[i] /\ t[m2] = s[j]
    BY <1>6, Zenon DEF LeftOf
  <2>3. ASSUME NEW m \in DOMAIN t, NEW n \in DOMAIN t, m < n
        PROVE  \E i, j \in DOMAIN s : i < j /\ t[m] = s[i] /\ t[n] = s[j]
    <3>1. m \in 1..Len(t) /\ n \in 1..Len(t)
      BY <1>7
    <3>2. PICK i, j \in 1..Len(s) : i < j /\ t[m] = s[i] /\ t[n] = s[j]
      BY <2>2, <2>3, <3>1, Zenon
    <3>3. i \in DOMAIN s /\ j \in DOMAIN s
      BY <1>2
    <3> QED BY <3>2, <3>3
  <2> QED BY <2>1, <2>3, Zenon DEF Shrunk
<1>9. Members(t) = Members(s) \ gone
  <2>1. \A m \in DOMAIN t : t[m] \notin gone /\ \E i \in DOMAIN s : t[m] = s[i]
    BY <1>6, <1>2, <1>7, Zenon DEF LeftOf
  <2>2. \A i \in DOMAIN s : s[i] \notin gone => \E m \in DOMAIN t : t[m] = s[i]
    BY <1>6, <1>2, <1>7, Zenon DEF LeftOf
  <2> QED BY <2>1, <2>2 DEF Members
<1>10. ASSUME Members(s) \cap gone = {} PROVE t = s
  <2>1. \A i \in 1..Len(s) : s[i] \notin gone
    BY <1>10, <1>2 DEF Members
  <2>2. Len(t) = Len(s) /\ \A i \in 1..Len(s) : t[i] = s[i]
    BY <1>6, <2>1 DEF LeftOf
  <2> QED BY <2>2, <1>7, SeqEqual
<1> QED BY <1>7, <1>8, <1>9, <1>10 DEF t

-----------------------------------------------------------------------------
(* The loops over a list                                                   *)

\* The index a loop is suspended at is the first from i on whose client blocks.
LEMMA StopAtProperties ==
    ASSUME ClientTypes, NEW l \in ListId, NEW i \in Nat
    PROVE  /\ StopAt(l, i) \in Nat /\ StopAt(l, i) <= Len(lists[l]) + 1
           /\ StopAt(l, i) <= Len(lists[l]) =>
                 StopAt(l, i) \in i..Len(lists[l]) /\ Blocks(lists[l][StopAt(l, i)])
           /\ \A j \in i..Len(lists[l]) : Blocks(lists[l][j]) => StopAt(l, i) <= j
<1> DEFINE n == Len(lists[l])
           stops == {j \in i..n : Blocks(lists[l][j])}
<1>1. n \in Nat
  BY LenProperties DEF ClientTypes
<1>2. StopAt(l, i) = IF stops = {} THEN n + 1
                     ELSE CHOOSE j \in stops : \A m \in stops : j <= m
  BY DEF StopAt
<1>3. stops \subseteq Nat /\ \A j \in stops : j \in i..n /\ Blocks(lists[l][j])
  BY <1>1
<1>4. \A j \in i..n : Blocks(lists[l][j]) => j \in stops
  OBVIOUS
<1> HIDE DEF stops
<1>5. CASE stops = {}
  BY <1>1, <1>2, <1>4, <1>5
<1>6. CASE stops # {}
  <2>1. \E j \in stops : \A m \in stops : j <= m
    BY <1>3, <1>6, LeastNatural
  <2>2. StopAt(l, i) \in stops /\ \A m \in stops : StopAt(l, i) <= m
    BY <1>2, <1>6, <2>1
  <2>3. StopAt(l, i) \in i..n /\ Blocks(lists[l][StopAt(l, i)])
    BY <1>3, <2>2
  <2>4. \A j \in i..n : Blocks(lists[l][j]) => StopAt(l, i) <= j
    BY <1>4, <2>2
  <2>5. StopAt(l, i) \in Nat /\ StopAt(l, i) <= n + 1
    BY <1>1, <2>3
  <2> QED BY <2>3, <2>4, <2>5
<1> QED BY <1>5, <1>6

\* What a loop that runs on from index i of list l leaves behind.
LEMMA LoopAfterProperties ==
    ASSUME ClientTypes, NEW l \in ListId, NEW i \in Nat \ {0}, NEW dead \in SUBSET Client
    PROVE  /\ Reached(l, i) \subseteq Client /\ DeadAfter(l, i, dead) \in SUBSET Client
           /\ LoopAfter(l, i, dead) \in Loop
           /\ LoopAfter(l, i, dead).pc \in {"sending", "done"}
           /\ LoopAfter(l, i, dead).pc = "done" <=> StopAt(l, i) > Len(lists[l])
           /\ StopAt(l, i) <= Len(lists[l]) =>
                 /\ LoopAfter(l, i, dead).list = l
                 /\ LoopAfter(l, i, dead).idx = StopAt(l, i)
                 /\ LoopAfter(l, i, dead).at = lists[l][StopAt(l, i)]
                 /\ LoopAfter(l, i, dead).dead = DeadAfter(l, i, dead)
                 /\ StopAt(l, i) \in DOMAIN lists[l] /\ lists[l][StopAt(l, i)] \in Client
                 /\ Suspended(LoopAfter(l, i, dead))
<1> DEFINE s == StopAt(l, i)  n == Len(lists[l])  loop == LoopAfter(l, i, dead)
<1>1. /\ lists[l] \in Seq(Client) /\ n \in Nat /\ DOMAIN lists[l] = 1..n
      /\ \A j \in 1..n : lists[l][j] \in Client
  BY LenProperties, ElementOfSeq DEF ClientTypes
<1>2. s \in Nat /\ (s <= n => s \in i..n)
  BY StopAtProperties
<1>3. \A j \in i..n : j \in 1..n
  BY <1>1
<1>4. Reached(l, i) \subseteq Client
  <2>1. Reached(l, i) = {lists[l][j] : j \in {m \in i..n : m <= s}}
    BY DEF Reached
  <2> QED BY <1>1, <1>3, <2>1
<1>5. DeadAfter(l, i, dead) \in SUBSET Client
  BY <1>4 DEF DeadAfter
<1>6. CASE s > n
  <2>1. loop = Done
    BY <1>6 DEF LoopAfter
  <2>2. Done \in Loop /\ Done.pc = "done"
    <3>1. Done = [pc |-> "done", list |-> 0, idx |-> 0, at |-> Closer, dead |-> {}]
      BY DEF Done, Idle
    <3>2. 0 \in 0..MaxLists
      BY BoundsAssumption
    <3> QED BY <3>1, <3>2 DEF Loop
  <2> QED BY <1>2, <1>1, <1>4, <1>5, <1>6, <2>1, <2>2
<1>7. CASE ~(s > n)
  <2>1. s <= n /\ s \in 1..n /\ lists[l][s] \in Client
    BY <1>1, <1>2, <1>3, <1>7
  <2>2. loop = [pc |-> "sending", list |-> l, idx |-> s, at |-> lists[l][s],
                dead |-> DeadAfter(l, i, dead)]
    BY <1>7 DEF LoopAfter, Sending
  <2>3. l \in 0..MaxLists /\ s \in Nat /\ s > 0
    BY <2>1, <1>2 DEF ListId
  <2> HIDE DEF s, n, loop
  <2>4. loop \in Loop
    BY <2>1, <2>2, <2>3, <1>5 DEF Loop
  <2>5. Suspended(loop)
    BY <2>1, <2>2, <2>3 DEF Suspended
  <2> QED BY <1>1, <1>4, <1>5, <1>7, <2>1, <2>2, <2>4, <2>5 DEF s, n, loop
<1> QED BY <1>6, <1>7

\* Who was written to, and what that adds to what they got.
LEMMA GotAfterProperties ==
    ASSUME ClientTypes, NEW l \in ListId, NEW i \in Nat \ {0}, NEW k \in Chunk
    PROVE  /\ GotAfter(k, l, i) \in [Client -> Seq(Chunk)]
           /\ \A c \in Client : /\ c \in Written(l, i) => GotAfter(k, l, i)[c] = Append(got[c], k)
                                /\ c \notin Written(l, i) => GotAfter(k, l, i)[c] = got[c]
           /\ \A c \in Client : c \in Written(l, i) <=>
                 sock[c] = "up" /\ \E j \in i..Len(lists[l]) : j <= StopAt(l, i) /\ lists[l][j] = c
<1>1. \A c \in Client : got[c] \in Seq(Chunk) /\ Append(got[c], k) \in Seq(Chunk)
  BY AppendProperties DEF ClientTypes
<1>2. \A c : c \in Written(l, i) <=>
                 sock[c] = "up" /\ \E j \in i..Len(lists[l]) : j <= StopAt(l, i) /\ lists[l][j] = c
  BY DEF Written, Reached
<1> QED BY <1>1, <1>2 DEF GotAfter

\* A list that nothing is removed from counts as shrunk.
LEMMA ShrunkIsReflexive ==
    ASSUME NEW t \in Seq(Client)
    PROVE  Shrunk(t, t)
<1>1. DOMAIN t \subseteq Nat
  BY LenProperties
<1> QED BY <1>1 DEF Shrunk

\* A sweep of a loop: the queues and the lists keep their types, the lists lose
\* clients only, and only one that has run to its end loses any.
LEMMA SweepProperties ==
    ASSUME ClientTypes, NEW l \in ListId, NEW i \in Nat \ {0}, NEW dead \in SUBSET Client,
           NEW who \in Actor, NEW queues \in [Client -> Seq(Actor)],
           Sweep(who, l, i, dead, queues)
    PROVE  /\ waitq' \in [Client -> Seq(Actor)]
           /\ lists' \in [ListId -> Seq(Client)] /\ departed' \in BOOLEAN
           /\ \A m \in ListId : Shrunk(lists'[m], lists[m])
           /\ \A m \in ListId : Members(lists'[m]) \subseteq Members(lists[m])
           /\ departed => departed'
           /\ ~departed' => lists' = lists
           /\ DeadAfter(l, i, dead) = {} => lists' = lists /\ departed' = departed
           /\ StopAt(l, i) > Len(lists[l]) => waitq' = queues
           /\ StopAt(l, i) <= Len(lists[l]) =>
                 /\ lists' = lists /\ departed' = departed
                 /\ waitq' = [queues EXCEPT ![lists[l][StopAt(l, i)]] = Append(@, who)]
<1> DEFINE s == StopAt(l, i)  n == Len(lists[l])  gone == DeadAfter(l, i, dead)
<1>1. n \in Nat /\ s \in Nat /\ lists \in [ListId -> Seq(Client)] /\ departed \in BOOLEAN
  BY StopAtProperties, LenProperties DEF ClientTypes
<1>2. \A m \in ListId : Shrunk(lists[m], lists[m])
  BY <1>1, ShrunkIsReflexive
<1>3. CASE s > n
  <2>1. /\ waitq' = queues
        /\ lists' = [lists EXCEPT ![l] = Without(@, gone)]
        /\ departed' = (departed \/ gone \cap Members(lists[l]) # {})
    BY <1>3 DEF Sweep
  <2>2. lists[l] \in Seq(Client)
    BY <1>1
  <2>3. /\ Without(lists[l], gone) \in Seq(Client)
        /\ Shrunk(Without(lists[l], gone), lists[l])
        /\ Members(Without(lists[l], gone)) = Members(lists[l]) \ gone
        /\ Members(lists[l]) \cap gone = {} => Without(lists[l], gone) = lists[l]
    BY <2>2, WithoutProperties
  <2> HIDE DEF gone, s, n
  <2>4. /\ lists' \in [ListId -> Seq(Client)] /\ departed' \in BOOLEAN
        /\ \A m \in ListId : lists'[m] = IF m = l THEN Without(lists[l], gone) ELSE lists[m]
    BY <1>1, <2>1, <2>3
  <2>5. Members(lists[l]) \cap gone = {} => lists' = lists
    BY <1>1, <2>3, <2>4
  <2>6. \A m \in ListId : Shrunk(lists'[m], lists[m])
    BY <1>2, <2>3, <2>4
  <2>7. \A m \in ListId : Members(lists'[m]) \subseteq Members(lists[m])
    BY <2>3, <2>4
  <2>8. /\ departed => departed'
        /\ ~departed' => lists' = lists
    BY <2>1, <2>5
  <2>9. gone = {} => lists' = lists /\ departed' = departed
    BY <1>1, <2>1, <2>5
  <2>10. s > n /\ ~(s <= n)
    BY <1>1, <1>3
  <2> QED BY <2>1, <2>4, <2>6, <2>7, <2>8, <2>9, <2>10, Zenon DEF gone, s, n
<1>4. CASE ~(s > n)
  <2>1. /\ waitq' = [queues EXCEPT ![lists[l][s]] = Append(@, who)]
        /\ UNCHANGED <<lists, departed>>
    BY <1>4 DEF Sweep
  <2>2. lists[l][s] \in Client
    <3>1. s \in i..n
      <4>1. i \in Nat /\ s <= n
        BY <1>1, <1>4
      <4> QED BY <4>1, StopAtProperties
    <3>2. s \in 1..Len(lists[l]) /\ lists[l] \in Seq(Client)
      BY <1>1, <3>1
    <3> QED BY <3>2, ElementOfSeq
  <2>3. Append(queues[lists[l][s]], who) \in Seq(Actor)
    BY <2>2, AppendProperties
  <2>4. waitq' \in [Client -> Seq(Actor)]
    BY <2>1, <2>3
  <2> QED BY <1>1, <1>2, <1>4, <2>1, <2>4
<1> QED BY <1>3, <1>4

-----------------------------------------------------------------------------
(* Types                                                                   *)

\* The end of a sequence, cut off by the deque of the replay buffer, has its type.
LEMMA LastNType ==
    ASSUME NEW S, NEW s \in Seq(S), NEW n \in Nat
    PROVE  LastN(s, n) \in Seq(S)
<1>1. Len(s) \in Nat /\ \A i \in 1..Len(s) : s[i] \in S
  BY LenProperties, ElementOfSeq
<1>2. CASE Len(s) <= n
  BY <1>2 DEF LastN
<1>3. CASE ~(Len(s) <= n)
  <2> DEFINE a == Len(s) - n + 1  b == Len(s)
  <2>1. a \in Int /\ b \in Int /\ \A i \in a..b : s[i] \in S
    BY <1>1, <1>3
  <2>2. LastN(s, n) = SubSeq(s, a, b)
    BY <1>3 DEF LastN
  <2> HIDE DEF a, b
  <2> QED BY <2>1, <2>2, SubSeqProperties
<1> QED BY <1>2, <1>3

\* Who waited first has left the queue.
LEMMA DequeuedProperties ==
    ASSUME ClientTypes, NEW c \in Client, NEW who, Released(who, c)
    PROVE  /\ Dequeued(c) \in [Client -> Seq(Actor)]
           /\ \A d \in Client : Dequeued(c)[d] = IF d = c THEN Tail(waitq[c]) ELSE waitq[d]
           /\ waitq[c] # <<>> /\ Head(waitq[c]) = who /\ who \in Actor
<1>1. waitq \in [Client -> Seq(Actor)] /\ waitq[c] # <<>> /\ waitq[c] \in Seq(Actor)
      /\ Head(waitq[c]) = who
  BY DEF ClientTypes, Released
<1>2. Tail(waitq[c]) \in Seq(Actor) /\ who \in Actor
  BY <1>1, HeadTailProperties
<1> QED BY <1>1, <1>2 DEF Dequeued

\* The clients a loop collects for removal are clients.
LEMMA DeadOfType ==
    ASSUME NEW loop \in Loop, loop.at \in Client
    PROVE  DeadOf(loop) \in SUBSET Client
BY DEF Loop, DeadOf

\* A broadcast that runs on keeps the types.
LEMMA RunTypes ==
    ASSUME ClientTypes, NEW k \in Chunk, NEW l \in ListId, NEW i \in Nat \ {0},
           NEW dead \in SUBSET Client, NEW queues \in [Client -> Seq(Actor)],
           bc' = [bc EXCEPT ![k] = LoopAfter(l, i, dead)],
           got' = GotAfter(k, l, i), Sweep(k, l, i, dead, queues)
    PROVE  /\ bc' \in [Chunk -> Loop] /\ got' \in [Client -> Seq(Chunk)]
           /\ \A j \in Chunk : /\ bc'[j].pc \in {"idle", "sending", "done"}
                               /\ bc'[j].pc = "sending" => Suspended(bc'[j])
           /\ waitq' \in [Client -> Seq(Actor)]
           /\ lists' \in [ListId -> Seq(Client)] /\ departed' \in BOOLEAN
<1> DEFINE loop == LoopAfter(l, i, dead)
<1>1. /\ loop \in Loop /\ loop.pc \in {"idle", "sending", "done"}
      /\ loop.pc = "sending" => Suspended(loop)
  <2>1. /\ loop \in Loop /\ loop.pc \in {"sending", "done"}
        /\ loop.pc = "done" <=> StopAt(l, i) > Len(lists[l])
        /\ StopAt(l, i) <= Len(lists[l]) => Suspended(loop)
    BY LoopAfterProperties
  <2>2. StopAt(l, i) \in Nat /\ Len(lists[l]) \in Nat
    BY StopAtProperties, LenProperties DEF ClientTypes
  <2> QED BY <2>1, <2>2
<1> HIDE DEF loop
<1>2. /\ bc \in [Chunk -> Loop]
      /\ \A j \in Chunk : /\ bc[j].pc \in {"idle", "sending", "done"}
                          /\ bc[j].pc = "sending" => Suspended(bc[j])
  BY DEF ClientTypes
<1>3. bc' \in [Chunk -> Loop] /\ \A j \in Chunk : bc'[j] = IF j = k THEN loop ELSE bc[j]
  BY <1>1, <1>2 DEF loop
<1>4. k \in Actor
  BY DEF Actor
<1>5. /\ waitq' \in [Client -> Seq(Actor)]
      /\ lists' \in [ListId -> Seq(Client)] /\ departed' \in BOOLEAN
  BY <1>4, SweepProperties
<1>6. got' \in [Client -> Seq(Chunk)]
  BY GotAfterProperties
<1>7. \A j \in Chunk : /\ bc'[j].pc \in {"idle", "sending", "done"}
                       /\ bc'[j].pc = "sending" => Suspended(bc'[j])
  <2> SUFFICES ASSUME NEW j \in Chunk
               PROVE  /\ bc'[j].pc \in {"idle", "sending", "done"}
                      /\ bc'[j].pc = "sending" => Suspended(bc'[j])
    OBVIOUS
  <2>1. CASE j = k
    <3>1. bc'[j] = loop
      BY <1>3, <2>1
    <3> QED BY <1>1, <3>1 DEF Suspended
  <2>2. CASE j # k
    <3>1. bc'[j] = bc[j]
      BY <1>3, <2>2
    <3>2. bc[j].pc \in {"idle", "sending", "done"} /\ (bc[j].pc = "sending" => Suspended(bc[j]))
      BY <1>2
    <3> QED BY <3>1, <3>2
  <2> QED BY <2>1, <2>2
<1> QED BY <1>3, <1>5, <1>6, <1>7, Zenon

\* The types, when the event loop runs the next scheduled broadcast.
LEMMA StartTypes ==
    ASSUME ClientTypes, BroadcastStart
    PROVE  ClientTypes'
<1> DEFINE k == Head(pending)
<1>1. /\ pending # <<>> /\ pending' = Tail(pending)
      /\ ring' = LastN(Append(ring, k), RingCap) /\ log' = Append(log, k)
      /\ UNCHANGED <<portOpen, read, reg, hnd, sock, paused, closer, closes, replayed, since>>
      /\ \/ /\ Registered = {} /\ bc' = [bc EXCEPT ![k] = Done]
            /\ UNCHANGED <<lists, waitq, got, departed>>
         \/ /\ Registered # {} /\ bc' = [bc EXCEPT ![k] = LoopAfter(reg, 1, {})]
            /\ got' = GotAfter(k, reg, 1) /\ Sweep(k, reg, 1, {}, waitq)
  BY DEF BroadcastStart
<1>2. k \in Chunk /\ pending' \in Seq(Chunk)
  BY <1>1, HeadTailProperties DEF ClientTypes
<1> HIDE DEF k
<1>3. log' \in Seq(Chunk) /\ ring' \in Seq(Chunk)
  <2>1. Append(ring, k) \in Seq(Chunk) /\ Append(log, k) \in Seq(Chunk) /\ RingCap \in Nat
    BY <1>2, AppendProperties, BoundsAssumption DEF ClientTypes
  <2> QED BY <1>1, <2>1, LastNType
<1>4. /\ bc' \in [Chunk -> Loop] /\ got' \in [Client -> Seq(Chunk)]
      /\ \A j \in Chunk : /\ bc'[j].pc \in {"idle", "sending", "done"}
                          /\ bc'[j].pc = "sending" => Suspended(bc'[j])
      /\ waitq' \in [Client -> Seq(Actor)]
      /\ lists' \in [ListId -> Seq(Client)] /\ departed' \in BOOLEAN
  <2>1. CASE Registered = {}
    <3>1. Done \in Loop /\ Done.pc = "done"
      <4>1. Done = [pc |-> "done", list |-> 0, idx |-> 0, at |-> Closer, dead |-> {}]
        BY DEF Done, Idle
      <4> QED BY <4>1, BoundsAssumption DEF Loop
    <3>2. bc' = [bc EXCEPT ![k] = Done] /\ UNCHANGED <<lists, waitq, got, departed>>
      BY <1>1, <2>1
    <3>3. bc \in [Chunk -> Loop]
      BY DEF ClientTypes
    <3>4. bc' \in [Chunk -> Loop] /\ \A j \in Chunk : bc'[j] = IF j = k THEN Done ELSE bc[j]
      BY <3>1, <3>2, <3>3
    <3> QED BY <3>1, <3>2, <3>4 DEF ClientTypes
  <2>2. CASE Registered # {}
    <3>1. reg \in ListId /\ 1 \in Nat \ {0} /\ {} \in SUBSET Client /\ waitq \in [Client -> Seq(Actor)]
      BY <2>2 DEF ClientTypes, Registered, ListId
    <3> QED BY <1>1, <1>2, <2>2, <3>1, RunTypes
  <2> QED BY <2>1, <2>2
<1> QED BY <1>1, <1>2, <1>3, <1>4 DEF ClientTypes

\* The types, when a suspended broadcast goes on.
LEMMA ResumeTypes ==
    ASSUME ClientTypes, NEW k \in Chunk, BroadcastResume(k)
    PROVE  ClientTypes'
<1> DEFINE b == bc[k]
<1>1. /\ b.pc = "sending" /\ Released(k, b.at)
      /\ bc' = [bc EXCEPT ![k] = LoopAfter(b.list, b.idx + 1, DeadOf(b))]
      /\ got' = GotAfter(k, b.list, b.idx + 1)
      /\ Sweep(k, b.list, b.idx + 1, DeadOf(b), Dequeued(b.at))
      /\ UNCHANGED <<portOpen, read, pending, ring, log, reg, hnd, sock, paused,
                     closer, closes, replayed, since>>
  BY DEF BroadcastResume
<1>2. b \in Loop /\ Suspended(b)
  BY <1>1 DEF ClientTypes
<1> HIDE DEF b
<1>3. b.list \in ListId /\ b.idx + 1 \in Nat \ {0} /\ b.at \in Client
  BY <1>2 DEF Loop, Suspended
<1>4. DeadOf(b) \in SUBSET Client /\ Dequeued(b.at) \in [Client -> Seq(Actor)]
  BY <1>1, <1>2, <1>3, DeadOfType, DequeuedProperties
<1>5. /\ bc' \in [Chunk -> Loop] /\ got' \in [Client -> Seq(Chunk)]
      /\ \A j \in Chunk : /\ bc'[j].pc \in {"idle", "sending", "done"}
                          /\ bc'[j].pc = "sending" => Suspended(bc'[j])
      /\ waitq' \in [Client -> Seq(Actor)]
      /\ lists' \in [ListId -> Seq(Client)] /\ departed' \in BOOLEAN
  BY <1>1, <1>3, <1>4, RunTypes
<1> QED BY <1>1, <1>5 DEF ClientTypes

\* The record of a suspended disconnect_all, written out.
LEMMA ClosingIs ==
    ASSUME NEW l, NEW i, NEW c
    PROVE  Closing(l, i, c) = [pc |-> "closing", list |-> l, idx |-> i, at |-> c, dead |-> {}]
<1>1. Sending(l, i, c, {}) = [pc |-> "sending", list |-> l, idx |-> i, at |-> c, dead |-> {}]
  BY DEF Sending
<1>2. Closing(l, i, c) = [Sending(l, i, c, {}) EXCEPT !.pc = "closing"]
  BY DEF Closing
<1> QED BY <1>1, <1>2

\* disconnect_all keeps the types, and closes sockets only.
LEMMA CloseFromTypes ==
    ASSUME ClientTypes, NEW l \in 0..MaxLists, NEW i \in Nat \ {0}, CloseFrom(l, i),
           lists' \in [ListId -> Seq(Client)]
    PROVE  /\ closer' \in [loop : Loop, fence : Nat] /\ ring' \in Seq(Chunk)
           /\ closer'.loop.pc \in {"idle", "closing"}
           /\ closer'.loop.pc = "closing" => Suspended(closer'.loop)
           /\ sock' \in [Client -> {"up", "closing", "down"}]
           /\ \A c \in Client : sock'[c] = "up" => sock[c] = "up"
           /\ closer'.loop.pc = "closing" => \E c \in Client : sock'[c] # "up"
<1> DEFINE n == IF l = 0 THEN 0 ELSE Len(lists'[l])
           ups == {j \in i..n : sock[lists'[l][j]] = "up"}
           j == CHOOSE j \in ups : \A m \in ups : j <= m
<1>1. /\ ups = {} => /\ closer' = [loop |-> Idle, fence |-> 0]
                     /\ ring' = <<>> /\ UNCHANGED sock
      /\ ups # {} => /\ closer' = [loop |-> Closing(l, j, lists'[l][j]), fence |-> 0]
                     /\ sock' = [sock EXCEPT ![lists'[l][j]] = "closing"]
                     /\ UNCHANGED ring
  BY DEF CloseFrom
<1>2. /\ ring \in Seq(Chunk) /\ sock \in [Client -> {"up", "closing", "down"}]
  BY DEF ClientTypes
<1>3. CASE ups = {}
  <2>1. Idle \in Loop /\ Idle.pc = "idle"
    BY BoundsAssumption DEF Idle, Loop
  <2> HIDE DEF ups, j
  <2>2. closer' = [loop |-> Idle, fence |-> 0] /\ ring' = <<>> /\ sock' = sock
    BY <1>1, <1>3
  <2> QED BY <1>2, <2>1, <2>2
<1>4. CASE ups # {}
  <2>1. l # 0
    BY <1>4
  <2>2. l \in ListId /\ lists'[l] \in Seq(Client) /\ n = Len(lists'[l]) /\ n \in Nat
    BY <2>1, LenProperties DEF ListId
  <2>3. ups \subseteq Nat /\ \A m \in ups : m \in i..n
    BY <2>2
  <2> HIDE DEF ups, n
  <2>4. \E m \in ups : \A o \in ups : m <= o
    BY <1>4, <2>3, LeastNatural
  <2>5. j \in ups
    BY <2>4
  <2> HIDE DEF j
  <2>6. j \in 1..Len(lists'[l]) /\ j \in Nat /\ j > 0
    BY <2>2, <2>3, <2>5
  <2>7. lists'[l][j] \in Client
    BY <2>2, <2>6, ElementOfSeq
  <2> DEFINE loop == Closing(l, j, lists'[l][j])
  <2>8. loop = [pc |-> "closing", list |-> l, idx |-> j, at |-> lists'[l][j], dead |-> {}]
    BY ClosingIs
  <2>9. closer' = [loop |-> loop, fence |-> 0] /\ sock' = [sock EXCEPT ![lists'[l][j]] = "closing"]
        /\ ring' = ring
    BY <1>1, <1>4
  <2> HIDE DEF loop
  <2>10. loop \in Loop /\ Suspended(loop)
    BY <2>2, <2>6, <2>7, <2>8 DEF Loop, Suspended
  <2>11. closer' \in [loop : Loop, fence : Nat] /\ closer'.loop.pc = "closing" /\ Suspended(closer'.loop)
    BY <2>8, <2>9, <2>10
  <2>12. /\ sock' \in [Client -> {"up", "closing", "down"}]
         /\ \A c \in Client : sock'[c] = IF c = lists'[l][j] THEN "closing" ELSE sock[c]
    BY <1>2, <2>7, <2>9
  <2> QED BY <1>2, <2>7, <2>9, <2>11, <2>12
<1> QED BY <1>3, <1>4

\* The types, when a client connects.
LEMMA ConnectTypes ==
    ASSUME ClientTypes, NEW c \in Client, Connect(c)
    PROVE  ClientTypes'
<1>1. /\ hnd[c] = "new" /\ Admits
      /\ \/ reg # 0 /\ lists' = [lists EXCEPT ![reg] = Append(@, c)] /\ UNCHANGED reg
         \/ \E l \in ListId : lists' = [lists EXCEPT ![l] = <<c>>] /\ reg' = l
      /\ replayed' = [replayed EXCEPT ![c] = ring]
      /\ since' = [since EXCEPT ![c] = Len(log)]
      /\ \/ /\ hnd' \in {[hnd EXCEPT ![c] = "replaying"], [hnd EXCEPT ![c] = "greeting"]}
            /\ waitq' = [waitq EXCEPT ![c] = Append(@, c)]
         \/ hnd' = [hnd EXCEPT ![c] = "open"] /\ UNCHANGED waitq
      /\ UNCHANGED <<portOpen, read, pending, ring, log, bc, sock, paused, closer,
                     closes, got, departed>>
  <2>1. \/ reg # 0 /\ lists' = [lists EXCEPT ![reg] = Append(@, c)] /\ UNCHANGED reg
        \/ \E l \in ListId : lists' = [lists EXCEPT ![l] = <<c>>] /\ reg' = l
    BY DEF Connect
  <2>2. \/ /\ hnd' \in {[hnd EXCEPT ![c] = "replaying"], [hnd EXCEPT ![c] = "greeting"]}
           /\ waitq' = [waitq EXCEPT ![c] = Append(@, c)]
        \/ hnd' = [hnd EXCEPT ![c] = "open"] /\ UNCHANGED waitq
    BY DEF Connect
  <2> QED BY <2>1, <2>2 DEF Connect
<1>2. lists' \in [ListId -> Seq(Client)] /\ reg' \in 0..MaxLists
  <2>1. CASE reg # 0 /\ lists' = [lists EXCEPT ![reg] = Append(@, c)] /\ UNCHANGED reg
    <3>1. reg \in ListId /\ lists \in [ListId -> Seq(Client)]
      BY <2>1 DEF ClientTypes, ListId
    <3>2. Append(lists[reg], c) \in Seq(Client)
      BY <3>1, AppendProperties
    <3> QED BY <2>1, <3>1, <3>2 DEF ClientTypes
  <2>2. ASSUME NEW l \in ListId, lists' = [lists EXCEPT ![l] = <<c>>], reg' = l
        PROVE  lists' \in [ListId -> Seq(Client)] /\ reg' \in 0..MaxLists
    <3>1. lists \in [ListId -> Seq(Client)] /\ <<c>> \in Seq(Client)
      BY DEF ClientTypes
    <3> QED BY <2>2, <3>1 DEF ListId
  <2> QED BY <1>1, <2>1, <2>2
<1>3. /\ waitq' \in [Client -> Seq(Actor)]
      /\ hnd' \in [Client -> {"new", "replaying", "greeting", "open", "done", "crashed"}]
  <2>1. waitq \in [Client -> Seq(Actor)] /\ Append(waitq[c], c) \in Seq(Actor)
    BY AppendProperties DEF ClientTypes, Actor
  <2>2. hnd \in [Client -> {"new", "replaying", "greeting", "open", "done", "crashed"}]
    BY DEF ClientTypes
  <2> QED BY <1>1, <2>1, <2>2
<1>4. replayed' \in [Client -> Seq(Chunk)] /\ since' \in [Client -> Nat]
  BY <1>1, LenProperties DEF ClientTypes
<1> QED BY <1>1, <1>2, <1>3, <1>4 DEF ClientTypes

\* The types, when a suspended connect goes on.
LEMMA ConnectResumeTypes ==
    ASSUME ClientTypes, NEW c \in Client, ConnectResume(c)
    PROVE  ClientTypes'
<1>1. /\ hnd[c] \in {"replaying", "greeting"} /\ Released(c, c)
      /\ \/ /\ hnd' = [hnd EXCEPT ![c] = "greeting"] /\ UNCHANGED sock
            /\ waitq' = [waitq EXCEPT ![c] = Append(Tail(@), c)]
         \/ /\ waitq' = Dequeued(c) /\ hnd' = [hnd EXCEPT ![c] = "open"] /\ UNCHANGED sock
         \/ /\ waitq' = Dequeued(c) /\ hnd' = [hnd EXCEPT ![c] = "crashed"]
            /\ sock' = [sock EXCEPT ![c] = IF @ = "up" THEN "closing" ELSE @]
      /\ UNCHANGED <<portOpen, read, pending, ring, log, lists, reg, bc, paused,
                     closer, closes, got, replayed, since, departed>>
  BY DEF ConnectResume
<1>2. /\ waitq \in [Client -> Seq(Actor)] /\ Dequeued(c) \in [Client -> Seq(Actor)]
      /\ Append(Tail(waitq[c]), c) \in Seq(Actor)
  <2>1. waitq \in [Client -> Seq(Actor)] /\ waitq[c] # <<>>
    BY <1>1, DequeuedProperties DEF ClientTypes
  <2>2. Tail(waitq[c]) \in Seq(Actor) /\ c \in Actor
    BY <2>1, HeadTailProperties DEF Actor
  <2> QED BY <1>1, <2>1, <2>2, DequeuedProperties, AppendProperties
<1>3. waitq' \in [Client -> Seq(Actor)]
  BY <1>1, <1>2
<1>4. /\ hnd' \in [Client -> {"new", "replaying", "greeting", "open", "done", "crashed"}]
      /\ sock' \in [Client -> {"up", "closing", "down"}]
  BY <1>1 DEF ClientTypes
<1> QED BY <1>1, <1>3, <1>4 DEF ClientTypes

\* disconnect loses nobody but the client that leaves.
LEMMA DisconnectProperties ==
    ASSUME ClientTypes, NEW c \in Client, Disconnect(c)
    PROVE  /\ lists' \in [ListId -> Seq(Client)] /\ reg' \in {0, reg} /\ departed' \in BOOLEAN
           /\ \A l \in ListId : Shrunk(lists'[l], lists[l])
           /\ \A l \in ListId : Members(lists'[l]) \subseteq Members(lists[l])
           /\ reg' # 0 => Members(lists'[reg]) = Members(lists[reg]) \ {c}
           /\ departed => departed'
           /\ ~departed' => /\ lists' = lists /\ c \notin Registered
                            /\ reg' = reg \/ (reg # 0 /\ lists[reg] = <<>>)
<1>1. lists \in [ListId -> Seq(Client)] /\ departed \in BOOLEAN
      /\ \A l \in ListId : Shrunk(lists[l], lists[l])
  BY ShrunkIsReflexive DEF ClientTypes
<1>2. CASE reg = 0
  BY <1>1, <1>2 DEF Disconnect, Registered
<1>3. CASE reg # 0
  <2>1. /\ lists' = [lists EXCEPT ![reg] = Without(@, {c})]
        /\ reg' = IF Without(lists[reg], {c}) = <<>> THEN 0 ELSE reg
        /\ departed' = (departed \/ c \in Registered)
    BY <1>3 DEF Disconnect
  <2>2. reg \in ListId /\ lists[reg] \in Seq(Client)
    <3>1. reg \in 0..MaxLists /\ MaxLists \in Nat
      BY BoundsAssumption DEF ClientTypes
    <3>2. reg \in ListId
      BY <1>3, <3>1 DEF ListId
    <3> QED BY <1>1, <3>2
  <2> DEFINE t == Without(lists[reg], {c})
  <2>3. /\ t \in Seq(Client) /\ Shrunk(t, lists[reg])
        /\ Members(t) = Members(lists[reg]) \ {c}
        /\ Members(lists[reg]) \cap {c} = {} => t = lists[reg]
    BY <2>2, WithoutProperties
  <2> HIDE DEF t
  <2>4. /\ lists' \in [ListId -> Seq(Client)] /\ departed' \in BOOLEAN
        /\ \A l \in ListId : lists'[l] = IF l = reg THEN t ELSE lists[l]
    BY <1>1, <2>1, <2>2, <2>3 DEF t
  <2>5. /\ \A l \in ListId : Shrunk(lists'[l], lists[l])
        /\ \A l \in ListId : Members(lists'[l]) \subseteq Members(lists[l])
        /\ Members(lists'[reg]) = Members(lists[reg]) \ {c}
    BY <1>1, <2>2, <2>3, <2>4
  <2>6. Registered = Members(lists[reg])
    BY <1>3 DEF Registered
  <2>7. c \notin Registered => t = lists[reg] /\ lists' = lists
    BY <1>1, <2>2, <2>3, <2>4, <2>6
  <2>8. reg' = IF t = <<>> THEN 0 ELSE reg
    BY <2>1 DEF t
  <2> QED BY <1>3, <2>1, <2>4, <2>5, <2>7, <2>8
<1> QED BY <1>2, <1>3

\* The types, when a handler ends or fails and takes its client off the list.
LEMMA HandlerTypes ==
    ASSUME ClientTypes, NEW c \in Client, HandlerEnds(c) \/ HandlerFails(c)
    PROVE  ClientTypes'
<1>1. /\ Disconnect(c) /\ hnd' = [hnd EXCEPT ![c] = "done"]
      /\ sock' = sock \/ sock' = [sock EXCEPT ![c] = "closing"]
      /\ UNCHANGED <<portOpen, read, pending, ring, log, bc, paused, waitq,
                     closer, closes, got, replayed, since>>
  BY DEF HandlerEnds, HandlerFails
<1>2. lists' \in [ListId -> Seq(Client)] /\ reg' \in {0, reg} /\ departed' \in BOOLEAN
  BY <1>1, DisconnectProperties
<1>3. reg' \in 0..MaxLists
  BY <1>2, BoundsAssumption DEF ClientTypes
<1>4. /\ hnd' \in [Client -> {"new", "replaying", "greeting", "open", "done", "crashed"}]
      /\ sock' \in [Client -> {"up", "closing", "down"}]
  BY <1>1 DEF ClientTypes
<1> QED BY <1>1, <1>2, <1>3, <1>4 DEF ClientTypes

\* The loop of broadcast_status, and disconnect_all after it.
LEMMA StatusFromTypes ==
    ASSUME ClientTypes, NEW l \in ListId, NEW i \in Nat \ {0}, NEW dead \in SUBSET Client,
           NEW queues \in [Client -> Seq(Actor)], StatusFrom(l, i, dead, queues),
           UNCHANGED <<portOpen, read, pending, log, bc, hnd, paused, closes, got,
                       replayed, since>>
    PROVE  ClientTypes'
<1>1. Sweep(Closer, l, i, dead, queues) /\ Closer \in Actor
  BY DEF StatusFrom, Actor
<1>2. /\ waitq' \in [Client -> Seq(Actor)]
      /\ lists' \in [ListId -> Seq(Client)] /\ departed' \in BOOLEAN
  BY <1>1, SweepProperties
<1>3. /\ closer' \in [loop : Loop, fence : Nat]
      /\ closer'.loop.pc \in {"idle", "stopping", "sending", "closing"}
      /\ closer'.loop.pc \in {"sending", "closing"} => Suspended(closer'.loop)
      /\ sock' \in [Client -> {"up", "closing", "down"}]
      /\ reg' \in 0..MaxLists /\ ring' \in Seq(Chunk)
  <2>1. CASE StopAt(l, i) > Len(lists[l])
    <3>1. reg' = 0 /\ CloseFrom(reg, 1)
      BY <2>1 DEF StatusFrom, DisconnectAll
    <3>2. reg \in 0..MaxLists /\ 0 \in 0..MaxLists /\ 1 \in Nat \ {0}
      BY BoundsAssumption DEF ClientTypes
    <3>3. /\ closer' \in [loop : Loop, fence : Nat] /\ ring' \in Seq(Chunk)
          /\ closer'.loop.pc \in {"idle", "closing"}
          /\ closer'.loop.pc = "closing" => Suspended(closer'.loop)
          /\ sock' \in [Client -> {"up", "closing", "down"}]
      BY <1>2, <3>1, <3>2, CloseFromTypes
    <3> QED BY <3>1, <3>2, <3>3
  <2>2. CASE ~(StopAt(l, i) > Len(lists[l]))
    <3> DEFINE loop == LoopAfter(l, i, dead)
    <3>1. /\ closer' = [closer EXCEPT !.loop = loop]
          /\ UNCHANGED <<reg, sock, ring>>
      BY <2>2 DEF StatusFrom
    <3>2. StopAt(l, i) <= Len(lists[l])
      <4>1. StopAt(l, i) \in Nat /\ Len(lists[l]) \in Nat
        BY StopAtProperties, LenProperties DEF ClientTypes
      <4> QED BY <2>2, <4>1
    <3>3. loop \in Loop /\ loop.pc \in {"sending", "done"} /\ loop.pc # "done" /\ Suspended(loop)
      BY <2>2, <3>2, LoopAfterProperties
    <3> HIDE DEF loop
    <3>4. closer \in [loop : Loop, fence : Nat]
      BY DEF ClientTypes
    <3>5. closer' \in [loop : Loop, fence : Nat] /\ closer'.loop = loop
      BY <3>1, <3>3, <3>4
    <3> QED BY <3>1, <3>3, <3>5 DEF ClientTypes
  <2> QED BY <2>1, <2>2
<1> QED BY <1>2, <1>3 DEF ClientTypes

\* The three steps of close_port.
LEMMA CloserTypes ==
    ASSUME ClientTypes, StatusStart \/ StatusResume \/ DisconnectResume
    PROVE  ClientTypes'
<1>0. 0 \in 0..MaxLists /\ 1 \in Nat \ {0} /\ {} \in SUBSET Client /\ waitq \in [Client -> Seq(Actor)]
      /\ lists \in [ListId -> Seq(Client)] /\ reg \in 0..MaxLists
  BY BoundsAssumption DEF ClientTypes
<1>1. CASE StatusStart /\ reg # 0
  <2>1. reg \in ListId
    BY <1>0, <1>1 DEF ListId
  <2> QED BY <1>0, <1>1, <2>1, StatusFromTypes DEF StatusStart
<1>2. CASE StatusStart /\ reg = 0
  <2>1. /\ UNCHANGED <<lists, waitq, departed, portOpen, read, pending, log, bc, hnd, paused,
                       closes, got, replayed, since>>
        /\ reg' = 0 /\ CloseFrom(reg, 1)
    BY <1>2 DEF StatusStart, DisconnectAll
  <2>2. /\ closer' \in [loop : Loop, fence : Nat] /\ ring' \in Seq(Chunk)
        /\ closer'.loop.pc \in {"idle", "closing"}
        /\ closer'.loop.pc = "closing" => Suspended(closer'.loop)
        /\ sock' \in [Client -> {"up", "closing", "down"}]
    BY <1>0, <2>1, CloseFromTypes
  <2> QED BY <1>0, <2>1, <2>2 DEF ClientTypes
<1>3. CASE StatusResume
  <2> DEFINE b == closer.loop
  <2>1. /\ b.pc = "sending" /\ Released(Closer, b.at)
        /\ StatusFrom(b.list, b.idx + 1, DeadOf(b), Dequeued(b.at))
        /\ UNCHANGED <<portOpen, read, pending, log, bc, hnd, paused, closes, got,
                       replayed, since>>
    BY <1>3 DEF StatusResume
  <2>2. b \in Loop /\ Suspended(b)
    BY <2>1 DEF ClientTypes
  <2> HIDE DEF b
  <2>3. b.list \in ListId /\ b.idx + 1 \in Nat \ {0} /\ b.at \in Client
    BY <2>2 DEF Loop, Suspended
  <2>4. DeadOf(b) \in SUBSET Client /\ Dequeued(b.at) \in [Client -> Seq(Actor)]
    BY <2>1, <2>2, <2>3, DeadOfType, DequeuedProperties
  <2> QED BY <2>1, <2>3, <2>4, StatusFromTypes
<1>4. CASE DisconnectResume
  <2> DEFINE b == closer.loop
  <2>1. /\ b.pc = "closing" /\ CloseFrom(b.list, b.idx + 1)
        /\ UNCHANGED <<portOpen, read, pending, log, lists, reg, bc, hnd, paused,
                       waitq, closes, got, replayed, since, departed>>
    BY <1>4 DEF DisconnectResume
  <2>2. b \in Loop
    BY DEF ClientTypes
  <2> HIDE DEF b
  <2>3. b.list \in 0..MaxLists /\ b.idx + 1 \in Nat \ {0}
    BY <2>2 DEF Loop
  <2>4. /\ closer' \in [loop : Loop, fence : Nat] /\ ring' \in Seq(Chunk)
        /\ closer'.loop.pc \in {"idle", "closing"}
        /\ closer'.loop.pc = "closing" => Suspended(closer'.loop)
        /\ sock' \in [Client -> {"up", "closing", "down"}]
    BY <1>0, <2>1, <2>3, CloseFromTypes
  <2> QED BY <2>1, <2>4 DEF ClientTypes
<1> QED BY <1>1, <1>2, <1>3, <1>4

\* The types, in every step.
LEMMA ClientTypesKept ==
    ASSUME ClientTypes, [Next]_vars
    PROVE  ClientTypes'
<1>1. CASE BroadcastSync
  <2>1. /\ read < MaxChunks /\ read' = read + 1 /\ pending' = Append(pending, read + 1)
        /\ UNCHANGED <<portOpen, ring, log, lists, reg, bc, hnd, sock, paused, waitq,
                       closer, closes, got, replayed, since, departed>>
    BY <1>1 DEF BroadcastSync
  <2>2. read + 1 \in Chunk /\ read' \in 0..MaxChunks
    BY <2>1, BoundsAssumption DEF ClientTypes, Chunk
  <2>3. pending' \in Seq(Chunk)
    BY <2>1, <2>2, AppendProperties DEF ClientTypes
  <2> QED BY <2>1, <2>2, <2>3 DEF ClientTypes
<1>2. CASE ClosePort
  <2>1. /\ closes < MaxCloses /\ portOpen' = FALSE /\ closes' = closes + 1 /\ departed' = TRUE
        /\ closer' = [loop |-> [Idle EXCEPT !.pc = "stopping"], fence |-> read]
        /\ UNCHANGED <<read, pending, ring, log, lists, reg, bc, hnd, sock, paused,
                       waitq, got, replayed, since>>
    BY <1>2 DEF ClosePort
  <2>2. [Idle EXCEPT !.pc = "stopping"] \in Loop /\ [Idle EXCEPT !.pc = "stopping"].pc = "stopping"
    BY BoundsAssumption DEF Idle, Loop
  <2>3. closes' \in 0..MaxCloses /\ read \in Nat
    BY <2>1, BoundsAssumption DEF ClientTypes
  <2>4. closer' \in [loop : Loop, fence : Nat] /\ closer'.loop.pc = "stopping"
    BY <2>1, <2>2, <2>3
  <2> QED BY <2>1, <2>3, <2>4 DEF ClientTypes
<1>3. CASE OpenPort
  BY <1>3 DEF OpenPort, ClientTypes
<1>4. ASSUME NEW c \in Client,
             Stall(c) \/ Drain(c) \/ WriteBegins(c) \/ WriteEnds(c) \/ ConnectionLost(c)
      PROVE  ClientTypes'
  BY <1>4 DEF Stall, Drain, WriteBegins, WriteEnds, ConnectionLost, ClientTypes
<1>5. CASE UNCHANGED vars
  BY <1>5 DEF vars, ClientTypes
<1> QED BY <1>1, <1>2, <1>3, <1>4, <1>5, StartTypes, ResumeTypes, ConnectTypes,
           ConnectResumeTypes, HandlerTypes, CloserTypes DEF Next

-----------------------------------------------------------------------------
(* Who waits before whom                                                   *)

\* What a sequence holds after an element is put at its end.
LEMMA AppendOrder ==
    ASSUME NEW S, NEW q \in Seq(S), NEW x \in S
    PROVE  /\ Members(Append(q, x)) = Members(q) \cup {x}
           /\ \A k : k # x /\ Once(q, k) => Once(Append(q, x), k)
           /\ x \notin Members(q) => Once(Append(q, x), x)
           /\ \A j, k : Before(q, j, k) => Before(Append(q, x), j, k)
           /\ \A j : j \in Members(q) => Before(Append(q, x), j, x)
<1> DEFINE r == Append(q, x)  n == Len(q)
<1>1. /\ n \in Nat /\ DOMAIN q = 1..n /\ r \in Seq(S) /\ DOMAIN r = 1..n + 1
      /\ r[n + 1] = x /\ \A i \in 1..n : r[i] = q[i]
  <2>1. n \in Nat /\ DOMAIN q = 1..n
    BY LenProperties
  <2>2. r \in Seq(S) /\ Len(r) = n + 1 /\ r[n + 1] = x /\ \A i \in 1..n : r[i] = q[i]
    BY AppendProperties
  <2>3. DOMAIN r = 1..Len(r)
    BY <2>2, LenProperties
  <2> QED BY <2>1, <2>2, <2>3
<1> HIDE DEF r, n
<1>2. /\ \A i \in DOMAIN r : i \in DOMAIN q \/ i = n + 1
      /\ \A i \in DOMAIN q : i \in DOMAIN r /\ r[i] = q[i] /\ i < n + 1 /\ i \in Nat
      /\ n + 1 \in DOMAIN r
  BY <1>1
<1>3. Members(r) = Members(q) \cup {x}
  BY <1>1, <1>2 DEF Members
<1>4. ASSUME NEW k, k # x, Once(q, k)
      PROVE  Once(r, k)
  BY <1>1, <1>2, <1>4 DEF Once
<1>5. ASSUME x \notin Members(q)
      PROVE  Once(r, x)
  BY <1>1, <1>2, <1>5 DEF Once, Members
<1>6. ASSUME NEW j, NEW k, Before(q, j, k)
      PROVE  Before(r, j, k)
  BY <1>2, <1>6 DEF Before
<1>7. ASSUME NEW j \in Members(q)
      PROVE  Before(r, j, x)
  <2>1. PICK a \in DOMAIN q : q[a] = j
    BY DEF Members
  <2> QED BY <1>1, <1>2, <2>1 DEF Before
<1> QED BY <1>3, <1>4, <1>5, <1>6, <1>7 DEF r

\* And after its first element is taken away.
LEMMA TailOrder ==
    ASSUME NEW S, NEW q \in Seq(S), q # <<>>
    PROVE  /\ Members(q) = Members(Tail(q)) \cup {Head(q)}
           /\ \A k : Once(q, k) => Once(Tail(q), k)
           /\ Once(q, Head(q)) => Head(q) \notin Members(Tail(q))
           /\ \A j, k : Before(q, j, k) /\ j # Head(q) => Before(Tail(q), j, k)
           /\ \A j, k : Before(q, j, k) /\ Once(q, k) => k # Head(q)
<1> DEFINE r == Tail(q)  n == Len(q)
<1>1. /\ n \in Nat \ {0} /\ DOMAIN q = 1..n /\ r \in Seq(S) /\ DOMAIN r = 1..n - 1
      /\ Head(q) = q[1] /\ \A i \in 1..n - 1 : r[i] = q[i + 1]
  <2>1. n \in Nat /\ DOMAIN q = 1..n
    BY LenProperties
  <2>2. r \in Seq(S) /\ Len(r) = n - 1 /\ Head(q) = q[1] /\ \A i \in 1..Len(r) : r[i] = q[i + 1]
    BY HeadTailProperties
  <2>3. DOMAIN r = 1..Len(r)
    BY <2>2, LenProperties
  <2>4. n # 0
    BY EmptySeq
  <2> QED BY <2>1, <2>2, <2>3, <2>4
<1> HIDE DEF r, n
<1>2. /\ \A i \in DOMAIN q : i = 1 \/ (i - 1 \in DOMAIN r /\ r[i - 1] = q[i] /\ i \in Nat /\ i > 1)
      /\ \A i \in DOMAIN r : i + 1 \in DOMAIN q /\ r[i] = q[i + 1] /\ i \in Nat /\ i + 1 # 1
      /\ 1 \in DOMAIN q
  BY <1>1
<1>3. Members(q) = Members(r) \cup {Head(q)}
  <2>1. \A i \in DOMAIN q : q[i] \in Members(r) \cup {Head(q)}
    BY <1>1, <1>2 DEF Members
  <2>2. \A i \in DOMAIN r : r[i] \in Members(q)
    BY <1>2 DEF Members
  <2>3. Head(q) \in Members(q)
    BY <1>1, <1>2 DEF Members
  <2> QED BY <2>1, <2>2, <2>3 DEF Members
<1>4. ASSUME NEW k, Once(q, k)
      PROVE  Once(r, k)
  <2> SUFFICES ASSUME NEW a \in DOMAIN r, NEW b \in DOMAIN r, r[a] = k, r[b] = k
               PROVE  a = b
    BY DEF Once
  <2>1. a + 1 = b + 1
    BY <1>2, <1>4 DEF Once
  <2> QED BY <1>2, <2>1
<1>5. ASSUME Once(q, Head(q)), Head(q) \in Members(r)
      PROVE  FALSE
  <2>1. PICK a \in DOMAIN r : r[a] = Head(q)
    BY <1>5 DEF Members
  <2> QED BY <1>1, <1>2, <1>5, <2>1 DEF Once
<1>6. ASSUME NEW j, NEW k, Before(q, j, k), j # Head(q)
      PROVE  Before(r, j, k)
  <2>1. PICK a \in DOMAIN q, b \in DOMAIN q : a < b /\ q[a] = j /\ q[b] = k
    BY <1>6 DEF Before
  <2>2. a # 1 /\ b # 1
    BY <1>1, <1>2, <1>6, <2>1
  <2>3. /\ a - 1 \in DOMAIN r /\ b - 1 \in DOMAIN r /\ a - 1 < b - 1
        /\ r[a - 1] = j /\ r[b - 1] = k
    BY <1>2, <2>1, <2>2
  <2> QED BY <2>3 DEF Before
<1>7. ASSUME NEW j, NEW k, Before(q, j, k), Once(q, k)
      PROVE  k # Head(q)
  <2>1. PICK a \in DOMAIN q, b \in DOMAIN q : a < b /\ q[a] = j /\ q[b] = k
    BY <1>7 DEF Before
  <2>2. b # 1
    BY <1>2, <2>1
  <2> QED BY <1>1, <1>2, <1>7, <2>1, <2>2 DEF Once
<1> QED BY <1>3, <1>4, <1>5, <1>6, <1>7 DEF r

-----------------------------------------------------------------------------
(* The lists, the queues and what clients got                              *)

\* The elements of a sequence, by index.
LEMMA SeqFacts ==
    ASSUME NEW S, NEW s \in Seq(S)
    PROVE  /\ Len(s) \in Nat /\ DOMAIN s = 1..Len(s) /\ DOMAIN s \subseteq Nat
           /\ \A i \in DOMAIN s : s[i] \in S
<1>1. Len(s) \in Nat /\ DOMAIN s = 1..Len(s)
  BY LenProperties
<1>2. \A i \in 1..Len(s) : s[i] \in S
  BY ElementOfSeq
<1> QED BY <1>1, <1>2

\* Nobody is on a list twice after clients have left it.
LEMMA DistinctShrinks ==
    ASSUME ClientTypes, ClientTypes', Distinct,
           \A l \in ListId : Shrunk(lists'[l], lists[l]),
           \A c \in Client : hnd'[c] = "new" => hnd[c] = "new"
    PROVE  Distinct'
<1> SUFFICES ASSUME NEW l \in ListId, NEW i \in DOMAIN lists'[l], NEW j \in DOMAIN lists'[l]
             PROVE  /\ i # j => lists'[l][i] # lists'[l][j]
                    /\ hnd'[lists'[l][i]] # "new"
  BY DEF Distinct
<1>1. /\ lists'[l] \in Seq(Client) /\ DOMAIN lists'[l] \subseteq Nat
      /\ lists[l] \in Seq(Client) /\ DOMAIN lists[l] \subseteq Nat
      /\ Shrunk(lists'[l], lists[l])
  <2>1. lists'[l] \in Seq(Client) /\ lists[l] \in Seq(Client)
    BY DEF ClientTypes
  <2>2. Shrunk(lists'[l], lists[l])
    OBVIOUS
  <2> QED BY <2>1, <2>2, SeqFacts
<1>2. \A a, b \in DOMAIN lists'[l] : a < b => lists'[l][a] # lists'[l][b]
  <2> SUFFICES ASSUME NEW a \in DOMAIN lists'[l], NEW b \in DOMAIN lists'[l], a < b
               PROVE  lists'[l][a] # lists'[l][b]
    OBVIOUS
  <2>1. PICK x \in DOMAIN lists[l], y \in DOMAIN lists[l] :
           x < y /\ lists'[l][a] = lists[l][x] /\ lists'[l][b] = lists[l][y]
    BY <1>1 DEF Shrunk
  <2>2. x # y
    BY <1>1, <2>1
  <2> QED BY <2>1, <2>2 DEF Distinct
<1>3. i # j => i < j \/ j < i
  BY <1>1
<1>4. i # j => lists'[l][i] # lists'[l][j]
  BY <1>2, <1>3
<1>5. PICK x \in DOMAIN lists[l] : lists'[l][i] = lists[l][x]
  BY <1>1 DEF Shrunk
<1>6. lists[l][x] \in Client /\ hnd[lists[l][x]] # "new"
  <2>1. lists[l][x] \in Client
    BY <1>1, ElementOfSeq, LenProperties
  <2> QED BY <2>1 DEF Distinct
<1> QED BY <1>4, <1>5, <1>6

\* The members of a list are finitely many.
LEMMA MembersFinite ==
    ASSUME NEW S, NEW s \in Seq(S)
    PROVE  /\ IsFiniteSet(Members(s)) /\ Members(s) \subseteq S
           /\ \A x \in S : Members(Append(s, x)) = Members(s) \cup {x}
<1>1. Len(s) \in Nat /\ DOMAIN s = 1..Len(s) /\ s \in [1..Len(s) -> S]
  BY LenProperties
<1>2. s \in Surjection(1..Len(s), Members(s))
  <2>1. s \in [1..Len(s) -> Members(s)]
    BY <1>1 DEF Members
  <2> QED BY <1>1, <2>1 DEF Surjection, Members
<1>3. IsFiniteSet(1..Len(s))
  BY <1>1, FS_Interval
<1>4. IsFiniteSet(Members(s))
  BY <1>2, <1>3, FS_Surjection
<1>5. Members(s) \subseteq S
  BY <1>1 DEF Members
<1> QED BY <1>4, <1>5, AppendOrder

\* When nobody is added to the registered list, the limit is kept.
LEMMA LimitKept ==
    ASSUME ClientTypes, ClientLimit, Registered' \subseteq Registered
    PROVE  ClientLimit'
<1>1. IsFiniteSet(Registered)
  <2>1. CASE reg = 0
    BY <2>1, FS_EmptySet DEF Registered
  <2>2. CASE reg # 0
    <3>1. lists[reg] \in Seq(Client)
      BY <2>2, BoundsAssumption DEF ClientTypes, ListId
    <3> QED BY <2>2, <3>1, MembersFinite DEF Registered
  <2> QED BY <2>1, <2>2
<1>2. Cardinality(Registered') <= Cardinality(Registered) /\ IsFiniteSet(Registered')
  BY <1>1, FS_Subset
<1>3. Cardinality(Registered') \in Nat /\ Cardinality(Registered) \in Nat /\ MaxClients \in Nat
  BY <1>1, <1>2, FS_CardinalityType, BoundsAssumption
<1> QED BY <1>2, <1>3 DEF ClientLimit

\* A step that leaves the lists, the queues and what was written alone.
LEMMA ListFrame ==
    ASSUME ListInv, UNCHANGED <<log, lists, reg, bc, hnd, waitq, got>>
    PROVE  ListInv'
BY DEF ListInv, Distinct, Begun, Ahead, InLine, AtMostOnceLive, NoLeakedRegistration,
       ClientLimit, Registered, Members, Once

\* Broadcasts that wait are still ahead of nobody when lists shrink.
LEMMA AheadShrinks ==
    ASSUME ClientTypes, ClientTypes', Ahead, UNCHANGED <<bc, got>>,
           \A l \in ListId : Shrunk(lists'[l], lists[l])
    PROVE  Ahead'
<1> SUFFICES ASSUME NEW k \in Chunk, bc[k].pc = "sending",
                    NEW p \in DOMAIN lists'[bc[k].list], p > bc[k].idx
             PROVE  k \notin Members(got[lists'[bc[k].list][p]])
  BY DEF Ahead
<1> DEFINE l == bc[k].list
<1>1. l \in ListId /\ bc[k].idx \in Nat
  BY DEF ClientTypes, Suspended, Loop
<1> HIDE DEF l
<1>2. lists'[l] \in Seq(Client) /\ DOMAIN lists'[l] \subseteq Nat
      /\ lists[l] \in Seq(Client) /\ DOMAIN lists[l] \subseteq Nat
  <2>1. lists'[l] \in Seq(Client) /\ lists[l] \in Seq(Client)
    BY <1>1 DEF ClientTypes
  <2> QED BY <2>1, SeqFacts
<1>3. PICK i \in DOMAIN lists[l] : p <= i /\ lists'[l][p] = lists[l][i]
  BY <1>1 DEF Shrunk, l
<1>4. i > bc[k].idx
  BY <1>1, <1>2, <1>3 DEF l
<1>5. k \notin Members(got[lists[l][i]])
  BY <1>4 DEF Ahead, l
<1> QED BY <1>3, <1>5 DEF l

\* Broadcast k runs on from index i of list l: it has written to nobody from there
\* on, and of the queues it finds, queues, it is in none, while the other broadcasts
\* are where they were.
RunsOn(k, l, i, dead, queues) ==
    /\ bc' = [bc EXCEPT ![k] = LoopAfter(l, i, dead)] /\ got' = GotAfter(k, l, i)
    /\ Sweep(k, l, i, dead, queues) /\ hnd' = hnd
    /\ Len(log) <= Len(log') /\ k <= Len(log')
    /\ \A j \in Chunk : j # k => (j > Len(log) <=> j > Len(log'))
    /\ \A p \in DOMAIN lists[l] : p >= i => k \notin Members(got[lists[l][p]])
    /\ \A c \in Client : k \notin Members(queues[c])
    /\ \A c \in Client : \A j \in Chunk : j # k =>
           /\ j \in Members(queues[c]) <=> bc[j].pc = "sending" /\ bc[j].at = c
           /\ Once(queues[c], j)

\* What such a step keeps.
LEMMA RunKeepsLists ==
    ASSUME ClientTypes, ClientTypes', ListInv,
           NEW k \in Chunk, NEW l \in ListId, NEW i \in Nat \ {0},
           NEW dead \in SUBSET Client, NEW queues \in [Client -> Seq(Actor)],
           RunsOn(k, l, i, dead, queues)
    PROVE  Distinct' /\ Begun' /\ Ahead' /\ InLine' /\ AtMostOnceLive'
<1> DEFINE s == StopAt(l, i)  n == Len(lists[l])  loop == LoopAfter(l, i, dead)
<1>0. /\ bc' = [bc EXCEPT ![k] = LoopAfter(l, i, dead)] /\ got' = GotAfter(k, l, i)
      /\ Sweep(k, l, i, dead, queues) /\ hnd' = hnd
      /\ Len(log) <= Len(log') /\ k <= Len(log')
      /\ \A j \in Chunk : j # k => (j > Len(log) <=> j > Len(log'))
      /\ \A p \in DOMAIN lists[l] : p >= i => k \notin Members(got[lists[l][p]])
      /\ \A c \in Client : k \notin Members(queues[c])
      /\ \A c \in Client : \A j \in Chunk : j # k =>
            /\ j \in Members(queues[c]) <=> bc[j].pc = "sending" /\ bc[j].at = c
            /\ Once(queues[c], j)
  BY DEF RunsOn
<1> USE <1>0
<1>1. /\ lists \in [ListId -> Seq(Client)] /\ lists[l] \in Seq(Client) /\ n \in Nat
      /\ DOMAIN lists[l] = 1..n /\ got \in [Client -> Seq(Chunk)] /\ bc \in [Chunk -> Loop]
      /\ \A p \in 1..n : lists[l][p] \in Client
  <2>1. /\ lists \in [ListId -> Seq(Client)] /\ lists[l] \in Seq(Client)
        /\ got \in [Client -> Seq(Chunk)] /\ bc \in [Chunk -> Loop]
    BY DEF ClientTypes
  <2> HIDE DEF s, loop
  <2> QED BY <2>1, SeqFacts
<1>2. k \in Actor /\ s \in Nat
  BY StopAtProperties DEF Actor
<1>3. /\ \A m \in ListId : Shrunk(lists'[m], lists[m])
      /\ s > n => waitq' = queues
      /\ s <= n => lists' = lists
      /\ s <= n => waitq' = [queues EXCEPT ![lists[l][s]] = Append(@, k)]
  <2>1. \A m \in ListId : Shrunk(lists'[m], lists[m])
    BY <1>2, SweepProperties
  <2>2. s > n => waitq' = queues
    BY DEF Sweep
  <2>3. s <= n => lists' = lists
    BY <1>2, SweepProperties
  <2>4. s <= n => waitq' = [queues EXCEPT ![lists[l][s]] = Append(@, k)]
    BY <1>1, <1>2 DEF Sweep
  <2> QED BY <2>1, <2>2, <2>3, <2>4
<1>4. /\ loop.pc \in {"sending", "done"}
      /\ loop.pc = "done" <=> s > n
      /\ s <= n => /\ loop.list = l /\ loop.idx = s /\ loop.at = lists[l][s]
                   /\ s \in DOMAIN lists[l] /\ lists[l][s] \in Client
  BY LoopAfterProperties
<1>5. \A j \in Chunk : bc'[j] = IF j = k THEN loop ELSE bc[j]
  BY <1>1
<1>6. \A c \in Client : /\ c \in Written(l, i) => got'[c] = Append(got[c], k)
                        /\ c \notin Written(l, i) => got'[c] = got[c]
                        /\ c \in Written(l, i) => \E j \in i..n : j <= s /\ lists[l][j] = c
  BY GotAfterProperties
<1> HIDE DEF s, loop, n
<1>7. ASSUME NEW c \in Client, c \in Written(l, i)
      PROVE  /\ k \notin Members(got[c]) /\ hnd[c] # "new"
             /\ \E q \in DOMAIN lists[l] : q >= i /\ q <= s /\ lists[l][q] = c
  <2>1. PICK q \in i..n : q <= s /\ lists[l][q] = c
    BY <1>6, <1>7
  <2>2. q \in DOMAIN lists[l] /\ q >= i
    BY <1>1, <2>1
  <2> QED BY <2>1, <2>2 DEF ListInv, Distinct
<1>8. ASSUME NEW c \in Client
      PROVE  /\ \A x \in Members(got'[c]) : x \in Members(got[c]) \/ (x = k /\ c \in Written(l, i))
             /\ \A x \in Members(got[c]) : x \in Members(got'[c])
             /\ c \in Written(l, i) => k \in Members(got'[c])
  <2>1. got[c] \in Seq(Chunk)
    BY <1>1
  <2>2. Members(Append(got[c], k)) = Members(got[c]) \cup {k}
    BY <2>1, AppendOrder
  <2>3. c \in Written(l, i) => Members(got'[c]) = Members(got[c]) \cup {k}
    BY <1>6, <2>2
  <2>4. c \notin Written(l, i) => Members(got'[c]) = Members(got[c])
    BY <1>6
  <2> QED BY ONLY <2>3, <2>4
<1>9. Distinct'
  BY <1>3, DistinctShrinks DEF ListInv
<1>10. Begun'
  <2>1. ASSUME NEW j \in Chunk PROVE bc'[j].pc = "idle" <=> j > Len(log')
    <3>1. k \in Nat /\ Len(log') \in Nat
      BY LenProperties DEF Chunk, ClientTypes
    <3>2. CASE j = k
      BY <1>4, <1>5, <3>1, <3>2
    <3>3. CASE j # k
      BY <1>5, <3>3 DEF ListInv, Begun
    <3> QED BY <3>2, <3>3
  <2>2. ASSUME NEW c \in Client, NEW x \in DOMAIN got'[c] PROVE got'[c][x] <= Len(log')
    <3>1. got'[c][x] \in Members(got'[c])
      BY DEF Members
    <3>2. got'[c][x] = k \/ got'[c][x] \in Members(got[c])
      BY <1>8, <3>1
    <3>3. \A y \in Members(got[c]) : y <= Len(log) /\ y \in Nat
      <4>1. \A a \in DOMAIN got[c] : got[c][a] <= Len(log) /\ got[c][a] \in Chunk
        BY <1>1, ElementOfSeq, LenProperties DEF ListInv, Begun
      <4> QED BY <4>1 DEF Members, Chunk
    <3>4. Len(log) \in Nat /\ Len(log') \in Nat
      BY LenProperties DEF ClientTypes
    <3> QED BY <3>2, <3>3, <3>4
  <2>3. ASSUME NEW c \in Client, hnd'[c] = "new" PROVE got'[c] = <<>>
    BY <1>6, <1>7, <2>3 DEF ListInv, Begun
  <2> QED BY <2>1, <2>2, <2>3 DEF Begun
<1>11. Ahead'
  <2> SUFFICES ASSUME NEW j \in Chunk, bc'[j].pc = "sending",
                      NEW p \in DOMAIN lists'[bc'[j].list], p > bc'[j].idx
               PROVE  j \notin Members(got'[lists'[bc'[j].list][p]])
    BY DEF Ahead
  <2>1. CASE j = k
    <3>1. s <= n /\ lists' = lists /\ bc'[j].list = l /\ bc'[j].idx = s
      BY <1>1, <1>2, <1>3, <1>4, <1>5, <2>1
    <3>2. p \in DOMAIN lists[l] /\ p > s /\ lists[l][p] \in Client
      BY <1>1, <3>1
    <3>3. p >= i
      BY <1>1, <1>2, <3>1, <3>2, StopAtProperties DEF s, n
    <3>4. k \notin Members(got[lists[l][p]])
      BY <3>2, <3>3
    <3>5. lists[l][p] \notin Written(l, i)
      <4> SUFFICES ASSUME lists[l][p] \in Written(l, i) PROVE FALSE
        OBVIOUS
      <4>1. PICK q \in DOMAIN lists[l] : q <= s /\ lists[l][q] = lists[l][p]
        BY <1>7, <3>2
      <4>2. q # p
        BY <1>1, <1>2, <3>2, <4>1
      <4> QED BY <3>2, <4>1, <4>2 DEF ListInv, Distinct
    <3> QED BY <1>8, <2>1, <3>1, <3>2, <3>4, <3>5
  <2>2. CASE j # k
    <3> DEFINE m == bc[j].list
    <3>0. bc'[j] = bc[j] /\ bc[j].pc = "sending"
      BY <1>5, <2>2
    <3>1. bc'[j] = bc[j] /\ bc[j].pc = "sending" /\ m \in ListId /\ bc[j].idx \in Nat
      BY <3>0 DEF ClientTypes, Suspended, Loop
    <3>2. /\ lists'[m] \in Seq(Client) /\ DOMAIN lists'[m] \subseteq Nat
          /\ lists[m] \in Seq(Client) /\ DOMAIN lists[m] \subseteq Nat
          /\ p \in DOMAIN lists'[m] /\ p > bc[j].idx
      <4>1. p \in DOMAIN lists'[m] /\ p > bc[j].idx
        BY <3>1
      <4> HIDE DEF m
      <4>2. lists'[m] \in Seq(Client) /\ lists[m] \in Seq(Client)
        BY <3>1 DEF ClientTypes
      <4> QED BY <4>1, <4>2, SeqFacts
    <3> HIDE DEF m
    <3>3. PICK q \in DOMAIN lists[m] : p <= q /\ lists'[m][p] = lists[m][q]
      BY <1>3, <3>1, <3>2 DEF Shrunk
    <3>4. q > bc[j].idx /\ lists[m][q] \in Client
      <4>1. p \in Nat /\ q \in Nat
        BY <3>2, <3>3
      <4>2. lists[m][q] \in Client
        BY <3>2, <3>3, SeqFacts
      <4> QED BY <3>1, <3>2, <3>3, <4>1, <4>2
    <3>5. j \notin Members(got[lists[m][q]])
      BY <3>1, <3>4 DEF ListInv, Ahead, m
    <3>6. j \notin Members(got'[lists[m][q]])
      BY ONLY <1>8, <2>2, <3>4, <3>5
    <3> QED BY <3>1, <3>3, <3>6 DEF m
  <2> QED BY <2>1, <2>2
<1>12. InLine'
  <2> SUFFICES ASSUME NEW c \in Client, NEW j \in Chunk
               PROVE  /\ j \in Members(waitq'[c]) <=> bc'[j].pc = "sending" /\ bc'[j].at = c
                      /\ Once(waitq'[c], j)
    BY DEF InLine
  <2>1. /\ queues[c] \in Seq(Actor)
        /\ Members(Append(queues[c], k)) = Members(queues[c]) \cup {k}
        /\ \A x : x # k /\ Once(queues[c], x) => Once(Append(queues[c], k), x)
        /\ k \notin Members(queues[c]) => Once(Append(queues[c], k), k)
    BY <1>2, AppendOrder
  <2>2. k \notin Members(queues[c]) => Once(queues[c], k)
    BY DEF Once, Members
  <2>3. CASE s <= n /\ c = lists[l][s]
    <3>1. waitq'[c] = Append(queues[c], k)
      BY <1>3, <2>3
    <3>2. CASE j = k
      <4>1. bc'[j].pc = "sending" /\ bc'[j].at = c
        BY <1>1, <1>2, <1>4, <1>5, <2>3, <3>2
      <4> QED BY <2>1, <3>1, <3>2, <4>1
    <3>3. CASE j # k
      <4>1. bc'[j] = bc[j]
        BY <1>5, <3>3
      <4> QED BY <2>1, <3>1, <3>3, <4>1
    <3> QED BY <3>2, <3>3
  <2>4. CASE ~(s <= n /\ c = lists[l][s])
    <3>1. waitq'[c] = queues[c]
      BY <1>1, <1>2, <1>3, <2>4
    <3>2. CASE j = k
      <4>1. ~(bc'[j].pc = "sending" /\ bc'[j].at = c)
        BY <1>1, <1>2, <1>4, <1>5, <2>4, <3>2
      <4> QED BY <2>2, <3>1, <3>2, <4>1
    <3>3. CASE j # k
      <4>1. bc'[j] = bc[j]
        BY <1>5, <3>3
      <4> QED BY <3>1, <3>3, <4>1
    <3> QED BY <3>2, <3>3
  <2> QED BY <2>3, <2>4
<1>13. AtMostOnceLive'
  <2> SUFFICES ASSUME NEW c \in Client, NEW x \in DOMAIN got'[c], NEW y \in DOMAIN got'[c], x # y
               PROVE  got'[c][x] # got'[c][y]
    BY DEF AtMostOnceLive
  <2>1. CASE c \notin Written(l, i)
    BY <1>6, <2>1 DEF ListInv, AtMostOnceLive
  <2>2. CASE c \in Written(l, i)
    <3>1. got'[c] = Append(got[c], k) /\ k \notin Members(got[c]) /\ got[c] \in Seq(Chunk)
      BY <1>1, <1>6, <1>7, <2>2
    <3>2. \A z \in Members(got[c]) : Once(got[c], z)
      BY DEF ListInv, AtMostOnceLive, Once
    <3>3. \A z \in Members(got'[c]) : Once(got'[c], z)
      <4> SUFFICES ASSUME NEW z \in Members(got'[c]) PROVE Once(got'[c], z)
        OBVIOUS
      <4>1. z \in Members(got[c]) \/ z = k
        BY ONLY <1>8, z \in Members(got'[c]), c \in Client
      <4>2. CASE z = k
        <5>1. Once(Append(got[c], k), k)
          BY <3>1, AppendOrder
        <5> QED BY <3>1, <4>2, <5>1
      <4>3. CASE z # k
        <5>1. Once(got[c], z)
          BY <3>2, <4>1, <4>3
        <5>2. Once(Append(got[c], k), z)
          BY <3>1, <4>3, <5>1, AppendOrder
        <5> QED BY <3>1, <5>2
      <4> QED BY <4>2, <4>3
    <3>4. got'[c][x] \in Members(got'[c])
      BY DEF Members
    <3>5. Once(got'[c], got'[c][x])
      BY <3>3, <3>4
    <3> QED BY <3>5 DEF Once
  <2> QED BY <2>1, <2>2
<1> QED BY <1>9, <1>10, <1>11, <1>12, <1>13

-----------------------------------------------------------------------------
(* The steps: the lists                                                    *)

\* The broadcasts that are in a queue are the same, and none is twice.
SameLine(t, s) ==
    \A k \in Chunk : /\ k \in Members(t) <=> k \in Members(s)
                     /\ Once(s, k) => Once(t, k)

\* Those who are not broadcasts come and go without changing that.
LEMMA OthersInLine ==
    ASSUME NEW q \in Seq(Actor), NEW who \in Actor \ Chunk
    PROVE  /\ SameLine(q, q) /\ SameLine(Append(q, who), q)
           /\ q # <<>> /\ Head(q) = who => /\ Tail(q) \in Seq(Actor)
                                           /\ SameLine(Tail(q), q)
                                           /\ SameLine(Append(Tail(q), who), q)
<1>1. SameLine(q, q)
  BY DEF SameLine
<1>2. SameLine(Append(q, who), q)
  <2>1. /\ Members(Append(q, who)) = Members(q) \cup {who}
        /\ \A k : k # who /\ Once(q, k) => Once(Append(q, who), k)
    BY AppendOrder
  <2> QED BY <2>1 DEF SameLine
<1>3. ASSUME q # <<>>, Head(q) = who
      PROVE  /\ Tail(q) \in Seq(Actor) /\ SameLine(Tail(q), q)
             /\ SameLine(Append(Tail(q), who), q)
  <2>1. /\ Members(q) = Members(Tail(q)) \cup {who}
        /\ \A k : Once(q, k) => Once(Tail(q), k)
    BY <1>3, TailOrder
  <2>2. Tail(q) \in Seq(Actor)
    BY <1>3, HeadTailProperties
  <2>3. /\ Members(Append(Tail(q), who)) = Members(Tail(q)) \cup {who}
        /\ \A k : k # who /\ Once(Tail(q), k) => Once(Append(Tail(q), who), k)
    BY <2>2, AppendOrder
  <2>4. \A k \in Chunk : k # who
    OBVIOUS
  <2>5. SameLine(Tail(q), q)
    BY <2>1, <2>4 DEF SameLine
  <2>6. SameLine(Append(Tail(q), who), q)
    BY <2>1, <2>3, <2>4 DEF SameLine
  <2> QED BY <2>2, <2>5, <2>6
<1> QED BY <1>1, <1>2, <1>3

\* A sweep that is not one of a broadcast leaves the line of the broadcasts alone.
LEMMA SweepInLine ==
    ASSUME ClientTypes, NEW l \in ListId, NEW i \in Nat \ {0}, NEW dead \in SUBSET Client,
           NEW who \in Actor \ Chunk, NEW queues \in [Client -> Seq(Actor)],
           Sweep(who, l, i, dead, queues), \A c \in Client : SameLine(queues[c], waitq[c])
    PROVE  \A c \in Client : SameLine(waitq'[c], waitq[c])
<1> SUFFICES ASSUME NEW c \in Client PROVE SameLine(waitq'[c], waitq[c])
  OBVIOUS
<1>1. SameLine(queues[c], waitq[c]) /\ queues[c] \in Seq(Actor)
  OBVIOUS
<1>2. waitq'[c] = queues[c] \/ waitq'[c] = Append(queues[c], who)
  <2>1. \/ waitq' = queues
        \/ waitq' = [queues EXCEPT ![lists[l][StopAt(l, i)]] = Append(@, who)]
    BY DEF Sweep
  <2> QED BY <2>1
<1>3. SameLine(Append(queues[c], who), queues[c])
  BY <1>1, OthersInLine
<1> QED BY <1>1, <1>2, <1>3 DEF SameLine

\* The registered clients when lists shrink and the entry of the port stays or goes.
LEMMA RegisteredShrinks ==
    ASSUME ClientTypes, reg' \in {0, reg},
           \A l \in ListId : Members(lists'[l]) \subseteq Members(lists[l])
    PROVE  Registered' \subseteq Registered
<1>1. CASE reg' = 0
  BY <1>1 DEF Registered
<1>2. CASE reg' # 0
  <2>1. reg \in 0..MaxLists /\ MaxLists \in Nat /\ reg # 0 /\ reg' = reg
    BY <1>2, BoundsAssumption DEF ClientTypes
  <2>2. reg \in ListId
    BY <2>1 DEF ListId
  <2> QED BY <2>1, <2>2 DEF Registered
<1> QED BY <1>1, <1>2

\* A step that writes no chunk and registers nobody: clients leave lists, and those
\* that are no broadcasts come to wait or wait no more.
LEMMA QuietKeepsLists ==
    ASSUME ClientTypes, ClientTypes', ListInv, UNCHANGED <<log, bc, got>>,
           reg' \in {0, reg},
           \A l \in ListId : Shrunk(lists'[l], lists[l]),
           \A l \in ListId : Members(lists'[l]) \subseteq Members(lists[l]),
           \A c \in Client : hnd'[c] = "new" => hnd[c] = "new",
           \A c \in Registered' : \/ hnd'[c] = hnd[c]
                                  \/ hnd'[c] \in {"replaying", "greeting", "open"},
           \A c \in Client : SameLine(waitq'[c], waitq[c])
    PROVE  ListInv'
<1>1. /\ Distinct /\ Begun /\ Ahead /\ InLine /\ AtMostOnceLive
      /\ NoLeakedRegistration /\ ClientLimit
  BY DEF ListInv
<1>2. Distinct'
  BY <1>1, DistinctShrinks
<1>3. Begun'
  BY <1>1 DEF Begun
<1>4. Ahead'
  BY <1>1, AheadShrinks
<1>5. InLine'
  BY <1>1 DEF InLine, SameLine
<1>6. AtMostOnceLive'
  BY <1>1 DEF AtMostOnceLive
<1>7. Registered' \subseteq Registered
  BY RegisteredShrinks
<1>8. NoLeakedRegistration' /\ ClientLimit'
  <2>1. NoLeakedRegistration'
    BY <1>1, <1>7 DEF NoLeakedRegistration
  <2>2. ClientLimit'
    BY <1>1, <1>7, LimitKept
  <2> QED BY <2>1, <2>2
<1> QED BY <1>2, <1>3, <1>4, <1>5, <1>6, <1>8 DEF ListInv

\* A broadcast starts: nobody has its chunk yet and it waits for nobody.
LEMMA StartBegins ==
    ASSUME ClientTypes, ListInv, InOrder, BroadcastStart
    PROVE  LET k == Head(pending)
           IN  /\ k \in Chunk /\ k \in Nat /\ Len(log) \in Nat /\ Len(log') = Len(log) + 1
               /\ k = Len(log) + 1 /\ bc[k].pc = "idle"
               /\ \A c \in Client : k \notin Members(got[c]) /\ k \notin Members(waitq[c])
               /\ \A j \in Chunk : j # k => (j > Len(log) <=> j > Len(log'))
               /\ Registered # {} => /\ reg \in ListId /\ reg' = reg
                                     /\ RunsOn(k, reg, 1, {}, waitq)
<1> DEFINE k == Head(pending)
<1>1. /\ pending # <<>> /\ pending' = Tail(pending) /\ log' = Append(log, k)
      /\ UNCHANGED <<reg, hnd>>
      /\ \/ /\ Registered = {} /\ bc' = [bc EXCEPT ![k] = Done]
            /\ UNCHANGED <<lists, waitq, got>>
         \/ /\ Registered # {} /\ bc' = [bc EXCEPT ![k] = LoopAfter(reg, 1, {})]
            /\ got' = GotAfter(k, reg, 1) /\ Sweep(k, reg, 1, {}, waitq)
  BY DEF BroadcastStart
<1>2. /\ k \in Chunk /\ k \in Nat /\ Len(log) \in Nat /\ Len(log') = Len(log) + 1
      /\ k = Len(log) + 1
  <2>1. /\ pending \in Seq(Chunk) /\ log \in Seq(Chunk)
    BY DEF ClientTypes
  <2>2. k \in Chunk /\ k = pending[1] /\ 1 \in 1..Len(pending) /\ Len(log) \in Nat
    BY <1>1, <2>1, HeadTailProperties, LenProperties, EmptySeq
  <2>3. k = Len(log) + 1
    BY <2>2 DEF InOrder
  <2>4. Len(log') = Len(log) + 1
    BY <1>1, <2>1, <2>2, AppendProperties
  <2> QED BY <2>2, <2>3, <2>4 DEF Chunk
<1> HIDE DEF k
<1>3. /\ Distinct /\ Begun /\ Ahead /\ InLine /\ AtMostOnceLive
      /\ NoLeakedRegistration /\ ClientLimit
  BY DEF ListInv
<1>4. /\ bc[k].pc = "idle"
      /\ \A c \in Client : k \notin Members(got[c]) /\ k \notin Members(waitq[c])
  <2>1. bc[k].pc = "idle"
    BY <1>2, <1>3 DEF Begun
  <2>2. ASSUME NEW c \in Client PROVE k \notin Members(got[c])
    <3>1. \A i \in DOMAIN got[c] : got[c][i] <= Len(log)
      BY <1>3 DEF Begun
    <3>2. \A i \in DOMAIN got[c] : got[c][i] # k
      BY <1>2, <3>1
    <3> QED BY <3>2 DEF Members
  <2>3. ASSUME NEW c \in Client PROVE k \notin Members(waitq[c])
    BY <1>2, <1>3, <2>1 DEF InLine
  <2> QED BY <2>1, <2>2, <2>3
<1>5. \A j \in Chunk : j # k => (j > Len(log) <=> j > Len(log'))
  BY <1>2 DEF Chunk
<1>6. ASSUME Registered # {}
      PROVE  reg \in ListId /\ reg' = reg /\ RunsOn(k, reg, 1, {}, waitq)
  <2>1. reg \in ListId /\ 1 \in Nat \ {0} /\ {} \in SUBSET Client /\ k \in Actor
        /\ waitq \in [Client -> Seq(Actor)]
    <3>1. reg # 0 /\ reg \in 0..MaxLists /\ MaxLists \in Nat /\ waitq \in [Client -> Seq(Actor)]
      BY <1>6, BoundsAssumption DEF Registered, ClientTypes
    <3>2. reg \in ListId
      BY <3>1 DEF ListId
    <3> QED BY <1>2, <3>1, <3>2 DEF Actor
  <2>2. /\ bc' = [bc EXCEPT ![k] = LoopAfter(reg, 1, {})]
        /\ got' = GotAfter(k, reg, 1) /\ Sweep(k, reg, 1, {}, waitq) /\ UNCHANGED <<reg, hnd>>
    BY <1>1, <1>6
  <2>3. \A p \in DOMAIN lists[reg] : p >= 1 => k \notin Members(got[lists[reg][p]])
    <3>1. lists[reg] \in Seq(Client)
      BY <2>1 DEF ClientTypes
    <3> QED BY <1>4, <3>1, SeqFacts
  <2>4. \A c \in Client : \A j \in Chunk : j # k =>
              /\ j \in Members(waitq[c]) <=> bc[j].pc = "sending" /\ bc[j].at = c
              /\ Once(waitq[c], j)
    BY <1>3 DEF InLine
  <2>5. Len(log) <= Len(log') /\ k <= Len(log')
    BY <1>2
  <2>6. hnd' = hnd /\ \A c \in Client : k \notin Members(waitq[c])
    BY <1>4, <2>2
  <2> QED BY <1>5, <2>1, <2>2, <2>3, <2>4, <2>5, <2>6 DEF RunsOn
<1> QED BY <1>2, <1>4, <1>5, <1>6 DEF k

\* It keeps the lists.
LEMMA StartKeepsLists ==
    ASSUME ClientTypes, ClientTypes', ListInv, InOrder, BroadcastStart
    PROVE  ListInv'
<1> DEFINE k == Head(pending)
<1>1. /\ pending # <<>> /\ pending' = Tail(pending) /\ log' = Append(log, k)
      /\ UNCHANGED <<reg, hnd>>
      /\ \/ /\ Registered = {} /\ bc' = [bc EXCEPT ![k] = Done]
            /\ UNCHANGED <<lists, waitq, got>>
         \/ /\ Registered # {} /\ bc' = [bc EXCEPT ![k] = LoopAfter(reg, 1, {})]
            /\ got' = GotAfter(k, reg, 1) /\ Sweep(k, reg, 1, {}, waitq)
  BY DEF BroadcastStart
<1>2. /\ k \in Chunk /\ k \in Nat /\ Len(log) \in Nat /\ Len(log') = Len(log) + 1
      /\ k = Len(log) + 1 /\ bc[k].pc = "idle"
      /\ \A c \in Client : k \notin Members(got[c]) /\ k \notin Members(waitq[c])
      /\ \A j \in Chunk : j # k => (j > Len(log) <=> j > Len(log'))
      /\ Registered # {} => /\ reg \in ListId /\ reg' = reg
                            /\ RunsOn(k, reg, 1, {}, waitq)
  BY StartBegins
<1> HIDE DEF k
<1>3. /\ Distinct /\ Begun /\ Ahead /\ InLine /\ AtMostOnceLive
      /\ NoLeakedRegistration /\ ClientLimit
  BY DEF ListInv
<1>4. \A c \in Client : k \notin Members(got[c]) /\ k \notin Members(waitq[c])
  BY <1>2
<1>5. \A j \in Chunk : j # k => (j > Len(log) <=> j > Len(log'))
  BY <1>2
<1>6. CASE Registered = {}
  <2>1. bc' = [bc EXCEPT ![k] = Done] /\ UNCHANGED <<lists, waitq, got, reg, hnd>>
    BY <1>1, <1>6
  <2>2. /\ \A j \in Chunk : j # k => bc'[j] = bc[j]
        /\ bc'[k].pc = "done"
    <3>1. Done.pc = "done" /\ bc \in [Chunk -> Loop]
      BY DEF Done, Idle, ClientTypes
    <3> QED BY <1>2, <2>1, <3>1
  <2>3. Distinct' /\ AtMostOnceLive' /\ NoLeakedRegistration' /\ ClientLimit'
    BY <1>3, <2>1 DEF Distinct, AtMostOnceLive, NoLeakedRegistration, ClientLimit,
                      Registered, Members
  <2>4. Begun'
    <3>1. ASSUME NEW j \in Chunk PROVE bc'[j].pc = "idle" <=> j > Len(log')
      <4>1. CASE j = k
        BY <1>2, <2>2, <4>1
      <4>2. CASE j # k
        BY <1>3, <1>5, <2>2, <4>2 DEF Begun
      <4> QED BY <4>1, <4>2
    <3>2. ASSUME NEW c \in Client, NEW i \in DOMAIN got'[c] PROVE got'[c][i] <= Len(log')
      <4>1. got'[c] = got[c] /\ got[c] \in Seq(Chunk)
        BY <2>1 DEF ClientTypes
      <4>2. got[c][i] \in Chunk
        BY <4>1, SeqFacts
      <4>3. got[c][i] \in Nat /\ got[c][i] <= Len(log)
        BY <1>3, <4>1, <4>2 DEF Begun, Chunk
      <4> QED BY <1>2, <4>1, <4>3
    <3> QED BY <1>3, <2>1, <3>1, <3>2 DEF Begun
  <2>5. Ahead'
    <3> SUFFICES ASSUME NEW j \in Chunk, bc'[j].pc = "sending",
                        NEW p \in DOMAIN lists'[bc'[j].list], p > bc'[j].idx
                 PROVE  j \notin Members(got'[lists'[bc'[j].list][p]])
      BY DEF Ahead
    <3>1. bc'[j] = bc[j]
      BY <2>2
    <3> QED BY <1>3, <2>1, <3>1 DEF Ahead
  <2>6. InLine'
    <3> SUFFICES ASSUME NEW c \in Client, NEW j \in Chunk
                 PROVE  /\ j \in Members(waitq'[c]) <=> bc'[j].pc = "sending" /\ bc'[j].at = c
                        /\ Once(waitq'[c], j)
      BY DEF InLine
    <3>1. /\ waitq' = waitq
          /\ j \in Members(waitq[c]) <=> bc[j].pc = "sending" /\ bc[j].at = c
          /\ Once(waitq[c], j)
      BY <1>3, <2>1 DEF InLine
    <3>2. CASE j = k
      BY <1>4, <2>2, <3>1, <3>2
    <3>3. CASE j # k
      BY <2>2, <3>1, <3>3
    <3> QED BY <3>2, <3>3
  <2> QED BY <2>3, <2>4, <2>5, <2>6 DEF ListInv
<1>7. CASE Registered # {}
  <2>1. /\ reg \in ListId /\ 1 \in Nat \ {0} /\ {} \in SUBSET Client /\ k \in Chunk
        /\ waitq \in [Client -> Seq(Actor)] /\ RunsOn(k, reg, 1, {}, waitq) /\ k \in Actor
    <3>1. RunsOn(k, reg, 1, {}, waitq)
      BY <1>2, <1>7
    <3>2. /\ reg \in ListId /\ 1 \in Nat \ {0} /\ {} \in SUBSET Client /\ k \in Chunk
          /\ waitq \in [Client -> Seq(Actor)] /\ k \in Actor
      <4>1. reg \in ListId /\ k \in Chunk
        BY <1>2, <1>7
      <4>2. waitq \in [Client -> Seq(Actor)]
        BY DEF ClientTypes
      <4> QED BY ONLY <4>1, <4>2 DEF Actor
    <3> QED BY <3>1, <3>2, Zenon
  <2>2. reg' = reg /\ hnd' = hnd /\ Sweep(k, reg, 1, {}, waitq)
    BY <1>1, <1>7
  <2>6. Distinct' /\ Begun' /\ Ahead' /\ InLine' /\ AtMostOnceLive'
    BY ONLY ClientTypes, ClientTypes', ListInv, <2>1, RunKeepsLists
  <2>7. Registered' \subseteq Registered
    <3>1. \A l \in ListId : Members(lists'[l]) \subseteq Members(lists[l])
      BY <2>1, <2>2, SweepProperties
    <3> QED BY <2>2, <3>1, RegisteredShrinks
  <2>8. NoLeakedRegistration'
    BY <1>3, <2>2, <2>7 DEF NoLeakedRegistration
  <2>9. ClientLimit'
    BY <1>3, <2>7, LimitKept
  <2> QED BY <2>6, <2>8, <2>9 DEF ListInv
<1> QED BY <1>6, <1>7

\* A broadcast goes on: it has written to nobody beyond the index it waited at, and
\* it was the first in line there.
LEMMA ResumeRunsOn ==
    ASSUME ClientTypes, ListInv, NEW k \in Chunk, BroadcastResume(k)
    PROVE  /\ bc[k].pc = "sending" /\ Released(k, bc[k].at) /\ k <= Len(log)
           /\ bc[k].list \in ListId /\ bc[k].idx \in Nat /\ bc[k].idx + 1 \in Nat \ {0}
           /\ bc[k].at \in Client /\ DeadOf(bc[k]) \in SUBSET Client
           /\ Dequeued(bc[k].at) \in [Client -> Seq(Actor)] /\ UNCHANGED <<log, reg, hnd, sock, closer>>
           /\ RunsOn(k, bc[k].list, bc[k].idx + 1, DeadOf(bc[k]), Dequeued(bc[k].at))
<1> DEFINE b == bc[k]
<1>1. /\ b.pc = "sending" /\ Released(k, b.at)
      /\ bc' = [bc EXCEPT ![k] = LoopAfter(b.list, b.idx + 1, DeadOf(b))]
      /\ got' = GotAfter(k, b.list, b.idx + 1)
      /\ Sweep(k, b.list, b.idx + 1, DeadOf(b), Dequeued(b.at))
      /\ UNCHANGED <<log, reg, hnd, sock, closer>>
  BY DEF BroadcastResume
<1>2. /\ Distinct /\ Begun /\ Ahead /\ InLine /\ AtMostOnceLive
      /\ NoLeakedRegistration /\ ClientLimit
  BY DEF ListInv
<1>3. b \in Loop /\ Suspended(b)
  BY <1>1 DEF ClientTypes
<1>4. /\ \A p \in DOMAIN lists[b.list] : p > b.idx => k \notin Members(got[lists[b.list][p]])
      /\ k \in Members(waitq[b.at]) /\ Once(waitq[b.at], k)
      /\ \A c \in Client : c # b.at => k \notin Members(waitq[c])
      /\ k <= Len(log)
  <2>1. \A p \in DOMAIN lists[b.list] : p > b.idx => k \notin Members(got[lists[b.list][p]])
    BY <1>1, <1>2 DEF Ahead
  <2>2. b.at \in Client
    BY <1>3 DEF Suspended
  <2>3. /\ k \in Members(waitq[b.at]) /\ Once(waitq[b.at], k)
        /\ \A c \in Client : c # b.at => k \notin Members(waitq[c])
    BY <1>1, <1>2, <2>2 DEF InLine
  <2>4. k <= Len(log)
    <3>1. ~(k > Len(log)) /\ log \in Seq(Chunk)
      BY <1>1, <1>2 DEF Begun, ClientTypes
    <3> QED BY <3>1, LenProperties DEF Chunk
  <2> QED BY <2>1, <2>3, <2>4
<1> DEFINE l == b.list  i == b.idx + 1  at == b.at  dead == DeadOf(b)
           queues == Dequeued(at)
<1> HIDE DEF b
<1>5. l \in ListId /\ i \in Nat \ {0} /\ at \in Client /\ i = b.idx + 1 /\ b.idx \in Nat
  BY <1>3 DEF Loop, Suspended
<1>6. /\ dead \in SUBSET Client /\ queues \in [Client -> Seq(Actor)]
      /\ waitq[at] # <<>> /\ Head(waitq[at]) = k /\ waitq[at] \in Seq(Actor)
      /\ \A c \in Client : queues[c] = IF c = at THEN Tail(waitq[at]) ELSE waitq[c]
  <2>1. waitq[at] \in Seq(Actor)
    BY <1>5 DEF ClientTypes
  <2> QED BY <1>1, <1>3, <1>5, <2>1, DeadOfType, DequeuedProperties
<1>7. /\ k \notin Members(Tail(waitq[at]))
      /\ \A j : j # k => (j \in Members(Tail(waitq[at])) <=> j \in Members(waitq[at]))
      /\ \A j : Once(waitq[at], j) => Once(Tail(waitq[at]), j)
  <2>1. /\ Members(waitq[at]) = Members(Tail(waitq[at])) \cup {k}
        /\ \A j : Once(waitq[at], j) => Once(Tail(waitq[at]), j)
        /\ Once(waitq[at], k) => k \notin Members(Tail(waitq[at]))
    BY <1>6, TailOrder
  <2> QED BY <1>4, <2>1
<1>8. bc[k] = b
  BY DEF b
<1>9. /\ bc' = [bc EXCEPT ![k] = LoopAfter(l, i, dead)]
      /\ got' = GotAfter(k, l, i) /\ Sweep(k, l, i, dead, queues)
  BY <1>1
<1>10. \A p \in DOMAIN lists[l] : p >= i => k \notin Members(got[lists[l][p]])
  <2>1. lists[l] \in Seq(Client)
    BY <1>5 DEF ClientTypes
  <2>2. DOMAIN lists[l] \subseteq Nat
    BY <2>1, SeqFacts
  <2> QED BY <1>4, <1>5, <2>2
<1> HIDE DEF l, i, at, dead, queues
<1>11. \A c \in Client : k \notin Members(queues[c])
  BY <1>4, <1>6, <1>7 DEF at
<1>12. ASSUME NEW c \in Client, NEW j \in Chunk, j # k
       PROVE  /\ j \in Members(queues[c]) <=> bc[j].pc = "sending" /\ bc[j].at = c
              /\ Once(queues[c], j)
  <2>1. /\ j \in Members(waitq[c]) <=> bc[j].pc = "sending" /\ bc[j].at = c
        /\ Once(waitq[c], j)
    BY <1>2 DEF InLine
  <2>2. CASE c = at
    BY <1>6, <1>7, <1>12, <2>1, <2>2
  <2>3. CASE c # at
    BY <1>6, <2>1, <2>3
  <2> QED BY <2>2, <2>3
<1>13. Len(log) <= Len(log') /\ k <= Len(log') /\ log' = log
  <2>1. Len(log) \in Nat
    BY LenProperties DEF ClientTypes
  <2> QED BY <1>1, <1>4, <2>1
<1>14. RunsOn(k, l, i, dead, queues)
  <2>1. hnd' = hnd /\ k \in Chunk
    BY <1>1
  <2>2. \A j \in Chunk : j # k => (j > Len(log) <=> j > Len(log'))
    BY <1>13
  <2>3. \A c \in Client : \A j \in Chunk : j # k =>
           /\ j \in Members(queues[c]) <=> bc[j].pc = "sending" /\ bc[j].at = c
           /\ Once(queues[c], j)
    BY <1>12
  <2> QED BY <1>9, <1>10, <1>11, <1>13, <2>1, <2>2, <2>3 DEF RunsOn
<1> QED BY <1>1, <1>4, <1>5, <1>6, <1>8, <1>14 DEF l, i, at, dead, queues

\* It keeps the lists.
LEMMA ResumeKeepsLists ==
    ASSUME ClientTypes, ClientTypes', ListInv, NEW k \in Chunk, BroadcastResume(k)
    PROVE  ListInv'
<1> DEFINE l == bc[k].list  i == bc[k].idx + 1  dead == DeadOf(bc[k])
           queues == Dequeued(bc[k].at)
<1>1. /\ l \in ListId /\ i \in Nat \ {0} /\ dead \in SUBSET Client
      /\ queues \in [Client -> Seq(Actor)] /\ UNCHANGED <<log, reg, hnd, sock, closer>>
      /\ RunsOn(k, l, i, dead, queues)
  BY ResumeRunsOn
<1> HIDE DEF l, i, dead, queues
<1>2. NoLeakedRegistration /\ ClientLimit
  BY DEF ListInv
<1>3. Distinct' /\ Begun' /\ Ahead' /\ InLine' /\ AtMostOnceLive'
  BY ONLY ClientTypes, ClientTypes', ListInv, k \in Chunk, <1>1, RunKeepsLists
<1>4. Registered' \subseteq Registered
  <2>1. k \in Actor
    BY DEF Actor
  <2>2. \A m \in ListId : Members(lists'[m]) \subseteq Members(lists[m])
    BY <1>1, <2>1, SweepProperties DEF RunsOn
  <2> QED BY <1>1, <2>2, RegisteredShrinks
<1>5. NoLeakedRegistration'
  BY <1>1, <1>2, <1>4 DEF NoLeakedRegistration
<1>6. ClientLimit'
  BY <1>2, <1>4, LimitKept
<1> QED BY <1>3, <1>5, <1>6 DEF ListInv

\* A handler ends or fails: its client is no longer registered.
LEMMA HandlerKeepsLists ==
    ASSUME ClientTypes, ClientTypes', ListInv, NEW c \in Client,
           HandlerEnds(c) \/ HandlerFails(c)
    PROVE  ListInv'
<1>1. /\ Disconnect(c) /\ hnd' = [hnd EXCEPT ![c] = "done"]
      /\ UNCHANGED <<log, bc, waitq, got>>
  BY DEF HandlerEnds, HandlerFails
<1>2. /\ reg' \in {0, reg}
      /\ \A l \in ListId : Shrunk(lists'[l], lists[l])
      /\ \A l \in ListId : Members(lists'[l]) \subseteq Members(lists[l])
      /\ reg' # 0 => Members(lists'[reg]) = Members(lists[reg]) \ {c}
  BY <1>1, DisconnectProperties
<1>3. /\ hnd \in [Client -> {"new", "replaying", "greeting", "open", "done", "crashed"}]
      /\ waitq \in [Client -> Seq(Actor)]
  BY DEF ClientTypes
<1>4. c \notin Registered'
  BY <1>2 DEF Registered
<1>5. \A d \in Client : hnd'[d] = "new" => hnd[d] = "new"
  BY <1>1, <1>3
<1>6. \A d \in Registered' : hnd'[d] = hnd[d]
  BY <1>1, <1>3, <1>4
<1>7. \A d \in Client : SameLine(waitq'[d], waitq[d])
  BY <1>1 DEF SameLine
<1> QED BY <1>1, <1>2, <1>5, <1>6, <1>7, QuietKeepsLists

\* connect goes on: when it crashes, there is no list.
LEMMA ConnectResumeKeepsLists ==
    ASSUME ClientTypes, ClientTypes', ListInv, NEW c \in Client, ConnectResume(c)
    PROVE  ListInv'
<1>1. /\ hnd[c] \in {"replaying", "greeting"} /\ Released(c, c)
      /\ \/ hnd' = [hnd EXCEPT ![c] = "greeting"]
         \/ hnd' = [hnd EXCEPT ![c] = "open"]
         \/ hnd' = [hnd EXCEPT ![c] = "crashed"] /\ reg = 0
      /\ \/ waitq' = [waitq EXCEPT ![c] = Append(Tail(@), c)]
         \/ waitq' = Dequeued(c)
      /\ UNCHANGED <<log, lists, reg, bc, got>>
  BY DEF ConnectResume
<1>2. /\ hnd \in [Client -> {"new", "replaying", "greeting", "open", "done", "crashed"}]
      /\ waitq \in [Client -> Seq(Actor)] /\ waitq[c] # <<>> /\ Head(waitq[c]) = c
      /\ lists \in [ListId -> Seq(Client)]
  BY <1>1 DEF ClientTypes, Released
<1>3. \A d \in Client : hnd'[d] = "new" => hnd[d] = "new"
  BY <1>1, <1>2
<1>4. \A d \in Registered' : \/ hnd'[d] = hnd[d]
                             \/ hnd'[d] \in {"replaying", "greeting", "open"}
  <2>1. CASE reg = 0
    BY <1>1, <2>1 DEF Registered
  <2>2. CASE reg # 0
    <3>1. ASSUME NEW d \in Registered', d # c PROVE hnd'[d] = hnd[d]
      <4>1. d \in Client
        <5>1. reg \in 0..MaxLists /\ MaxLists \in Nat
          BY BoundsAssumption DEF ClientTypes
        <5>2. reg \in ListId /\ Registered' = Members(lists[reg])
          BY <1>1, <2>2, <5>1 DEF ListId, Registered
        <5> QED BY <1>2, <5>2, SeqFacts DEF Members
      <4> QED BY <1>1, <1>2, <3>1, <4>1
    <3>2. hnd'[c] \in {"greeting", "open"}
      BY <1>1, <1>2, <2>2
    <3> QED BY <3>1, <3>2
  <2> QED BY <2>1, <2>2
<1>5. ASSUME NEW d \in Client PROVE SameLine(waitq'[d], waitq[d])
  <2>1. c \in Actor \ Chunk
    BY ClientAssumption DEF Actor, Chunk
  <2>2. CASE d = c
    <3>1. waitq[c] \in Seq(Actor)
      BY <1>2
    <3>2. SameLine(Tail(waitq[c]), waitq[c]) /\ SameLine(Append(Tail(waitq[c]), c), waitq[c])
      BY <1>2, <2>1, <3>1, OthersInLine
    <3>3. waitq'[c] \in {Tail(waitq[c]), Append(Tail(waitq[c]), c)}
      BY <1>1, <1>2 DEF Dequeued
    <3> QED BY <2>2, <3>2, <3>3
  <2>3. CASE d # c
    <3>1. waitq'[d] = waitq[d]
      BY <1>1, <1>2, <2>3 DEF Dequeued
    <3> QED BY <3>1 DEF SameLine
  <2> QED BY <2>2, <2>3
<1>6. /\ \A l \in ListId : Shrunk(lists'[l], lists[l])
      /\ \A l \in ListId : Members(lists'[l]) \subseteq Members(lists[l])
      /\ reg' \in {0, reg}
  BY <1>1, <1>2, ShrunkIsReflexive
<1> QED BY <1>1, <1>3, <1>4, <1>5, <1>6, QuietKeepsLists

\* A step of close_port.
LEMMA StatusFromKeepsLists ==
    ASSUME ClientTypes, ClientTypes', ListInv, NEW l \in ListId, NEW i \in Nat \ {0},
           NEW dead \in SUBSET Client, NEW queues \in [Client -> Seq(Actor)],
           \A c \in Client : SameLine(queues[c], waitq[c]),
           StatusFrom(l, i, dead, queues), UNCHANGED <<log, bc, hnd, got>>
    PROVE  ListInv'
<1>1. Sweep(Closer, l, i, dead, queues) /\ Closer \in Actor \ Chunk /\ reg' \in {0, reg}
  BY DEF StatusFrom, DisconnectAll, Actor, Chunk, Closer
<1>2. /\ \A m \in ListId : Shrunk(lists'[m], lists[m])
      /\ \A m \in ListId : Members(lists'[m]) \subseteq Members(lists[m])
  BY <1>1, SweepProperties
<1>3. \A c \in Client : SameLine(waitq'[c], waitq[c])
  BY <1>1, SweepInLine
<1> QED BY <1>1, <1>2, <1>3, QuietKeepsLists

\* The lists, in a step of close_port.
LEMMA CloserKeepsLists ==
    ASSUME ClientTypes, ClientTypes', ListInv,
           StatusStart \/ StatusResume \/ DisconnectResume
    PROVE  ListInv'
<1>0. /\ waitq \in [Client -> Seq(Actor)] /\ reg \in 0..MaxLists /\ MaxLists \in Nat
      /\ lists \in [ListId -> Seq(Client)]
      /\ 1 \in Nat \ {0} /\ {} \in SUBSET Client
  <2>1. waitq \in [Client -> Seq(Actor)] /\ reg \in 0..MaxLists
        /\ lists \in [ListId -> Seq(Client)]
    BY DEF ClientTypes
  <2> QED BY <2>1, BoundsAssumption
<1>1. CASE StatusStart /\ reg # 0
  <2>1. reg \in ListId
    BY <1>0, <1>1 DEF ListId
  <2>2. StatusFrom(reg, 1, {}, waitq) /\ UNCHANGED <<log, bc, hnd, got>>
    BY <1>1 DEF StatusStart
  <2>3. \A c \in Client : SameLine(waitq[c], waitq[c])
    BY DEF SameLine
  <2> QED BY <1>0, <2>1, <2>2, <2>3, StatusFromKeepsLists
<1>2. CASE (StatusStart /\ reg = 0) \/ DisconnectResume
  <2>1. UNCHANGED <<log, lists, bc, hnd, waitq, got>> /\ reg' \in {0, reg}
    BY <1>2 DEF StatusStart, DisconnectAll, DisconnectResume
  <2>2. \A c \in Client : SameLine(waitq'[c], waitq[c])
    BY <2>1 DEF SameLine
  <2>3. /\ \A l \in ListId : Shrunk(lists'[l], lists[l])
        /\ \A l \in ListId : Members(lists'[l]) \subseteq Members(lists[l])
    BY <1>0, <2>1, ShrunkIsReflexive
  <2> QED BY <2>1, <2>2, <2>3, QuietKeepsLists
<1>3. CASE StatusResume
  <2> DEFINE b == closer.loop
  <2>1. /\ b.pc = "sending" /\ Released(Closer, b.at)
        /\ StatusFrom(b.list, b.idx + 1, DeadOf(b), Dequeued(b.at))
        /\ UNCHANGED <<log, bc, hnd, got>>
    BY <1>3 DEF StatusResume
  <2>2. b \in Loop /\ Suspended(b)
    BY <2>1 DEF ClientTypes
  <2> HIDE DEF b
  <2>3. b.list \in ListId /\ b.idx + 1 \in Nat \ {0} /\ b.at \in Client
    BY <2>2 DEF Loop, Suspended
  <2>4. DeadOf(b) \in SUBSET Client /\ Dequeued(b.at) \in [Client -> Seq(Actor)]
    BY <2>1, <2>2, <2>3, DeadOfType, DequeuedProperties
  <2>5. /\ \A d \in Client : Dequeued(b.at)[d] = IF d = b.at THEN Tail(waitq[b.at]) ELSE waitq[d]
        /\ waitq[b.at] # <<>> /\ Head(waitq[b.at]) = Closer /\ Closer \in Actor \ Chunk
        /\ waitq[b.at] \in Seq(Actor)
    <3>1. Closer \in Actor \ Chunk
      BY DEF Closer, Actor, Chunk
    <3> QED BY <1>0, <2>1, <2>3, <3>1, DequeuedProperties
  <2>6. SameLine(Tail(waitq[b.at]), waitq[b.at])
    BY <2>5, OthersInLine
  <2>7. \A d \in Client : SameLine(waitq[d], waitq[d])
    BY DEF SameLine
  <2>8. \A d \in Client : SameLine(Dequeued(b.at)[d], waitq[d])
    BY <2>5, <2>6, <2>7
  <2> QED BY <2>1, <2>3, <2>4, <2>8, StatusFromKeepsLists
<1> QED BY <1>1, <1>2, <1>3

\* What connect does to the lists: the client is put at the end of the list of the
\* port, or on a new one that no broadcast goes over.
LEMMA ConnectLists ==
    ASSUME ClientTypes, NEW c \in Client, Connect(c)
    PROVE  /\ hnd[c] = "new" /\ Admits
           /\ UNCHANGED <<log, ring, bc, got, departed, sock, closes, closer>>
           /\ reg' \in ListId
           /\ \A l \in ListId : l # reg' => lists'[l] = lists[l]
           /\ \/ /\ reg # 0 /\ reg' = reg /\ lists'[reg'] = Append(lists[reg'], c)
              \/ /\ reg = 0 /\ lists'[reg'] = <<c>>
                 /\ \A k \in Chunk : bc[k].list # reg'
           /\ \A d \in Client : d # c => hnd'[d] = hnd[d]
           /\ hnd'[c] \in {"replaying", "greeting", "open"}
           /\ \A d \in Client : waitq'[d] = waitq[d] \/ (d = c /\ waitq'[d] = Append(waitq[d], c))
<1>1. /\ hnd[c] = "new" /\ Admits
      /\ \/ reg # 0 /\ lists' = [lists EXCEPT ![reg] = Append(@, c)] /\ UNCHANGED reg
         \/ /\ reg = 0
            /\ \E l \in ListId : Unreferenced(l) /\ lists' = [lists EXCEPT ![l] = <<c>>] /\ reg' = l
      /\ UNCHANGED <<log, ring, bc, got, departed, sock, closes, closer>>
  <2>1. \/ reg # 0 /\ lists' = [lists EXCEPT ![reg] = Append(@, c)] /\ UNCHANGED reg
        \/ /\ reg = 0
           /\ \E l \in ListId : Unreferenced(l) /\ lists' = [lists EXCEPT ![l] = <<c>>] /\ reg' = l
    BY DEF Connect
  <2> QED BY <2>1 DEF Connect
<1>2. /\ hnd' \in {[hnd EXCEPT ![c] = "replaying"], [hnd EXCEPT ![c] = "greeting"],
                   [hnd EXCEPT ![c] = "open"]}
      /\ waitq' = [waitq EXCEPT ![c] = Append(@, c)] \/ waitq' = waitq
  BY DEF Connect
<1>3. /\ lists \in [ListId -> Seq(Client)] /\ waitq \in [Client -> Seq(Actor)]
      /\ hnd \in [Client -> {"new", "replaying", "greeting", "open", "done", "crashed"}]
      /\ reg \in 0..MaxLists /\ MaxLists \in Nat
  BY BoundsAssumption DEF ClientTypes
<1>4. /\ reg' \in ListId
      /\ \A l \in ListId : l # reg' => lists'[l] = lists[l]
      /\ \/ /\ reg # 0 /\ reg' = reg /\ lists'[reg'] = Append(lists[reg'], c)
         \/ /\ reg = 0 /\ lists'[reg'] = <<c>>
            /\ \A k \in Chunk : bc[k].list # reg'
  <2>1. CASE reg # 0
    <3>1. reg \in ListId
      BY <1>3, <2>1 DEF ListId
    <3> QED BY <1>1, <1>3, <2>1, <3>1
  <2>2. CASE reg = 0
    <3>1. PICK l \in ListId : Unreferenced(l) /\ lists' = [lists EXCEPT ![l] = <<c>>] /\ reg' = l
      BY <1>1, <2>2
    <3>2. \A k \in Chunk : bc[k].list # l
      BY <3>1 DEF Unreferenced
    <3> QED BY <1>3, <2>2, <3>1, <3>2
  <2> QED BY <2>1, <2>2
<1>5. /\ \A d \in Client : d # c => hnd'[d] = hnd[d]
      /\ hnd'[c] \in {"replaying", "greeting", "open"}
      /\ \A d \in Client : waitq'[d] = waitq[d] \/ (d = c /\ waitq'[d] = Append(waitq[d], c))
  BY <1>2, <1>3
<1> QED BY <1>1, <1>4, <1>5

\* A client connects: it is on no list yet and has nothing, and there is room.
LEMMA ConnectKeepsLists ==
    ASSUME ClientTypes, ClientTypes', ListInv, NEW c \in Client, Connect(c)
    PROVE  ListInv'
<1> DEFINE r == reg'  s == lists[r]  t == lists'[r]
<1>1. /\ hnd[c] = "new" /\ Admits
      /\ UNCHANGED <<log, ring, bc, got, departed, sock, closes, closer>>
      /\ r \in ListId
      /\ \A l \in ListId : l # r => lists'[l] = lists[l]
      /\ \/ /\ reg # 0 /\ r = reg /\ t = Append(s, c)
         \/ /\ reg = 0 /\ t = <<c>> /\ \A k \in Chunk : bc[k].list # r
      /\ \A d \in Client : d # c => hnd'[d] = hnd[d]
      /\ hnd'[c] \in {"replaying", "greeting", "open"}
      /\ \A d \in Client : waitq'[d] = waitq[d] \/ (d = c /\ waitq'[d] = Append(waitq[d], c))
  BY ConnectLists
<1>2. /\ Distinct /\ Begun /\ Ahead /\ InLine /\ AtMostOnceLive
      /\ NoLeakedRegistration /\ ClientLimit
  BY DEF ListInv
<1>3. /\ s \in Seq(Client) /\ t \in Seq(Client)
  BY <1>1 DEF ClientTypes
<1> HIDE DEF r, s, t
<1>4. /\ Len(s) \in Nat /\ DOMAIN s = 1..Len(s) /\ \A i \in DOMAIN s : s[i] \in Client
      /\ DOMAIN t \subseteq Nat /\ r \in ListId /\ lists[r] = s /\ lists'[r] = t
  BY <1>1, <1>3, SeqFacts DEF r, s, t
<1>5. \A i \in DOMAIN t : t[i] = c \/ (reg # 0 /\ i \in DOMAIN s /\ t[i] = s[i])
  <2>1. CASE t = <<c>>
    BY <2>1
  <2>2. CASE reg # 0 /\ t = Append(s, c)
    <3>1. Len(t) = Len(s) + 1 /\ t[Len(s) + 1] = c /\ \A i \in 1..Len(s) : t[i] = s[i]
      BY <1>3, <2>2, AppendProperties
    <3>2. \A i \in DOMAIN t : i \in 1..Len(s) + 1
      BY <1>3, <3>1, LenProperties
    <3> QED BY <1>4, <2>2, <3>1, <3>2
  <2> QED BY <1>1, <2>1, <2>2
<1>6. \A i, j \in DOMAIN t : i # j => t[i] # c \/ t[j] # c
  <2>1. CASE t = <<c>>
    BY <2>1
  <2>2. CASE t = Append(s, c)
    <3>1. Len(t) = Len(s) + 1 /\ t[Len(s) + 1] = c /\ \A i \in 1..Len(s) : t[i] = s[i]
      BY <1>3, <2>2, AppendProperties
    <3>2. \A i \in DOMAIN t : i \in 1..Len(s) \/ i = Len(s) + 1
      BY <1>3, <1>4, <3>1, LenProperties
    <3>3. \A i \in 1..Len(s) : s[i] # c
      BY <1>1, <1>2, <1>4 DEF Distinct
    <3> QED BY <3>1, <3>2, <3>3
  <2> QED BY <1>1, <2>1, <2>2
<1>7. Distinct'
  <2> SUFFICES ASSUME NEW l \in ListId, NEW i \in DOMAIN lists'[l], NEW j \in DOMAIN lists'[l]
               PROVE  /\ i # j => lists'[l][i] # lists'[l][j]
                      /\ hnd'[lists'[l][i]] # "new"
    BY DEF Distinct
  <2>0. \A d \in Client : hnd[d] # "new" => hnd'[d] # "new"
    BY <1>1
  <2>1. CASE l # r
    <3>1. lists'[l] = lists[l] /\ lists[l] \in Seq(Client)
      BY <1>1, <2>1 DEF ClientTypes
    <3>2. lists[l][i] \in Client
      BY <3>1, SeqFacts
    <3>3. hnd[lists[l][i]] # "new" /\ (i # j => lists[l][i] # lists[l][j])
      BY <1>2, <3>1 DEF Distinct
    <3> QED BY <2>0, <3>1, <3>2, <3>3
  <2>2. CASE l = r
    <3>1. i \in DOMAIN t /\ j \in DOMAIN t /\ lists'[l] = t
      BY <1>4, <2>2
    <3>2. hnd'[t[i]] # "new"
      <4>1. CASE t[i] = c
        BY <1>1, <4>1
      <4>2. CASE i \in DOMAIN s /\ t[i] = s[i]
        <5>1. s[i] \in Client /\ hnd[s[i]] # "new"
          BY <1>2, <1>4, <4>2 DEF Distinct
        <5> QED BY <2>0, <4>2, <5>1
      <4> QED BY <1>5, <3>1, <4>1, <4>2
    <3>3. ASSUME i # j, t[i] = t[j] PROVE FALSE
      <4>1. t[i] # c /\ t[j] # c
        BY <1>6, <3>1, <3>3
      <4>2. i \in DOMAIN s /\ j \in DOMAIN s /\ s[i] = s[j]
        BY <1>5, <3>1, <3>3, <4>1
      <4> QED BY <1>2, <1>4, <3>3, <4>2 DEF Distinct
    <3> QED BY <3>1, <3>2, <3>3
  <2> QED BY <2>1, <2>2
<1>8. Begun' /\ AtMostOnceLive'
  <2>1. \A d \in Client : hnd'[d] = "new" => hnd[d] = "new"
    BY <1>1
  <2>2. Begun'
    BY <1>1, <1>2, <2>1 DEF Begun
  <2>3. AtMostOnceLive'
    BY <1>1, <1>2 DEF AtMostOnceLive
  <2> QED BY <2>2, <2>3
<1>9. Ahead'
  <2> SUFFICES ASSUME NEW k \in Chunk, bc[k].pc = "sending",
                      NEW p \in DOMAIN lists'[bc[k].list], p > bc[k].idx
               PROVE  k \notin Members(got[lists'[bc[k].list][p]])
    BY <1>1 DEF Ahead
  <2>1. bc[k].list \in ListId
    BY DEF ClientTypes, Suspended
  <2>2. CASE bc[k].list # r
    BY <1>1, <1>2, <2>1, <2>2 DEF Ahead
  <2>3. CASE bc[k].list = r
    <3>1. p \in DOMAIN t /\ lists'[bc[k].list] = t
      BY <1>4, <2>3
    <3>2. CASE t[p] = c
      <4>1. got[c] = <<>>
        BY <1>1, <1>2 DEF Begun
      <4> QED BY <3>1, <3>2, <4>1 DEF Members
    <3>3. CASE p \in DOMAIN s /\ t[p] = s[p]
      BY <1>2, <1>4, <2>3, <3>1, <3>3 DEF Ahead
    <3> QED BY <1>5, <3>1, <3>2, <3>3
  <2> QED BY <2>2, <2>3
<1>10. InLine'
  <2>1. ASSUME NEW d \in Client PROVE SameLine(waitq'[d], waitq[d])
    <3>0. c \in Actor \ Chunk
      BY ClientAssumption DEF Actor, Chunk
    <3>1. waitq[d] \in Seq(Actor) /\ c \in Actor \ Chunk
      BY <3>0 DEF ClientTypes
    <3>2. SameLine(waitq[d], waitq[d]) /\ SameLine(Append(waitq[d], c), waitq[d])
      BY <3>1, OthersInLine
    <3>3. waitq'[d] \in {waitq[d], Append(waitq[d], c)}
      BY <1>1
    <3> QED BY <3>2, <3>3
  <2> QED BY <1>1, <1>2, <2>1 DEF InLine, SameLine
<1>11. Registered' \subseteq Registered \cup {c} /\ c \notin Registered /\ IsFiniteSet(Registered)
  <2>1. Registered' = Members(t)
    BY <1>4 DEF Registered, ListId, r
  <2>2. reg # 0 => Registered = Members(s)
    BY <1>1, <1>4 DEF Registered
  <2>3. Members(t) \subseteq Registered \cup {c}
    BY <1>5, <2>2 DEF Members
  <2>4. IsFiniteSet(Registered)
    <3>1. CASE reg = 0
      BY <3>1, FS_EmptySet DEF Registered
    <3>2. CASE reg # 0
      BY <1>3, <2>2, <3>2, MembersFinite
    <3> QED BY <3>1, <3>2
  <2>5. c \notin Registered
    BY <1>1, <1>2 DEF NoLeakedRegistration
  <2> QED BY <2>1, <2>3, <2>4, <2>5
<1>12. NoLeakedRegistration'
  <2> SUFFICES ASSUME NEW d \in Registered' PROVE hnd'[d] \in {"replaying", "greeting", "open"}
    BY DEF NoLeakedRegistration
  <2>1. CASE d = c
    BY <1>1, <2>1
  <2>2. CASE d # c
    <3>1. d \in Registered /\ hnd[d] \in {"replaying", "greeting", "open"}
      BY <1>2, <1>11, <2>2 DEF NoLeakedRegistration
    <3>2. d \in Client
      <4>1. Registered' = Members(t)
        BY <1>4 DEF Registered, ListId, r
      <4> QED BY <1>3, <4>1, SeqFacts DEF Members
    <3> QED BY <1>1, <2>2, <3>1, <3>2
  <2> QED BY <2>1, <2>2
<1>13. ClientLimit'
  <2>1. Cardinality(Registered \cup {c}) = Cardinality(Registered) + 1
        /\ IsFiniteSet(Registered \cup {c})
    BY <1>11, FS_AddElement
  <2>2. Cardinality(Registered') <= Cardinality(Registered \cup {c}) /\ IsFiniteSet(Registered')
    BY <1>11, <2>1, FS_Subset
  <2>3. Cardinality(Registered') \in Nat /\ Cardinality(Registered) \in Nat /\ MaxClients \in Nat
    BY <1>11, <2>2, FS_CardinalityType, BoundsAssumption
  <2>4. Cardinality(Registered) < MaxClients
    BY <1>1 DEF Admits
  <2> QED BY <2>1, <2>2, <2>3, <2>4 DEF ClientLimit
<1> QED BY <1>7, <1>8, <1>9, <1>10, <1>12, <1>13 DEF ListInv

\* Every step.
LEMMA ListsKept ==
    ASSUME ClientTypes, ClientTypes', InOrder, ListInv, [Next]_vars
    PROVE  ListInv'
<1>1. CASE BroadcastSync \/ ClosePort \/ OpenPort
  <2>1. UNCHANGED <<log, lists, reg, bc, hnd, waitq, got>>
    BY <1>1 DEF BroadcastSync, ClosePort, OpenPort
  <2> QED BY <2>1, ListFrame
<1>2. ASSUME NEW c \in Client,
             Stall(c) \/ Drain(c) \/ WriteBegins(c) \/ WriteEnds(c) \/ ConnectionLost(c)
      PROVE  ListInv'
  <2>1. UNCHANGED <<log, lists, reg, bc, hnd, waitq, got>>
    BY <1>2 DEF Stall, Drain, WriteBegins, WriteEnds, ConnectionLost
  <2> QED BY <2>1, ListFrame
<1>3. CASE UNCHANGED vars
  BY <1>3, ListFrame DEF vars
<1> QED BY <1>1, <1>2, <1>3, StartKeepsLists, ResumeKeepsLists, ConnectKeepsLists,
           ConnectResumeKeepsLists, HandlerKeepsLists, CloserKeepsLists DEF Next

-----------------------------------------------------------------------------
(* The invariants of the lists                                             *)

\* Initially.
LEMMA ListsInit ==
    ASSUME Init
    PROVE  ClientTypes /\ ListInv
<1>1. /\ portOpen = TRUE /\ read = 0 /\ pending = <<>> /\ ring = <<>> /\ log = <<>>
      /\ lists = [l \in ListId |-> <<>>] /\ reg = 0
      /\ bc = [k \in Chunk |-> Idle] /\ hnd = [c \in Client |-> "new"]
      /\ sock = [c \in Client |-> "up"] /\ paused = [c \in Client |-> FALSE]
      /\ waitq = [c \in Client |-> <<>>] /\ closer = [loop |-> Idle, fence |-> 0]
      /\ closes = 0 /\ got = [c \in Client |-> <<>>] /\ replayed = [c \in Client |-> <<>>]
      /\ since = [c \in Client |-> 0] /\ departed = FALSE
  BY DEF Init
<1>2. Idle \in Loop /\ Idle.pc = "idle"
  BY BoundsAssumption DEF Idle, Loop
<1>3. 0 \in 0..MaxChunks /\ 0 \in 0..MaxCloses /\ 0 \in 0..MaxLists
  BY BoundsAssumption
<1>4. \A k \in Chunk : bc[k] = Idle
  BY <1>1
<1>5. closer \in [loop : Loop, fence : Nat] /\ closer.loop.pc = "idle"
  BY <1>1, <1>2
<1>6. ClientTypes
  <2>1. bc \in [Chunk -> Loop]
    BY <1>1, <1>2
  <2>2. /\ lists \in [ListId -> Seq(Client)] /\ waitq \in [Client -> Seq(Actor)]
        /\ got \in [Client -> Seq(Chunk)] /\ replayed \in [Client -> Seq(Chunk)]
        /\ pending \in Seq(Chunk) /\ ring \in Seq(Chunk) /\ log \in Seq(Chunk)
        /\ since \in [Client -> Nat]
    BY <1>1
  <2>3. /\ hnd \in [Client -> {"new", "replaying", "greeting", "open", "done", "crashed"}]
        /\ sock \in [Client -> {"up", "closing", "down"}] /\ paused \in [Client -> BOOLEAN]
    BY <1>1
  <2>4. \A k \in Chunk : bc[k].pc = "idle"
    BY <1>2, <1>4
  <2>5. /\ portOpen \in BOOLEAN /\ departed \in BOOLEAN
        /\ read \in 0..MaxChunks /\ closes \in 0..MaxCloses /\ reg \in 0..MaxLists
    BY <1>1, <1>3
  <2> QED BY <1>5, <2>1, <2>2, <2>3, <2>4, <2>5 DEF ClientTypes
<1>7. Registered = {}
  BY <1>1 DEF Registered
<1>8. Distinct /\ Ahead /\ AtMostOnceLive
  BY <1>1, <1>2, <1>4 DEF Distinct, Ahead, AtMostOnceLive
<1>9. Begun
  <2>1. Len(log) = 0 /\ \A k \in Chunk : k > 0
    BY <1>1 DEF Chunk
  <2> QED BY <1>1, <1>2, <1>4, <2>1 DEF Begun
<1>10. InLine
  BY <1>1, <1>2, <1>4 DEF InLine, Members, Once
<1>11. NoLeakedRegistration /\ ClientLimit
  BY <1>7, FS_EmptySet, BoundsAssumption DEF NoLeakedRegistration, ClientLimit
<1> QED BY <1>6, <1>8, <1>9, <1>10, <1>11 DEF ListInv

\* The invariants of the lists hold, whatever the history.
THEOREM ListInvariant == Spec => [](ClientTypes /\ ListInv)
<1>1. Init => ClientTypes /\ ListInv
  BY ListsInit
<1>2. IInv /\ ClientTypes /\ ListInv /\ [Next]_vars => (ClientTypes /\ ListInv)'
  <2> SUFFICES ASSUME IInv, ClientTypes, ListInv, [Next]_vars
               PROVE  ClientTypes' /\ ListInv'
    OBVIOUS
  <2>1. ClientTypes'
    BY ClientTypesKept
  <2>2. InOrder
    BY DEF IInv
  <2> QED BY <2>1, <2>2, ListsKept
<1> QED BY <1>1, <1>2, Invariant, PTL DEF Spec

\* Only the handler of a writer waits in a write.
LEMMA WritersWrite == Spec => [](writing \subseteq Writer)
<1>1. Init => writing \subseteq Writer
  BY DEF Init
<1>2. writing \subseteq Writer /\ [Next]_vars => (writing \subseteq Writer)'
  <2> SUFFICES ASSUME writing \subseteq Writer, [Next]_vars PROVE writing' \subseteq Writer
    OBVIOUS
  <2>1. ASSUME NEW c \in Client, WriteBegins(c) \/ WriteEnds(c) PROVE writing' \subseteq Writer
    BY <2>1 DEF WriteBegins, WriteEnds
  <2>2. ASSUME NEW c \in Client, \/ Connect(c) \/ ConnectResume(c) \/ HandlerEnds(c)
                                \/ HandlerFails(c) \/ Stall(c) \/ Drain(c) \/ ConnectionLost(c)
        PROVE  writing' = writing
    BY <2>2 DEF Connect, ConnectResume, HandlerEnds, HandlerFails, Stall, Drain, ConnectionLost
  <2>3. ASSUME NEW k \in Chunk, BroadcastResume(k) PROVE writing' = writing
    BY <2>3 DEF BroadcastResume
  <2>4. CASE \/ BroadcastSync \/ BroadcastStart \/ ClosePort \/ StatusStart \/ StatusResume
             \/ DisconnectResume \/ OpenPort \/ UNCHANGED vars
    BY <2>4 DEF BroadcastSync, BroadcastStart, ClosePort, StatusStart, StatusResume,
                DisconnectResume, OpenPort, vars
  <2> QED BY <2>1, <2>2, <2>3, <2>4 DEF Next
<1> QED BY <1>1, <1>2, PTL DEF Spec

\* Every variable has its type, for any number of clients and chunks.
THEOREM TypeCorrect == Spec => []TypeOK
<1>1. ClientTypes /\ writing \subseteq Writer => TypeOK
  <2> SUFFICES ASSUME ClientTypes, writing \subseteq Writer PROVE TypeOK
    OBVIOUS
  <2>1. ASSUME NEW k \in Chunk
        PROVE  /\ bc[k].pc \in {"idle", "sending", "done"}
               /\ bc[k].at \in Client \cup {Closer} /\ bc[k].dead \subseteq Client
    BY DEF ClientTypes, Loop
  <2> QED BY <2>1 DEF ClientTypes, TypeOK
<1> QED BY <1>1, ListInvariant, WritersWrite, PTL

\* No chunk is written twice to a client as live data, however many broadcasts are
\* suspended over lists that others shrink.
THEOREM AtMostOnceLiveHolds == Spec => []AtMostOnceLive
<1>1. ListInv => AtMostOnceLive
  BY DEF ListInv
<1> QED BY <1>1, ListInvariant, PTL

\* Every registered client has a handler that will take it off the list, however
\* the other handlers end.
THEOREM NoLeakedRegistrationHolds == Spec => []NoLeakedRegistration
<1>1. ListInv => NoLeakedRegistration
  BY DEF ListInv
<1> QED BY <1>1, ListInvariant, PTL

\* The client limit of a port is kept.
THEOREM ClientLimitHolds == Spec => []ClientLimit
<1>1. ListInv => ClientLimit
  BY DEF ListInv
<1> QED BY <1>1, ListInvariant, PTL

-----------------------------------------------------------------------------
(* Every client gets the stream                                            *)

\* As long as nobody has left, a step that starts no broadcast, continues none and
\* connects nobody changes nothing of what clients have or must get.
LEMMA StreamFrame ==
    ASSUME StreamInv, ~departed' => ~departed /\ UNCHANGED <<closes, reg, lists>>,
           UNCHANGED <<bc, since, log, replayed, got>>,
           \A c \in Client : Attached(c)' => Attached(c)
    PROVE  StreamInv'
<1> SUFFICES ASSUME ~departed' PROVE StreamInv'
  BY DEF StreamInv
<1>1. ~departed /\ UNCHANGED <<closes, reg, lists>> /\ Registered' = Registered
  BY DEF Registered, Members
<1>2. /\ closes = 0
      /\ reg # 0 => lists[reg] # <<>>
      /\ \A k \in Chunk : bc[k].pc = "sending" => bc[k].list = reg
      /\ \A c \in Client : Attached(c) =>
            /\ c \in Registered /\ since[c] <= Len(log)
            /\ \A k \in Chunk : k <= since[c] /\ since[c] < k + RingCap => k \in Members(replayed[c])
            /\ \A k \in Chunk : \A p \in DOMAIN lists[reg] :
                  /\ lists[reg][p] = c /\ since[c] < k
                  /\ \/ bc[k].pc = "done"
                     \/ bc[k].pc = "sending" /\ p <= bc[k].idx
                  => k \in Members(got[c])
  BY <1>1 DEF StreamInv
<1> QED BY <1>1, <1>2 DEF StreamInv, Members

\* The numbers in the history variables.
LEMMA SinceType ==
    ASSUME ClientTypes, NEW c \in Client
    PROVE  since[c] \in Nat /\ Len(log) \in Nat
<1>1. since[c] \in Nat /\ log \in Seq(Chunk)
  BY DEF ClientTypes
<1> QED BY <1>1, LenProperties

\* Broadcast k runs on from index i of the registered list, and the attached clients
\* before that index have its chunk.
LEMMA RunKeepsStream ==
    ASSUME ClientTypes, StreamInv, NEW k \in Chunk, NEW i \in Nat \ {0},
           NEW dead \in SUBSET Client, NEW queues \in [Client -> Seq(Actor)], reg \in ListId,
           bc' = [bc EXCEPT ![k] = LoopAfter(reg, i, dead)], got' = GotAfter(k, reg, i),
           Sweep(k, reg, i, dead, queues),
           UNCHANGED <<reg, hnd, sock, closes, since, replayed>>,
           Len(log') \in Nat, Len(log) <= Len(log'),
           \A c \in Client : \A p \in DOMAIN lists[reg] :
              ~departed /\ Attached(c) /\ lists[reg][p] = c /\ since[c] < k /\ p < i
                 => k \in Members(got[c])
    PROVE  StreamInv'
<1> SUFFICES ASSUME ~departed' PROVE StreamInv'
  BY DEF StreamInv
<1> DEFINE s == StopAt(reg, i)  n == Len(lists[reg])  loop == LoopAfter(reg, i, dead)
<1>1. /\ lists[reg] \in Seq(Client) /\ n \in Nat /\ DOMAIN lists[reg] = 1..n
      /\ s \in Nat /\ k \in Actor /\ bc \in [Chunk -> Loop] /\ got \in [Client -> Seq(Chunk)]
  <2>1. /\ lists[reg] \in Seq(Client) /\ k \in Actor /\ bc \in [Chunk -> Loop]
        /\ got \in [Client -> Seq(Chunk)]
    BY DEF ClientTypes, Actor
  <2>2. s \in Nat
    BY StopAtProperties
  <2> QED BY <2>1, <2>2, SeqFacts
<1>2. ~departed /\ lists' = lists
  <2>1. departed => departed'
    BY <1>1, SweepProperties
  <2>2. ~departed' => lists' = lists
    BY <1>1, SweepProperties
  <2> QED BY <2>1, <2>2
<1>3. /\ loop.pc \in {"sending", "done"}
      /\ loop.pc = "done" <=> s > n
      /\ s <= n => loop.list = reg /\ loop.idx = s
  BY LoopAfterProperties
<1>4. \A j \in Chunk : bc'[j] = IF j = k THEN loop ELSE bc[j]
  BY <1>1
<1>5. \A c \in Client :
         /\ c \in Written(reg, i) => got'[c] = Append(got[c], k)
         /\ c \notin Written(reg, i) => got'[c] = got[c]
         /\ c \in Written(reg, i) <=>
               sock[c] = "up" /\ \E j \in i..n : j <= s /\ lists[reg][j] = c
  <2>1. \A c \in Client : /\ c \in Written(reg, i) => got'[c] = Append(got[c], k)
                          /\ c \notin Written(reg, i) => got'[c] = got[c]
    BY GotAfterProperties
  <2>2. \A c : c \in Written(reg, i) <=>
                 sock[c] = "up" /\ \E j \in i..n : j <= s /\ lists[reg][j] = c
    BY DEF Written, Reached
  <2> QED BY ONLY <2>1, <2>2
<1> HIDE DEF s, n, loop
<1>6. ASSUME NEW c \in Client
      PROVE  /\ \A x \in Members(got[c]) : x \in Members(got'[c])
             /\ c \in Written(reg, i) => k \in Members(got'[c])
  <2>1. got[c] \in Seq(Chunk)
    BY <1>1
  <2>2. Members(Append(got[c], k)) = Members(got[c]) \cup {k}
    BY <2>1, AppendOrder
  <2> QED BY <1>5, <2>2
<1>7. /\ closes' = 0
      /\ reg' # 0 => lists'[reg'] # <<>>
      /\ Registered' = Registered
  BY <1>2 DEF StreamInv, Registered, Members
<1>8. ASSUME NEW j \in Chunk, bc'[j].pc = "sending"
      PROVE  bc'[j].list = reg'
  <2>1. CASE j = k
    BY <1>1, <1>3, <1>4, <1>8, <2>1 DEF n
  <2>2. CASE j # k
    BY <1>2, <1>4, <1>8, <2>2 DEF StreamInv
  <2> QED BY <2>1, <2>2
<1>9. ASSUME NEW c \in Client, Attached(c)'
      PROVE  /\ c \in Registered' /\ since'[c] <= Len(log')
             /\ \A j \in Chunk : j <= since'[c] /\ since'[c] < j + RingCap => j \in Members(replayed'[c])
             /\ \A j \in Chunk : \A p \in DOMAIN lists'[reg'] :
                   /\ lists'[reg'][p] = c /\ since'[c] < j
                   /\ \/ bc'[j].pc = "done"
                      \/ bc'[j].pc = "sending" /\ p <= bc'[j].idx
                   => j \in Members(got'[c])
  <2>1. Attached(c) /\ sock[c] = "up"
    BY <1>9 DEF Attached
  <2>2. /\ c \in Registered /\ since[c] <= Len(log)
        /\ \A j \in Chunk : j <= since[c] /\ since[c] < j + RingCap => j \in Members(replayed[c])
        /\ \A j \in Chunk : \A p \in DOMAIN lists[reg] :
              /\ lists[reg][p] = c /\ since[c] < j
              /\ \/ bc[j].pc = "done"
                 \/ bc[j].pc = "sending" /\ p <= bc[j].idx
              => j \in Members(got[c])
    BY <1>2, <2>1 DEF StreamInv
  <2>3. since'[c] <= Len(log')
    <3>1. Len(log) <= Len(log') /\ since' = since /\ since[c] <= Len(log)
      BY <2>2
    <3>2. since[c] \in Nat /\ Len(log) \in Nat
      BY SinceType
    <3> QED BY <3>1, <3>2
  <2>4. ASSUME NEW j \in Chunk, NEW p \in DOMAIN lists'[reg'], lists'[reg'][p] = c, since'[c] < j,
               bc'[j].pc = "done" \/ (bc'[j].pc = "sending" /\ p <= bc'[j].idx)
        PROVE  j \in Members(got'[c])
    <3>1. p \in DOMAIN lists[reg] /\ lists[reg][p] = c /\ since[c] < j
      BY <1>2, <2>4
    <3>2. CASE j # k
      <4>1. bc'[j] = bc[j]
        BY <1>4, <3>2
      <4>2. j \in Members(got[c])
        BY <2>2, <2>4, <3>1, <4>1
      <4> QED BY <1>6, <4>2
    <3>3. CASE j = k /\ p < i
      <4>1. k \in Members(got[c])
        BY <1>2, <2>1, <3>1, <3>3
      <4> QED BY <1>6, <3>3, <4>1
    <3>4. CASE j = k /\ ~(p < i)
      <4>1. p \in 1..n /\ p \in Nat
        BY <1>1, <3>1
      <4>2. p <= s
        <5>1. CASE s > n
          BY <1>1, <4>1, <5>1
        <5>2. CASE ~(s > n)
          <6>1. bc'[k].idx = s /\ bc'[k].pc # "done"
            BY <1>1, <1>3, <1>4, <5>2
          <6> QED BY <2>4, <3>4, <6>1
        <5> QED BY <5>1, <5>2
      <4>3. p \in i..n
        BY <3>4, <4>1, <1>1
      <4>4. c \in Written(reg, i)
        BY <1>5, <2>1, <3>1, <4>2, <4>3
      <4> QED BY <1>6, <3>4, <4>4
    <3> QED BY <3>2, <3>3, <3>4
  <2> QED BY <1>7, <2>2, <2>3, <2>4
<1> QED BY <1>7, <1>8, <1>9 DEF StreamInv

\* A broadcast starts.
LEMMA StartKeepsStream ==
    ASSUME ClientTypes, ListInv, InOrder, StreamInv, BroadcastStart
    PROVE  StreamInv'
<1> DEFINE k == Head(pending)
<1>1. /\ pending # <<>> /\ log' = Append(log, k)
      /\ UNCHANGED <<reg, hnd, sock, closes, replayed, since>>
      /\ \/ /\ Registered = {} /\ bc' = [bc EXCEPT ![k] = Done]
            /\ UNCHANGED <<lists, waitq, got, departed>>
         \/ /\ Registered # {} /\ bc' = [bc EXCEPT ![k] = LoopAfter(reg, 1, {})]
            /\ got' = GotAfter(k, reg, 1) /\ Sweep(k, reg, 1, {}, waitq)
  BY DEF BroadcastStart
<1>2. /\ k \in Chunk /\ k \in Nat /\ Len(log) \in Nat /\ Len(log') = Len(log) + 1
      /\ Len(log') \in Nat /\ Len(log) <= Len(log')
  <2>1. pending \in Seq(Chunk) /\ log \in Seq(Chunk)
    BY DEF ClientTypes
  <2>2. k \in Chunk /\ Len(log) \in Nat
    BY <1>1, <2>1, HeadTailProperties, LenProperties
  <2>3. Len(log') = Len(log) + 1
    BY <1>1, <2>1, <2>2, AppendProperties
  <2> QED BY <2>2, <2>3 DEF Chunk
<1> HIDE DEF k
<1>3. CASE Registered = {}
  <2> SUFFICES ASSUME ~departed' PROVE StreamInv'
    BY DEF StreamInv
  <2>1. /\ ~departed /\ UNCHANGED <<lists, got, reg, hnd, sock, closes, replayed, since>>
        /\ bc' = [bc EXCEPT ![k] = Done]
    BY <1>1, <1>3
  <2>2. \A c \in Client : ~Attached(c)
    BY <1>3, <2>1 DEF StreamInv
  <2>3. \A c \in Client : ~Attached(c)'
    BY <2>1, <2>2 DEF Attached
  <2>4. ASSUME NEW j \in Chunk, bc'[j].pc = "sending" PROVE bc'[j].list = reg'
    <3>1. bc \in [Chunk -> Loop] /\ Done.pc = "done"
      BY DEF ClientTypes, Done, Idle
    <3>2. bc'[j] = bc[j]
      BY <1>2, <2>1, <2>4, <3>1
    <3> QED BY <2>1, <2>4, <3>2 DEF StreamInv
  <2>5. closes' = 0 /\ (reg' # 0 => lists'[reg'] # <<>>)
    BY <2>1 DEF StreamInv
  <2> QED BY <2>3, <2>4, <2>5 DEF StreamInv
<1>4. CASE Registered # {}
  <2>1. reg \in ListId /\ waitq \in [Client -> Seq(Actor)] /\ lists[reg] \in Seq(Client)
    <3>1. reg # 0 /\ reg \in 0..MaxLists /\ MaxLists \in Nat
      BY <1>4, BoundsAssumption DEF Registered, ClientTypes
    <3>2. reg \in ListId
      BY <3>1 DEF ListId
    <3> QED BY <3>2 DEF ClientTypes
  <2>2. 1 \in Nat \ {0} /\ {} \in SUBSET Client
    OBVIOUS
  <2>3. \A p \in DOMAIN lists[reg] : ~(p < 1)
    BY <2>1, SeqFacts
  <2> QED BY <1>1, <1>2, <1>4, <2>1, <2>2, <2>3, RunKeepsStream
<1> QED BY <1>3, <1>4

\* A broadcast goes on: the clients up to the one it waited for have the chunk.
LEMMA ResumeKeepsStream ==
    ASSUME ClientTypes, ListInv, StreamInv, NEW k \in Chunk, BroadcastResume(k)
    PROVE  StreamInv'
<1> DEFINE b == bc[k]
<1>1. /\ b.pc = "sending" /\ Released(k, b.at)
      /\ bc' = [bc EXCEPT ![k] = LoopAfter(b.list, b.idx + 1, DeadOf(b))]
      /\ got' = GotAfter(k, b.list, b.idx + 1)
      /\ Sweep(k, b.list, b.idx + 1, DeadOf(b), Dequeued(b.at))
      /\ UNCHANGED <<log, reg, hnd, sock, closes, replayed, since>>
  BY DEF BroadcastResume
<1>2. b \in Loop /\ Suspended(b)
  BY <1>1 DEF ClientTypes
<1>3. b.list \in ListId /\ b.idx \in Nat /\ b.idx + 1 \in Nat \ {0} /\ b.at \in Client
  BY <1>2 DEF Loop, Suspended
<1>4. DeadOf(b) \in SUBSET Client /\ Dequeued(b.at) \in [Client -> Seq(Actor)]
  BY <1>1, <1>2, <1>3, DeadOfType, DequeuedProperties
<1> SUFFICES ASSUME ~departed' PROVE StreamInv'
  BY DEF StreamInv
<1>5. ~departed
  <2>1. k \in Actor
    BY DEF Actor
  <2>2. departed => departed'
    BY <1>1, <1>3, <1>4, <2>1, SweepProperties
  <2> QED BY <2>2
<1>6. b.list = reg
  BY <1>1, <1>5 DEF StreamInv
<1>7. ASSUME NEW c \in Client, NEW p \in DOMAIN lists[reg],
             Attached(c), lists[reg][p] = c, since[c] < k, p < b.idx + 1
      PROVE  k \in Members(got[c])
  <2>1. lists[reg] \in Seq(Client)
    BY <1>3, <1>6 DEF ClientTypes
  <2>2. p \in Nat /\ p <= b.idx
    BY <1>3, <1>7, <2>1, SeqFacts
  <2> QED BY <1>1, <1>5, <1>7, <2>2 DEF StreamInv
<1>8. Len(log') \in Nat /\ Len(log) <= Len(log')
  <2>1. Len(log) \in Nat
    BY LenProperties DEF ClientTypes
  <2> QED BY <1>1, <2>1
<1> HIDE DEF b
<1>9. /\ reg \in ListId /\ bc' = [bc EXCEPT ![k] = LoopAfter(reg, b.idx + 1, DeadOf(b))]
      /\ got' = GotAfter(k, reg, b.idx + 1)
      /\ Sweep(k, reg, b.idx + 1, DeadOf(b), Dequeued(b.at))
  BY <1>1, <1>3, <1>6
<1> QED BY <1>1, <1>3, <1>4, <1>7, <1>8, <1>9, RunKeepsStream

\* The replay frame of a client that connects while nobody has left holds the end
\* of the log.
LEMMA ReplayHoldsEnd ==
    ASSUME IInv, closes = 0, NEW k \in Chunk, k <= Len(log), Len(log) < k + RingCap
    PROVE  k \in Members(ring)
<1>1. /\ ring = LastN(log, RingCap) /\ log \in Seq(Nat) /\ RingCap \in Nat
      /\ \A i \in 1..Len(log) : log[i] = i
      /\ Len(log) \in Nat /\ k \in Nat \ {0}
  <2>1. log \in Seq(Nat) /\ RingCap \in Nat
    BY BoundsAssumption DEF IInv, HistoryTypes
  <2> QED BY <2>1, LenProperties DEF IInv, RingIsTail, InOrder, Chunk
<1> DEFINE n == Len(log)  t == LastN(log, RingCap)
           h == IF n <= RingCap THEN n ELSE RingCap
<1>2. t \in Seq(Nat) /\ Len(t) = h /\ \A i \in 1..h : t[i] = log[n - h + i]
  BY <1>1, LastNProperties
<1> HIDE DEF t
<1>3. /\ k - (n - h) \in 1..h /\ n - h + (k - (n - h)) = k /\ k \in 1..n
  <2>1. n \in Nat /\ k \in Nat \ {0} /\ RingCap \in Nat /\ k <= n /\ n < k + RingCap
    BY <1>1
  <2>2. (n <= RingCap /\ h = n) \/ (n > RingCap /\ h = RingCap)
    BY <2>1
  <2> HIDE DEF n, h
  <2> QED BY <2>1, <2>2
<1> HIDE DEF n, h
<1>4. t[k - (n - h)] = k
  <2>1. t[k - (n - h)] = log[n - h + (k - (n - h))]
    BY <1>2, <1>3
  <2>2. log[k] = k
    BY <1>1, <1>3 DEF n
  <2> QED BY <1>3, <2>1, <2>2
<1>5. k - (n - h) \in DOMAIN t
  BY <1>2, <1>3, LenProperties
<1> QED BY <1>1, <1>4, <1>5 DEF Members, t

\* A client connects: the replay reaches up to the broadcasts it will get.
LEMMA ConnectKeepsStream ==
    ASSUME ClientTypes, ClientTypes', IInv, ListInv, StreamInv, NEW c \in Client, Connect(c)
    PROVE  StreamInv'
<1> SUFFICES ASSUME ~departed' PROVE StreamInv'
  BY DEF StreamInv
<1> DEFINE r == reg'  s == lists[r]  t == lists'[r]
<1>1. /\ hnd[c] = "new"
      /\ UNCHANGED <<log, ring, bc, got, departed, sock, closes, closer>>
      /\ r \in ListId
      /\ \A l \in ListId : l # r => lists'[l] = lists[l]
      /\ \/ /\ reg # 0 /\ r = reg /\ t = Append(s, c)
         \/ /\ reg = 0 /\ t = <<c>> /\ \A k \in Chunk : bc[k].list # r
      /\ \A d \in Client : d # c => hnd'[d] = hnd[d]
  BY ConnectLists
<1>2. /\ replayed' = [replayed EXCEPT ![c] = ring]
      /\ since' = [since EXCEPT ![c] = Len(log)]
      /\ replayed \in [Client -> Seq(Chunk)] /\ since \in [Client -> Nat]
  BY DEF Connect, ClientTypes
<1>3. s \in Seq(Client) /\ t \in Seq(Client) /\ Len(log) \in Nat
  <2>1. s \in Seq(Client) /\ t \in Seq(Client) /\ log \in Seq(Chunk)
    BY <1>1 DEF ClientTypes
  <2> QED BY <2>1, LenProperties
<1> HIDE DEF r, s, t
<1>4. /\ ~departed /\ closes = 0
      /\ \A k \in Chunk : bc[k].pc = "sending" => bc[k].list = reg /\ bc[k].list \in ListId
      /\ lists[r] = s /\ lists'[r] = t /\ r # 0 /\ reg' = r
  <2>1. \A k \in Chunk : bc[k].pc = "sending" => bc[k].list \in ListId
    BY DEF ClientTypes, Suspended
  <2>2. r # 0
    BY <1>1 DEF ListId
  <2> QED BY <1>1, <2>1, <2>2 DEF StreamInv, r, s, t
<1>5. /\ t # <<>> /\ c \in Members(t) /\ (reg # 0 => Members(s) \subseteq Members(t))
      /\ \A i \in DOMAIN t : t[i] = c \/ (reg # 0 /\ i \in DOMAIN s /\ t[i] = s[i])
  <2>1. CASE t = <<c>> /\ reg = 0
    BY <2>1 DEF Members
  <2>2. CASE reg # 0 /\ t = Append(s, c)
    <3>1. Len(t) = Len(s) + 1 /\ t[Len(s) + 1] = c /\ \A i \in 1..Len(s) : t[i] = s[i]
      BY <1>3, <2>2, AppendProperties
    <3>2. DOMAIN t = 1..Len(s) + 1 /\ DOMAIN s = 1..Len(s) /\ Len(s) \in Nat
      BY <1>3, <3>1, LenProperties
    <3>3. Members(t) = Members(s) \cup {c}
      BY <1>3, <2>2, AppendOrder
    <3>4. \A i \in 1..Len(s) + 1 : i \in 1..Len(s) \/ i = Len(s) + 1
      BY <3>2
    <3>5. t # <<>>
      BY <3>3 DEF Members
    <3> QED BY <2>2, <3>1, <3>2, <3>3, <3>4, <3>5
  <2> QED BY <1>1, <2>1, <2>2
<1>6. \A k \in Chunk : bc'[k].pc = "sending" => bc'[k].list = reg'
  <2>1. reg = 0 => reg \notin ListId
    BY DEF ListId
  <2> QED BY <1>1, <1>4, <2>1
<1>7. Registered' = Members(t) /\ (reg # 0 => Registered = Members(s) /\ r = reg)
      /\ (reg = 0 => Registered = {})
  BY <1>1, <1>4 DEF Registered
<1>8. ASSUME NEW d \in Client, Attached(d)'
      PROVE  /\ d \in Registered' /\ since'[d] <= Len(log')
             /\ \A k \in Chunk : k <= since'[d] /\ since'[d] < k + RingCap => k \in Members(replayed'[d])
             /\ \A k \in Chunk : \A p \in DOMAIN lists'[reg'] :
                   /\ lists'[reg'][p] = d /\ since'[d] < k
                   /\ \/ bc'[k].pc = "done"
                      \/ bc'[k].pc = "sending" /\ p <= bc'[k].idx
                   => k \in Members(got'[d])
  <2>1. CASE d = c
    <3>1. since'[d] = Len(log) /\ replayed'[d] = ring /\ log' = log
      BY <1>1, <1>2, <2>1
    <3>2. \A k \in Chunk : k <= Len(log) /\ Len(log) < k + RingCap => k \in Members(ring)
      BY <1>4, ReplayHoldsEnd
    <3>3. \A k \in Chunk : Len(log) < k => bc'[k].pc = "idle"
      BY <1>1, <1>3 DEF ListInv, Begun, Chunk
    <3> QED BY <1>3, <1>5, <1>7, <2>1, <3>1, <3>2, <3>3
  <2>2. CASE d # c
    <3>1. Attached(d)
      BY <1>1, <1>8, <2>2 DEF Attached
    <3>2. /\ d \in Registered /\ since[d] <= Len(log)
          /\ \A k \in Chunk : k <= since[d] /\ since[d] < k + RingCap => k \in Members(replayed[d])
          /\ \A k \in Chunk : \A p \in DOMAIN lists[reg] :
                /\ lists[reg][p] = d /\ since[d] < k
                /\ \/ bc[k].pc = "done"
                   \/ bc[k].pc = "sending" /\ p <= bc[k].idx
                => k \in Members(got[d])
      BY <1>4, <3>1 DEF StreamInv
    <3>3. reg # 0 /\ r = reg /\ d \in Registered'
      BY <1>5, <1>7, <3>2
    <3>4. since'[d] = since[d] /\ replayed'[d] = replayed[d] /\ log' = log /\ bc' = bc /\ got' = got
      BY <1>1, <1>2, <2>2
    <3>5. \A p \in DOMAIN t : t[p] = d => p \in DOMAIN s /\ s[p] = d
      BY <1>5, <2>2
    <3>6. lists'[reg'] = t /\ lists[reg] = s
      BY <1>4, <3>3
    <3> QED BY ONLY <3>2, <3>3, <3>4, <3>5, <3>6
  <2> QED BY <2>1, <2>2
<1>9. closes' = 0 /\ (reg' # 0 => lists'[reg'] # <<>>)
  BY <1>1, <1>4, <1>5
<1> QED BY <1>6, <1>8, <1>9 DEF StreamInv

\* A sweep does not forget that somebody left.
LEMMA SweepKeepsDeparted ==
    ASSUME NEW who, NEW l, NEW i, NEW dead, NEW queues, Sweep(who, l, i, dead, queues), departed
    PROVE  departed'
BY DEF Sweep

\* Every step.
LEMMA StreamKept ==
    ASSUME ClientTypes, ClientTypes', IInv, ListInv, StreamInv, [Next]_vars
    PROVE  StreamInv'
<1>0. InOrder
  BY DEF IInv
<1>1. CASE BroadcastSync \/ OpenPort \/ UNCHANGED vars
  BY <1>1, StreamFrame DEF BroadcastSync, OpenPort, vars, Attached
<1>2. ASSUME NEW c \in Client,
             Stall(c) \/ Drain(c) \/ WriteBegins(c) \/ WriteEnds(c) \/ ConnectionLost(c)
      PROVE  StreamInv'
  <2>1. UNCHANGED <<bc, since, log, replayed, got, departed, closes, reg, lists, hnd>>
    BY <1>2 DEF Stall, Drain, WriteBegins, WriteEnds, ConnectionLost
  <2>2. \A d \in Client : sock'[d] = "up" => sock[d] = "up"
    BY <1>2 DEF Stall, Drain, WriteBegins, WriteEnds, ConnectionLost, ClientTypes
  <2>3. \A d \in Client : Attached(d)' => Attached(d)
    BY <2>1, <2>2 DEF Attached
  <2> QED BY <2>1, <2>3, StreamFrame
<1>3. ASSUME NEW c \in Client, ConnectResume(c) PROVE StreamInv'
  <2>1. /\ UNCHANGED <<bc, since, log, replayed, got, departed, closes, reg, lists>>
        /\ hnd[c] \in {"replaying", "greeting"}
        /\ \E x : hnd' = [hnd EXCEPT ![c] = x]
        /\ sock' = sock \/ \E y : y # "up" /\ sock' = [sock EXCEPT ![c] = y]
    <3>1. \E x : hnd' = [hnd EXCEPT ![c] = x]
      BY <1>3 DEF ConnectResume
    <3>2. sock' = sock \/ \E y : y # "up" /\ sock' = [sock EXCEPT ![c] = y]
      <4>1. sock' = sock \/ sock' = [sock EXCEPT ![c] = IF @ = "up" THEN "closing" ELSE @]
        BY <1>3 DEF ConnectResume
      <4>2. (IF sock[c] = "up" THEN "closing" ELSE sock[c]) # "up"
        OBVIOUS
      <4> QED BY <4>1, <4>2
    <3> QED BY <1>3, <3>1, <3>2 DEF ConnectResume
  <2>2. \A d \in Client : Attached(d)' => Attached(d)
    BY <2>1 DEF Attached, ClientTypes
  <2> QED BY <2>1, <2>2, StreamFrame
<1>4. ASSUME NEW c \in Client, HandlerEnds(c) \/ HandlerFails(c) PROVE StreamInv'
  <2>1. /\ Disconnect(c) /\ hnd' = [hnd EXCEPT ![c] = "done"]
        /\ sock' = sock \/ sock' = [sock EXCEPT ![c] = "closing"]
        /\ UNCHANGED <<bc, since, log, replayed, got, closes>>
    BY <1>4 DEF HandlerEnds, HandlerFails
  <2>2. \A d \in Client : Attached(d)' => Attached(d)
    BY <2>1 DEF Attached, ClientTypes
  <2>3. /\ departed => departed'
        /\ ~departed' => lists' = lists
        /\ ~departed' => reg' = reg \/ (reg # 0 /\ lists[reg] = <<>>)
    BY <2>1, DisconnectProperties
  <2>4. ~departed' => ~departed /\ UNCHANGED <<closes, reg, lists>>
    BY <2>1, <2>3 DEF StreamInv
  <2> QED BY <2>1, <2>2, <2>4, StreamFrame
<1>5. CASE ClosePort
  BY <1>5 DEF ClosePort, StreamInv
<1>6. CASE StatusStart \/ StatusResume \/ DisconnectResume
  <2>1. closes > 0 /\ closes \in Nat
    <3>1. closer.loop.pc # "idle"
      BY <1>6 DEF StatusStart, StatusResume, DisconnectResume
    <3> QED BY <3>1 DEF IInv, CloseProgress, HistoryTypes
  <2>2. departed
    BY <2>1 DEF StreamInv
  <2>3. departed'
    <3>1. CASE StatusResume
      BY <2>2, <3>1, SweepKeepsDeparted DEF StatusResume, StatusFrom
    <3>2. CASE StatusStart
      BY <2>2, <3>2, SweepKeepsDeparted DEF StatusStart, StatusFrom
    <3>3. CASE DisconnectResume
      BY <2>2, <3>3 DEF DisconnectResume, ClientTypes
    <3> QED BY <1>6, <3>1, <3>2, <3>3
  <2> QED BY <2>3 DEF StreamInv
<1> QED BY <1>0, <1>1, <1>2, <1>3, <1>4, <1>5, <1>6, StartKeepsStream, ResumeKeepsStream,
           ConnectKeepsStream DEF Next

-----------------------------------------------------------------------------
(* The order in which clients get the chunks                               *)

\* No connection comes up again.
LEMMA UpBefore ==
    ASSUME ClientTypes, [Next]_vars, AllUp'
    PROVE  AllUp
<1> SUFFICES ASSUME NEW d \in Client, sock'[d] = "up" PROVE sock[d] = "up"
  BY DEF AllUp
<1>1. sock \in [Client -> {"up", "closing", "down"}]
  BY DEF ClientTypes
<1>2. ASSUME NEW c, NEW y, sock' = [sock EXCEPT ![c] = y], y # "up"
      PROVE  sock[d] = "up"
  BY <1>1, <1>2
<1>3. CASE sock' = sock
  BY <1>3
<1>4. ASSUME NEW l, NEW i, CloseFrom(l, i) PROVE sock[d] = "up"
  <2>1. sock' = sock \/ \E c : sock' = [sock EXCEPT ![c] = "closing"]
    BY <1>4 DEF CloseFrom
  <2> QED BY <1>2, <1>3, <2>1
<1>5. ASSUME NEW l, NEW i, NEW dead, NEW queues, StatusFrom(l, i, dead, queues)
      PROVE  sock[d] = "up"
  BY <1>3, <1>4, <1>5 DEF StatusFrom, DisconnectAll
<1>6. CASE BroadcastSync \/ BroadcastStart \/ ClosePort \/ OpenPort \/ UNCHANGED vars
  BY <1>3, <1>6 DEF BroadcastSync, BroadcastStart, ClosePort, OpenPort, vars
<1>7. ASSUME NEW k \in Chunk, BroadcastResume(k) PROVE sock[d] = "up"
  BY <1>3, <1>7 DEF BroadcastResume
<1>8. ASSUME NEW c \in Client, \/ Connect(c) \/ Stall(c) \/ Drain(c)
                                \/ WriteBegins(c) \/ WriteEnds(c) \/ HandlerEnds(c)
      PROVE  sock[d] = "up"
  BY <1>3, <1>8 DEF Connect, Stall, Drain, WriteBegins, WriteEnds,
                      HandlerEnds
<1>9. ASSUME NEW c \in Client, HandlerFails(c) \/ ConnectionLost(c)
      PROVE  sock[d] = "up"
  BY <1>2, <1>9 DEF HandlerFails, ConnectionLost
<1>10. ASSUME NEW c \in Client, ConnectResume(c) PROVE sock[d] = "up"
  <2>1. sock' = sock \/ sock' = [sock EXCEPT ![c] = IF @ = "up" THEN "closing" ELSE @]
    BY <1>10 DEF ConnectResume
  <2>2. (IF sock[c] = "up" THEN "closing" ELSE sock[c]) # "up"
    OBVIOUS
  <2> QED BY <1>2, <1>3, <2>1, <2>2
<1>11. CASE StatusStart
  BY <1>4, <1>5, <1>11 DEF StatusStart, DisconnectAll
<1>12. CASE StatusResume
  BY <1>5, <1>12 DEF StatusResume
<1>13. CASE DisconnectResume
  BY <1>4, <1>13 DEF DisconnectResume
<1> QED BY <1>6, <1>7, <1>8, <1>9, <1>10, <1>11, <1>12, <1>13 DEF Next

\* With every connection up no send fails.
LEMMA NoneDead ==
    ASSUME ClientTypes, AllUp, NEW l \in ListId, NEW i \in Nat \ {0}
    PROVE  DeadAfter(l, i, {}) = {}
<1>1. Reached(l, i) \subseteq Client
  BY LoopAfterProperties
<1>2. Reached(l, i) \subseteq Written(l, i)
  BY <1>1 DEF Written, AllUp
<1> QED BY <1>2 DEF DeadAfter

\* A chunk that is later than all before it.
LEMMA StrictlyAppend ==
    ASSUME NEW s \in Seq(Chunk), Strictly(s), NEW k \in Chunk, \A x \in Members(s) : x < k
    PROVE  Strictly(Append(s, k))
<1> DEFINE t == Append(s, k)  n == Len(s)
<1>1. /\ n \in Nat /\ DOMAIN s = 1..n /\ t \in Seq(Chunk) /\ DOMAIN t = 1..n + 1
      /\ t[n + 1] = k /\ \A i \in 1..n : t[i] = s[i]
  <2>1. n \in Nat /\ DOMAIN s = 1..n
    BY LenProperties
  <2>2. t \in Seq(Chunk) /\ Len(t) = n + 1 /\ t[n + 1] = k /\ \A i \in 1..n : t[i] = s[i]
    BY AppendProperties
  <2> QED BY <2>1, <2>2, LenProperties
<1>2. \A i \in DOMAIN s : s[i] < k
  BY DEF Members
<1> HIDE DEF t, n
<1>3. ASSUME NEW i \in DOMAIN t, NEW j \in DOMAIN t, i < j PROVE t[i] < t[j]
  <2>1. i \in 1..n /\ (j \in 1..n \/ j = n + 1)
    BY <1>1, <1>3
  <2>2. CASE j \in 1..n
    BY <1>1, <1>3, <2>1, <2>2 DEF Strictly
  <2>3. CASE j = n + 1
    BY <1>1, <1>2, <2>1, <2>3
  <2> QED BY <2>1, <2>2, <2>3
<1> QED BY <1>3 DEF Strictly, t

\* The order of the broadcasts that are under way, for a step that touches none:
\* the list of the port may grow at its end.
SameOrder ==
    /\ UNCHANGED <<bc, got>>
    /\ \A c \in Client : \A j, k \in Chunk : Before(waitq[c], j, k) => Before(waitq'[c], j, k)

\* Broadcasts keep their order when only others come and go.
LEMMA OthersInOrder ==
    ASSUME NEW q \in Seq(Actor), NEW who \in Actor \ Chunk, NEW j \in Chunk, NEW k \in Chunk,
           Before(q, j, k)
    PROVE  /\ Before(Append(q, who), j, k)
           /\ q # <<>> /\ Head(q) = who => /\ Before(Tail(q), j, k)
                                           /\ Before(Append(Tail(q), who), j, k)
<1>1. Before(Append(q, who), j, k)
  BY AppendOrder
<1>2. ASSUME q # <<>>, Head(q) = who
      PROVE  Before(Tail(q), j, k) /\ Before(Append(Tail(q), who), j, k)
  <2>1. j # Head(q)
    BY <1>2
  <2>2. Before(Tail(q), j, k)
    BY <1>2, <2>1, TailOrder
  <2>3. Tail(q) \in Seq(Actor) /\ who \in Actor
    BY <1>2, HeadTailProperties
  <2> QED BY <2>2, <2>3, AppendOrder
<1> QED BY <1>1, <1>2

\* A step that leaves the list of the port and the broadcasts alone.
LEMMA OrderFrame ==
    ASSUME AllUp' => AllUp /\ reg' = reg /\ (reg # 0 => lists'[reg] = lists[reg]),
           OrderInv, SameOrder,
           AllUp' => /\ closer'.loop.pc # "closing"
                     /\ closer'.loop.pc = "sending" => closer'.loop.list = reg /\ closer'.loop.dead = {},
           \A k \in Chunk : bc[k].pc = "sending" => bc[k].list # 0 /\ bc[k].at \in Client
    PROVE  OrderInv'
<1> SUFFICES ASSUME AllUp' PROVE OrderInv'
  BY DEF OrderInv
<1>1. /\ AllUp /\ reg' = reg /\ bc' = bc /\ got' = got
      /\ (reg # 0 => lists'[reg] = lists[reg])
      /\ \A c \in Client : \A j, k \in Chunk : Before(waitq[c], j, k) => Before(waitq'[c], j, k)
  BY DEF SameOrder
<1>2. /\ reg # 0 => lists[reg] # <<>>
      /\ \A k \in Chunk : bc[k].pc = "sending" =>
            /\ bc[k].list = reg /\ bc[k].dead = {} /\ bc[k].idx \in DOMAIN lists[reg]
            /\ bc[k].at = lists[reg][bc[k].idx]
      /\ \A k1, k2 \in Chunk : k1 < k2 =>
            /\ bc[k2].pc = "done" => bc[k1].pc = "done"
            /\ bc[k1].pc = "sending" /\ bc[k2].pc = "sending" =>
                  /\ bc[k1].idx >= bc[k2].idx
                  /\ bc[k1].idx = bc[k2].idx => Before(waitq[bc[k1].at], k1, k2)
      /\ \A c \in Client : Strictly(got[c])
  BY <1>1 DEF OrderInv
<1>3. ASSUME NEW k \in Chunk, bc'[k].pc = "sending"
      PROVE  /\ bc'[k].list = reg' /\ bc'[k].dead = {} /\ bc'[k].idx \in DOMAIN lists'[reg']
             /\ bc'[k].at = lists'[reg'][bc'[k].idx]
  BY <1>1, <1>2, <1>3
<1>4. ASSUME NEW k1 \in Chunk, NEW k2 \in Chunk, k1 < k2
      PROVE  /\ bc'[k2].pc = "done" => bc'[k1].pc = "done"
             /\ bc'[k1].pc = "sending" /\ bc'[k2].pc = "sending" =>
                   /\ bc'[k1].idx >= bc'[k2].idx
                   /\ bc'[k1].idx = bc'[k2].idx => Before(waitq'[bc'[k1].at], k1, k2)
  BY <1>1, <1>2, <1>4
<1>5. \A c \in Client : Strictly(got'[c])
  BY <1>1, <1>2
<1>6. reg' # 0 => lists'[reg'] # <<>>
  BY <1>1, <1>2
<1>7. /\ closer'.loop.pc # "closing"
      /\ closer'.loop.pc = "sending" => closer'.loop.list = reg' /\ closer'.loop.dead = {}
  BY <1>1
<1> QED BY <1>3, <1>4, <1>5, <1>6, <1>7 DEF OrderInv

\* Chunks are compared as numbers.
LEMMA ChunksAreNumbers == \A k \in Chunk : k \in Nat /\ k > 0
BY BoundsAssumption DEF Chunk

\* Broadcast k runs on from index i in its turn: the earlier broadcasts are over or
\* at i or beyond it, the later ones have not come to i, and the queues it finds are
\* the ones of before as far as the other broadcasts and the clients from i on go.
InTurn(k, i, queues) ==
    /\ \A j \in Chunk : j < k => /\ bc[j].pc \in {"sending", "done"}
                                 /\ bc[j].pc = "sending" => bc[j].idx >= i
    /\ \A j \in Chunk : j > k => /\ bc[j].pc \in {"idle", "sending"}
                                 /\ bc[j].pc = "sending" => bc[j].idx < i
    /\ \A c \in Client : \A j1, j2 \in Chunk \ {k} :
          Before(waitq[c], j1, j2) => Before(queues[c], j1, j2)
    /\ \A p \in DOMAIN lists[reg] : p >= i => queues[lists[reg][p]] = waitq[lists[reg][p]]

\* It stops at the latest where the one before it waits, and behind it in the queue.
LEMMA RunKeepsOrder ==
    ASSUME ClientTypes, ListInv, AllUp, OrderInv, reg \in ListId,
           NEW k \in Chunk, NEW i \in Nat \ {0}, NEW queues \in [Client -> Seq(Actor)],
           RunsOn(k, reg, i, {}, queues), InTurn(k, i, queues), UNCHANGED <<reg, closer>>
    PROVE  OrderInv'
<1> DEFINE s == StopAt(reg, i)  n == Len(lists[reg])  loop == LoopAfter(reg, i, {})
<1>1. /\ lists[reg] \in Seq(Client) /\ n \in Nat /\ DOMAIN lists[reg] = 1..n
      /\ s \in Nat /\ k \in Actor /\ bc \in [Chunk -> Loop] /\ got \in [Client -> Seq(Chunk)]
      /\ waitq \in [Client -> Seq(Actor)]
      /\ \A p \in 1..n : lists[reg][p] \in Client
  <2>1. /\ lists[reg] \in Seq(Client) /\ k \in Actor /\ bc \in [Chunk -> Loop]
        /\ got \in [Client -> Seq(Chunk)] /\ waitq \in [Client -> Seq(Actor)]
    BY DEF ClientTypes, Actor
  <2>2. s \in Nat
    BY StopAtProperties
  <2> QED BY <2>1, <2>2, SeqFacts
<1>2. /\ bc' = [bc EXCEPT ![k] = LoopAfter(reg, i, {})] /\ got' = GotAfter(k, reg, i)
      /\ Sweep(k, reg, i, {}, queues)
      /\ \A p \in DOMAIN lists[reg] : p >= i => k \notin Members(got[lists[reg][p]])
  BY DEF RunsOn
<1>3. /\ \A j \in Chunk : j < k => /\ bc[j].pc \in {"sending", "done"}
                                   /\ bc[j].pc = "sending" => bc[j].idx >= i
      /\ \A j \in Chunk : j > k => /\ bc[j].pc \in {"idle", "sending"}
                                   /\ bc[j].pc = "sending" => bc[j].idx < i
      /\ \A c \in Client : \A j1, j2 \in Chunk \ {k} :
            Before(waitq[c], j1, j2) => Before(queues[c], j1, j2)
      /\ \A p \in DOMAIN lists[reg] : p >= i => queues[lists[reg][p]] = waitq[lists[reg][p]]
  BY DEF InTurn
<1>4. DeadAfter(reg, i, {}) = {}
  BY NoneDead
<1>5. /\ lists' = lists
      /\ s > n => waitq' = queues
      /\ s <= n => waitq' = [queues EXCEPT ![lists[reg][s]] = Append(@, k)]
  <2>1. lists' = lists
    BY <1>1, <1>2, <1>4, SweepProperties
  <2>2. s > n => waitq' = queues
    BY <1>2 DEF Sweep
  <2>3. s <= n => waitq' = [queues EXCEPT ![lists[reg][s]] = Append(@, k)]
    BY <1>1, <1>2 DEF Sweep
  <2> QED BY <2>1, <2>2, <2>3
<1>6. /\ loop.pc \in {"sending", "done"}
      /\ loop.pc = "done" <=> s > n
      /\ s <= n => /\ loop.list = reg /\ loop.idx = s /\ loop.at = lists[reg][s] /\ loop.dead = {}
                   /\ s \in DOMAIN lists[reg] /\ lists[reg][s] \in Client
  BY <1>4, LoopAfterProperties
<1>7. \A j \in Chunk : bc'[j] = IF j = k THEN loop ELSE bc[j]
  BY <1>1, <1>2
<1>8. /\ s <= n => s >= i
      /\ \A j \in i..n : Blocks(lists[reg][j]) => s <= j
  BY StopAtProperties
<1> HIDE DEF s, n, loop
<1>9. /\ reg # 0 => lists[reg] # <<>>
      /\ closer.loop.pc # "closing"
      /\ closer.loop.pc = "sending" => closer.loop.list = reg /\ closer.loop.dead = {}
      /\ \A j \in Chunk : bc[j].pc = "sending" =>
            /\ bc[j].list = reg /\ bc[j].dead = {} /\ bc[j].idx \in DOMAIN lists[reg]
            /\ bc[j].at = lists[reg][bc[j].idx]
      /\ \A k1, k2 \in Chunk : k1 < k2 =>
            /\ bc[k2].pc = "done" => bc[k1].pc = "done"
            /\ bc[k1].pc = "sending" /\ bc[k2].pc = "sending" =>
                  /\ bc[k1].idx >= bc[k2].idx
                  /\ bc[k1].idx = bc[k2].idx => Before(waitq[bc[k1].at], k1, k2)
      /\ \A c \in Client : Strictly(got[c])
  BY DEF OrderInv
<1>10. ASSUME NEW j \in Chunk, j < k, bc[j].pc = "sending"
       PROVE  /\ s <= bc[j].idx /\ s <= n /\ bc[j].idx \in Nat
              /\ j \in Members(waitq[lists[reg][bc[j].idx]])
  <2> DEFINE x == bc[j].idx  at == lists[reg][x]
  <2>1. x \in 1..n /\ x \in Nat /\ x >= i /\ at \in Client /\ bc[j].at = at
    BY <1>1, <1>3, <1>9, <1>10
  <2>2. j \in Members(waitq[at])
    BY <1>10, <2>1 DEF ListInv, InLine
  <2> HIDE DEF x, at
  <2>3. waitq[at] # <<>>
    BY <2>2 DEF Members
  <2>4. Blocks(at)
    BY <2>1, <2>3 DEF Blocks, AllUp
  <2>5. s <= x
    BY <1>1, <1>8, <2>1, <2>4 DEF at
  <2> QED BY <1>1, <2>1, <2>2, <2>5 DEF x, at
<1>11. ASSUME NEW j \in Chunk, bc'[j].pc = "sending"
       PROVE  /\ bc'[j].list = reg' /\ bc'[j].dead = {} /\ bc'[j].idx \in DOMAIN lists'[reg']
              /\ bc'[j].at = lists'[reg'][bc'[j].idx]
  <2>1. CASE j = k
    <3>1. s <= n /\ bc'[j] = loop
      BY <1>1, <1>6, <1>7, <1>11, <2>1
    <3> QED BY <1>5, <1>6, <3>1
  <2>2. CASE j # k
    BY <1>5, <1>7, <1>9, <1>11, <2>2
  <2> QED BY <2>1, <2>2
<1>12. ASSUME NEW k1 \in Chunk, NEW k2 \in Chunk, k1 < k2
       PROVE  /\ bc'[k2].pc = "done" => bc'[k1].pc = "done"
              /\ bc'[k1].pc = "sending" /\ bc'[k2].pc = "sending" =>
                    /\ bc'[k1].idx >= bc'[k2].idx
                    /\ bc'[k1].idx = bc'[k2].idx => Before(waitq'[bc'[k1].at], k1, k2)
  <2>1. CASE k1 # k /\ k2 # k
    <3>1. bc'[k1] = bc[k1] /\ bc'[k2] = bc[k2]
      BY <1>7, <2>1
    <3>2. ASSUME bc[k1].pc = "sending", bc[k2].pc = "sending", bc[k1].idx = bc[k2].idx
          PROVE  Before(waitq'[bc[k1].at], k1, k2)
      <4> DEFINE c == bc[k1].at
      <4>1. Before(waitq[c], k1, k2)
        BY <1>9, <1>12, <3>2
      <4>2. c \in Client
        BY <1>1, <1>9, <3>2
      <4> HIDE DEF c
      <4>3. Before(queues[c], k1, k2) /\ queues[c] \in Seq(Actor)
        BY <1>3, <2>1, <4>1, <4>2
      <4>4. Before(Append(queues[c], k), k1, k2)
        BY <1>1, <4>3, AppendOrder
      <4>5. waitq'[c] \in {queues[c], Append(queues[c], k)}
        <5>1. CASE s > n
          BY <1>5, <5>1
        <5>2. CASE s <= n
          <6>1. waitq' = [queues EXCEPT ![lists[reg][s]] = Append(@, k)]
            BY <1>5, <5>2
          <6> QED BY <4>2, <6>1
        <5> QED BY <1>1, <5>1, <5>2
      <4> QED BY <4>3, <4>4, <4>5 DEF c
    <3> QED BY <1>9, <1>12, <3>1, <3>2
  <2>2. CASE k2 = k
    <3>1. bc'[k1] = bc[k1] /\ bc'[k2] = loop /\ k1 < k
      BY <1>7, <1>12, <2>2, ChunksAreNumbers
    <3>2. bc[k1].pc \in {"sending", "done"}
      BY <1>3, <3>1
    <3>3. bc[k1].pc = "sending" => s <= bc[k1].idx /\ s <= n /\ bc[k1].idx \in Nat
      BY <1>10, <3>1
    <3>4. bc'[k2].pc = "done" => bc'[k1].pc = "done"
      BY <1>1, <1>6, <3>1, <3>2, <3>3
    <3>5. ASSUME bc'[k1].pc = "sending", bc'[k2].pc = "sending"
          PROVE  /\ bc'[k1].idx >= bc'[k2].idx
                 /\ bc'[k1].idx = bc'[k2].idx => Before(waitq'[bc'[k1].at], k1, k2)
      <4>1. /\ s <= bc[k1].idx /\ s <= n /\ bc[k1].idx \in Nat /\ bc'[k2].idx = s
            /\ bc[k1].at = lists[reg][bc[k1].idx]
            /\ k1 \in Members(waitq[lists[reg][bc[k1].idx]])
        BY <1>6, <1>9, <1>10, <3>1, <3>3, <3>5
      <4>2. ASSUME bc[k1].idx = s PROVE Before(waitq'[bc[k1].at], k1, k2)
        <5> DEFINE c == lists[reg][s]
        <5>1. /\ c \in Client /\ queues[c] = waitq[c] /\ k1 \in Members(waitq[c])
              /\ bc[k1].at = c /\ waitq'[c] = Append(queues[c], k)
          BY <1>1, <1>3, <1>5, <1>6, <1>8, <4>1, <4>2
        <5> HIDE DEF c
        <5>2. Before(Append(queues[c], k), k1, k)
          BY <1>1, <5>1, AppendOrder
        <5> QED BY <2>2, <5>1, <5>2
      <4> QED BY <1>1, <3>1, <4>1, <4>2
    <3> QED BY <3>4, <3>5
  <2>3. CASE k1 = k
    <3>1. bc'[k1] = loop /\ bc'[k2] = bc[k2] /\ k2 > k
      BY <1>7, <1>12, <2>3, ChunksAreNumbers
    <3>2. bc[k2].pc \in {"idle", "sending"} /\ (bc[k2].pc = "sending" => bc[k2].idx < i)
      BY <1>3, <3>1
    <3>3. ASSUME bc'[k1].pc = "sending", bc'[k2].pc = "sending"
          PROVE  bc'[k1].idx > bc'[k2].idx /\ bc'[k1].idx \in Nat /\ bc'[k2].idx \in Nat
      <4>1. s <= n /\ bc'[k1].idx = s /\ s >= i
        BY <1>1, <1>6, <1>8, <3>1, <3>3
      <4>2. bc[k2].idx < i /\ bc[k2].idx \in Nat
        BY <1>1, <3>1, <3>2, <3>3 DEF Loop
      <4> QED BY <1>1, <3>1, <4>1, <4>2
    <3>4. bc'[k2].pc # "done"
      BY <3>1, <3>2
    <3> QED BY <3>3, <3>4
  <2> QED BY <2>1, <2>2, <2>3
<1>13. ASSUME NEW c \in Client PROVE Strictly(got'[c])
  <2>1. CASE c \notin Written(reg, i)
    BY <1>2, <1>9, <2>1 DEF GotAfter
  <2>2. CASE c \in Written(reg, i)
    <3>1. got'[c] = Append(got[c], k) /\ got[c] \in Seq(Chunk)
      BY <1>1, <1>2, <2>2 DEF GotAfter
    <3>2. PICK q \in i..n : lists[reg][q] = c
      BY <2>2 DEF Written, Reached, n
    <3>3. q \in DOMAIN lists[reg] /\ q >= i /\ q \in Nat
      BY <1>1, <3>2
    <3>4. ASSUME NEW x \in Members(got[c]) PROVE x < k
      <4>1. x \in Chunk /\ x # k
        <5>1. k \notin Members(got[c])
          BY <1>2, <3>2, <3>3
        <5>2. \A a \in DOMAIN got[c] : got[c][a] \in Chunk
          BY <3>1, SeqFacts
        <5> QED BY <5>1, <5>2 DEF Members
      <4>2. x <= Len(log) /\ Len(log) \in Nat
        <5>1. \A a \in DOMAIN got[c] : got[c][a] <= Len(log)
          BY DEF ListInv, Begun
        <5> QED BY <5>1, LenProperties DEF Members, ClientTypes
      <4>3. bc[x].pc # "idle"
        BY <4>1, <4>2, ChunksAreNumbers DEF ListInv, Begun
      <4>4. ASSUME x > k PROVE FALSE
        <5>1. bc[x].pc = "sending" /\ bc[x].idx < i /\ bc[x].list = reg
          BY <1>3, <1>9, <4>1, <4>3, <4>4
        <5>2. bc[x].idx \in Nat
          BY <1>1, <4>1 DEF Loop
        <5>3. q > bc[x].idx
          BY <3>3, <5>1, <5>2
        <5>4. x \notin Members(got[lists[reg][q]])
          BY <3>3, <4>1, <5>1, <5>3 DEF ListInv, Ahead
        <5> QED BY <3>2, <5>4
      <4> QED BY <4>1, <4>4, ChunksAreNumbers
    <3> QED BY <1>9, <3>1, <3>4, StrictlyAppend
  <2> QED BY <2>1, <2>2
<1>14. /\ reg' # 0 => lists'[reg'] # <<>>
       /\ closer'.loop.pc # "closing"
       /\ closer'.loop.pc = "sending" => closer'.loop.list = reg' /\ closer'.loop.dead = {}
  BY <1>5, <1>9
<1> QED BY <1>11, <1>12, <1>13, <1>14 DEF OrderInv

\* A broadcast starts: it is the latest.
LEMMA StartKeepsOrder ==
    ASSUME ClientTypes, ListInv, InOrder, OrderInv, AllUp' => AllUp, BroadcastStart
    PROVE  OrderInv'
<1> SUFFICES ASSUME AllUp' PROVE OrderInv'
  BY DEF OrderInv
<1> DEFINE k == Head(pending)
<1>1. /\ UNCHANGED <<reg, closer>>
      /\ Registered = {} => bc' = [bc EXCEPT ![k] = Done] /\ UNCHANGED <<lists, waitq, got>>
  BY DEF BroadcastStart
<1>2. /\ k \in Chunk /\ k = Len(log) + 1 /\ Len(log) \in Nat
      /\ Registered # {} => reg \in ListId /\ RunsOn(k, reg, 1, {}, waitq)
  BY StartBegins
<1> HIDE DEF k
<1>3. AllUp
  OBVIOUS
<1>4. /\ reg # 0 => lists[reg] # <<>>
      /\ closer.loop.pc # "closing"
      /\ closer.loop.pc = "sending" => closer.loop.list = reg /\ closer.loop.dead = {}
      /\ \A j \in Chunk : bc[j].pc = "sending" =>
            bc[j].list = reg /\ bc[j].idx \in DOMAIN lists[reg]
      /\ \A c \in Client : Strictly(got[c])
  BY <1>3 DEF OrderInv
<1>5. /\ \A j \in Chunk : j < k => bc[j].pc \in {"sending", "done"}
      /\ \A j \in Chunk : j > k => bc[j].pc = "idle"
  <2>1. \A j \in Chunk : bc[j].pc \in {"idle", "sending", "done"}
    BY DEF ClientTypes
  <2>2. \A j \in Chunk : bc[j].pc = "idle" <=> j > Len(log)
    BY DEF ListInv, Begun
  <2> QED BY <1>2, <2>1, <2>2, ChunksAreNumbers
<1>6. CASE Registered = {}
  <2>1. reg = 0
    <3>1. ASSUME reg # 0 PROVE FALSE
      <4>1. reg \in 0..MaxLists /\ MaxLists \in Nat
        BY BoundsAssumption DEF ClientTypes
      <4>2. lists[reg] \in Seq(Client) /\ lists[reg] # <<>>
        BY <1>4, <3>1, <4>1 DEF ListId, ClientTypes
      <4>3. 1 \in DOMAIN lists[reg]
        BY <4>2, EmptySeq, LenProperties
      <4>4. Members(lists[reg]) = {}
        BY <1>6, <3>1 DEF Registered
      <4> QED BY <4>3, <4>4 DEF Members
    <3> QED BY <3>1
  <2>2. \A j \in Chunk : bc[j].pc # "sending"
    <3>1. \A j \in Chunk : bc[j].pc = "sending" => bc[j].list # 0
      BY DEF ClientTypes, Suspended, ListId
    <3> QED BY <1>4, <2>1, <3>1
  <2>3. /\ \A j \in Chunk : j # k => bc'[j] = bc[j]
        /\ bc'[k].pc = "done"
    <3>1. Done.pc = "done" /\ bc \in [Chunk -> Loop]
      BY DEF Done, Idle, ClientTypes
    <3> QED BY <1>1, <1>2, <1>6, <3>1
  <2>4. \A j \in Chunk : bc'[j].pc # "sending"
    BY <2>2, <2>3
  <2>5. ASSUME NEW k1 \in Chunk, NEW k2 \in Chunk, k1 < k2, bc'[k2].pc = "done"
        PROVE  bc'[k1].pc = "done"
    <3>1. k2 <= k
      BY <1>2, <1>5, <2>3, <2>5, ChunksAreNumbers
    <3>2. k1 < k /\ k1 # k
      BY <1>2, <2>5, <3>1, ChunksAreNumbers
    <3> QED BY <1>5, <2>2, <2>3, <3>2
  <2>6. \A c \in Client : Strictly(got'[c])
    BY <1>1, <1>4, <1>6
  <2>7. /\ reg' # 0 => lists'[reg'] # <<>>
        /\ closer'.loop.pc # "closing"
        /\ closer'.loop.pc = "sending" => closer'.loop.list = reg' /\ closer'.loop.dead = {}
    BY <1>1, <1>4, <2>1
  <2> QED BY <2>4, <2>5, <2>6, <2>7 DEF OrderInv
<1>7. CASE Registered # {}
  <2>1. /\ reg \in ListId /\ RunsOn(k, reg, 1, {}, waitq) /\ UNCHANGED <<reg, closer>>
    BY <1>1, <1>2, <1>7
  <2>2. lists[reg] \in Seq(Client) /\ waitq \in [Client -> Seq(Actor)] /\ 1 \in Nat \ {0}
    BY <2>1 DEF ClientTypes
  <2>3. \A j \in Chunk : bc[j].pc = "sending" => bc[j].idx >= 1
    BY <1>4, <2>2, SeqFacts
  <2>4. InTurn(k, 1, waitq)
    BY <1>5, <2>3 DEF InTurn
  <2> QED BY ONLY ClientTypes, ListInv, OrderInv, <1>2, <1>3, <2>1, <2>2, <2>4, RunKeepsOrder
<1> QED BY <1>6, <1>7

\* A broadcast goes on: those before it wait further on, or before it in the queue,
\* which it was the first to leave.
LEMMA ResumeKeepsOrder ==
    ASSUME ClientTypes, ListInv, OrderInv, AllUp' => AllUp,
           NEW k \in Chunk, BroadcastResume(k)
    PROVE  OrderInv'
<1> SUFFICES ASSUME AllUp' PROVE OrderInv'
  BY DEF OrderInv
<1> DEFINE b == bc[k]  i == b.idx + 1  queues == Dequeued(b.at)
<1>1. /\ b.pc = "sending" /\ Released(k, b.at) /\ k <= Len(log)
      /\ b.list \in ListId /\ b.idx \in Nat /\ i \in Nat \ {0}
      /\ b.at \in Client /\ DeadOf(b) \in SUBSET Client
      /\ queues \in [Client -> Seq(Actor)] /\ UNCHANGED <<log, reg, hnd, sock, closer>>
      /\ RunsOn(k, b.list, i, DeadOf(b), queues)
  BY ResumeRunsOn
<1>2. AllUp
  OBVIOUS
<1>3. /\ \A j \in Chunk : bc[j].pc = "sending" =>
            /\ bc[j].list = reg /\ bc[j].dead = {} /\ bc[j].idx \in DOMAIN lists[reg]
            /\ bc[j].at = lists[reg][bc[j].idx]
      /\ \A k1, k2 \in Chunk : k1 < k2 =>
            /\ bc[k2].pc = "done" => bc[k1].pc = "done"
            /\ bc[k1].pc = "sending" /\ bc[k2].pc = "sending" =>
                  /\ bc[k1].idx >= bc[k2].idx
                  /\ bc[k1].idx = bc[k2].idx => Before(waitq[bc[k1].at], k1, k2)
  BY <1>2 DEF OrderInv
<1>4. b.list = reg /\ DeadOf(b) = {} /\ b.idx \in DOMAIN lists[reg] /\ b.at = lists[reg][b.idx]
  <2>1. b.list = reg /\ b.dead = {} /\ b.idx \in DOMAIN lists[reg] /\ b.at = lists[reg][b.idx]
    BY <1>1, <1>3
  <2>2. sock[b.at] # "down"
    BY <1>1, <1>2 DEF AllUp
  <2> QED BY <2>1, <2>2 DEF DeadOf
<1>5. /\ waitq[b.at] \in Seq(Actor) /\ waitq[b.at] # <<>> /\ Head(waitq[b.at]) = k
      /\ Once(waitq[b.at], k)
      /\ \A c \in Client : queues[c] = IF c = b.at THEN Tail(waitq[b.at]) ELSE waitq[c]
  <2>1. waitq[b.at] \in Seq(Actor)
    BY <1>1 DEF ClientTypes
  <2>2. Once(waitq[b.at], k)
    BY <1>1 DEF ListInv, InLine
  <2> QED BY <1>1, <2>1, <2>2, DequeuedProperties
<1>6. reg \in ListId /\ lists[reg] \in Seq(Client) /\ RunsOn(k, reg, i, {}, queues)
      /\ UNCHANGED <<reg, closer>>
  <2>1. RunsOn(k, reg, i, {}, queues)
    BY <1>1, <1>4
  <2>2. reg \in ListId /\ lists[reg] \in Seq(Client)
    BY <1>1, <1>4 DEF ClientTypes
  <2> QED BY <1>1, <2>1, <2>2
<1> HIDE DEF b, queues
<1>7. ASSUME NEW j \in Chunk, j < k
      PROVE  bc[j].pc \in {"sending", "done"} /\ (bc[j].pc = "sending" => bc[j].idx >= i)
  <2>1. bc[j].pc \in {"sending", "done"}
    <3>1. bc[j].pc \in {"idle", "sending", "done"} /\ (bc[j].pc = "idle" <=> j > Len(log))
      BY DEF ClientTypes, ListInv, Begun
    <3>2. Len(log) \in Nat
      BY LenProperties DEF ClientTypes
    <3> QED BY <1>1, <1>7, <3>1, <3>2, ChunksAreNumbers
  <2>2. ASSUME bc[j].pc = "sending" PROVE bc[j].idx >= i
    <3>1. /\ bc[j].idx \in Nat /\ bc[j].idx >= b.idx /\ bc[j].at = lists[reg][bc[j].idx]
          /\ bc[j].idx = b.idx => Before(waitq[bc[j].at], j, k)
      <4>1. bc[j].idx \in DOMAIN lists[reg]
        BY <1>3, <2>2
      <4>2. bc[j].idx \in Nat
        BY <1>6, <4>1, SeqFacts
      <4> QED BY <1>1, <1>3, <1>7, <2>2, <4>2 DEF b
    <3>2. ASSUME bc[j].idx = b.idx PROVE FALSE
      <4>1. Before(waitq[b.at], j, k)
        BY <1>4, <3>1, <3>2
      <4> QED BY <1>5, <4>1, TailOrder
    <3> QED BY <1>1, <3>1, <3>2
  <2> QED BY <2>1, <2>2
<1>8. ASSUME NEW j \in Chunk, j > k
      PROVE  bc[j].pc \in {"idle", "sending"} /\ (bc[j].pc = "sending" => bc[j].idx < i)
  <2>1. k < j
    BY <1>8, ChunksAreNumbers
  <2>2. bc[j].pc # "done"
    BY <1>1, <1>3, <2>1 DEF b
  <2>3. bc[j].pc \in {"idle", "sending", "done"}
    BY DEF ClientTypes
  <2>4. ASSUME bc[j].pc = "sending" PROVE bc[j].idx < i
    <3>1. bc[j].idx \in DOMAIN lists[reg] /\ bc[j].idx <= b.idx
      BY <1>1, <1>3, <2>1, <2>4 DEF b
    <3>2. bc[j].idx \in Nat
      BY <1>6, <3>1, SeqFacts
    <3> QED BY <1>1, <3>1, <3>2
  <2> QED BY <2>2, <2>3, <2>4
<1>9. ASSUME NEW c \in Client, NEW j1 \in Chunk \ {k}, NEW j2 \in Chunk \ {k},
             Before(waitq[c], j1, j2)
      PROVE  Before(queues[c], j1, j2)
  <2>1. CASE c = b.at
    <3>1. Before(Tail(waitq[b.at]), j1, j2)
      BY <1>5, <1>9, <2>1, TailOrder
    <3> QED BY <1>5, <2>1, <3>1
  <2>2. CASE c # b.at
    BY <1>5, <1>9, <2>2
  <2> QED BY <2>1, <2>2
<1>10. ASSUME NEW p \in DOMAIN lists[reg], p >= i
       PROVE  queues[lists[reg][p]] = waitq[lists[reg][p]]
  <2>1. p \in Nat /\ lists[reg][p] \in Client
    BY <1>6, SeqFacts
  <2>2. p # b.idx
    BY <1>1, <1>10, <2>1
  <2>3. lists[reg][p] # b.at
    BY <1>4, <1>6, <2>2 DEF ListInv, Distinct
  <2> QED BY <1>5, <2>1, <2>3
<1>11. InTurn(k, i, queues)
  BY <1>7, <1>8, <1>9, <1>10 DEF InTurn
<1> QED BY ONLY ClientTypes, ListInv, OrderInv, k \in Chunk, <1>1, <1>2, <1>6, <1>11, RunKeepsOrder

\* A suspended broadcast is at a client of a list.
LEMMA SendingIsAtAClient ==
    ASSUME ClientTypes
    PROVE  \A k \in Chunk : bc[k].pc = "sending" => bc[k].list # 0 /\ bc[k].at \in Client
<1>1. \A k \in Chunk : bc[k].pc = "sending" => bc[k].list \in ListId /\ bc[k].at \in Client
  BY DEF ClientTypes, Suspended
<1>2. 0 \notin ListId
  BY DEF ListId
<1> QED BY <1>1, <1>2

\* A client connects: the list grows behind every broadcast.
LEMMA ConnectKeepsOrder ==
    ASSUME ClientTypes, OrderInv, AllUp' => AllUp, NEW c \in Client, Connect(c), ClientTypes'
    PROVE  OrderInv'
<1> SUFFICES ASSUME AllUp' PROVE OrderInv'
  BY DEF OrderInv
<1> DEFINE r == reg'  s == lists[r]  t == lists'[r]
<1>1. /\ UNCHANGED <<log, ring, bc, got, departed, sock, closes, closer>>
      /\ r \in ListId
      /\ \/ /\ reg # 0 /\ r = reg /\ t = Append(s, c)
         \/ reg = 0 /\ t = <<c>>
      /\ \A d \in Client : waitq'[d] = waitq[d] \/ (d = c /\ waitq'[d] = Append(waitq[d], c))
  BY ConnectLists
<1>2. s \in Seq(Client)
  BY <1>1 DEF ClientTypes
<1> HIDE DEF r, s, t
<1>3. /\ lists[r] = s /\ lists'[r] = t /\ reg' = r
  BY DEF r, s, t
<1>4. /\ closer.loop.pc # "closing"
      /\ closer.loop.pc = "sending" => closer.loop.list = reg /\ closer.loop.dead = {}
      /\ \A k \in Chunk : bc[k].pc = "sending" =>
            /\ bc[k].list = reg /\ bc[k].dead = {} /\ bc[k].idx \in DOMAIN lists[reg]
            /\ bc[k].at = lists[reg][bc[k].idx]
      /\ \A k1, k2 \in Chunk : k1 < k2 =>
            /\ bc[k2].pc = "done" => bc[k1].pc = "done"
            /\ bc[k1].pc = "sending" /\ bc[k2].pc = "sending" =>
                  /\ bc[k1].idx >= bc[k2].idx
                  /\ bc[k1].idx = bc[k2].idx => Before(waitq[bc[k1].at], k1, k2)
      /\ \A d \in Client : Strictly(got[d])
  BY DEF OrderInv
<1>5. /\ t # <<>>
      /\ reg # 0 => \A x \in DOMAIN s : x \in DOMAIN t /\ t[x] = s[x]
  <2>1. CASE reg = 0 /\ t = <<c>>
    BY <2>1
  <2>2. CASE reg # 0 /\ t = Append(s, c)
    <3>1. Len(t) = Len(s) + 1 /\ t[Len(s) + 1] = c /\ \A i \in 1..Len(s) : t[i] = s[i]
          /\ t \in Seq(Client)
      BY <1>2, <2>2, AppendProperties
    <3>2. DOMAIN t = 1..Len(s) + 1 /\ DOMAIN s = 1..Len(s) /\ Len(s) \in Nat
      BY <1>2, <3>1, LenProperties
    <3>3. Len(t) # 0
      BY <3>1, <3>2
    <3>4. t # <<>>
      BY <3>1, <3>3, EmptySeq
    <3> QED BY <3>1, <3>2, <3>4
  <2> QED BY <1>1, <2>1, <2>2
<1>6. /\ \A k \in Chunk : bc[k].pc = "sending" => reg # 0 /\ bc[k].at \in Client
      /\ closer.loop.pc = "sending" => reg # 0
  <2>1. /\ \A k \in Chunk : bc[k].pc = "sending" => bc[k].list \in ListId /\ bc[k].at \in Client
        /\ closer.loop.pc = "sending" => closer.loop.list \in ListId
    BY DEF ClientTypes, Suspended
  <2>2. 0 \notin ListId
    BY DEF ListId
  <2> QED BY <1>4, <2>1, <2>2
<1>7. ASSUME NEW d \in Client, NEW j \in Chunk, NEW k \in Chunk, Before(waitq[d], j, k)
      PROVE  Before(waitq'[d], j, k)
  <2>1. c \in Actor \ Chunk
    BY ClientAssumption DEF Actor, Chunk
  <2>2. waitq[d] \in Seq(Actor)
    BY DEF ClientTypes
  <2>3. Before(Append(waitq[d], c), j, k)
    BY <1>7, <2>1, <2>2, OthersInOrder
  <2> QED BY <1>1, <1>7, <2>3
<1>8. ASSUME NEW k \in Chunk, bc'[k].pc = "sending"
      PROVE  /\ bc'[k].list = reg' /\ bc'[k].dead = {} /\ bc'[k].idx \in DOMAIN lists'[reg']
             /\ bc'[k].at = lists'[reg'][bc'[k].idx]
  BY <1>1, <1>3, <1>4, <1>5, <1>6, <1>8
<1>9. ASSUME NEW k1 \in Chunk, NEW k2 \in Chunk, k1 < k2
      PROVE  /\ bc'[k2].pc = "done" => bc'[k1].pc = "done"
             /\ bc'[k1].pc = "sending" /\ bc'[k2].pc = "sending" =>
                   /\ bc'[k1].idx >= bc'[k2].idx
                   /\ bc'[k1].idx = bc'[k2].idx => Before(waitq'[bc'[k1].at], k1, k2)
  BY <1>1, <1>4, <1>6, <1>7, <1>9
<1>10. /\ reg' # 0 => lists'[reg'] # <<>>
       /\ closer'.loop.pc # "closing"
       /\ closer'.loop.pc = "sending" => closer'.loop.list = reg' /\ closer'.loop.dead = {}
  BY <1>1, <1>3, <1>4, <1>5, <1>6
<1>11. \A d \in Client : Strictly(got'[d])
  BY <1>1, <1>4
<1> QED BY <1>8, <1>9, <1>10, <1>11 DEF OrderInv

\* connect goes on.
LEMMA ConnectResumeKeepsOrder ==
    ASSUME ClientTypes, OrderInv, AllUp' => AllUp, NEW c \in Client, ConnectResume(c)
    PROVE  OrderInv'
<1>1. /\ Released(c, c)
      /\ \/ waitq' = [waitq EXCEPT ![c] = Append(Tail(@), c)]
         \/ waitq' = Dequeued(c)
      /\ UNCHANGED <<lists, reg, bc, got, closer>>
  BY DEF ConnectResume
<1>2. /\ waitq \in [Client -> Seq(Actor)] /\ waitq[c] # <<>> /\ Head(waitq[c]) = c
  BY <1>1 DEF ClientTypes, Released
<1>3. ASSUME NEW d \in Client, NEW j \in Chunk, NEW k \in Chunk, Before(waitq[d], j, k)
      PROVE  Before(waitq'[d], j, k)
  <2>1. c \in Actor \ Chunk
    BY ClientAssumption DEF Actor, Chunk
  <2>2. CASE d = c
    <3>1. Before(waitq[c], j, k) /\ waitq[c] \in Seq(Actor)
      BY <1>2, <1>3, <2>2
    <3>2. Before(Tail(waitq[c]), j, k) /\ Before(Append(Tail(waitq[c]), c), j, k)
      BY <1>2, <2>1, <3>1, OthersInOrder
    <3>3. waitq'[c] \in {Tail(waitq[c]), Append(Tail(waitq[c]), c)}
      BY <1>1, <1>2 DEF Dequeued
    <3> QED BY <2>2, <3>2, <3>3
  <2>3. CASE d # c
    <3>1. waitq'[d] = waitq[d]
      BY <1>1, <1>2, <2>3 DEF Dequeued
    <3> QED BY <1>3, <3>1
  <2> QED BY <2>2, <2>3
<1>4. SameOrder
  BY <1>1, <1>3 DEF SameOrder
<1>5. AllUp' => /\ closer'.loop.pc # "closing"
                /\ closer'.loop.pc = "sending" => closer'.loop.list = reg /\ closer'.loop.dead = {}
  BY <1>1 DEF OrderInv
<1> QED BY <1>1, <1>4, <1>5, SendingIsAtAClient, OrderFrame

\* disconnect_all closes the first connection of a list when all are up.
LEMMA CloseFromCloses ==
    ASSUME ClientTypes, NEW l \in ListId, CloseFrom(l, 1), AllUp,
           lists' \in [ListId -> Seq(Client)], lists'[l] # <<>>
    PROVE  ~AllUp'
<1>1. /\ lists'[l] \in Seq(Client) /\ 1 \in 1..Len(lists'[l]) /\ lists'[l][1] \in Client
      /\ l # 0 /\ l \in 0..MaxLists
  <2>1. lists'[l] \in Seq(Client) /\ Len(lists'[l]) # 0
    BY EmptySeq
  <2>2. 1 \in DOMAIN lists'[l] /\ DOMAIN lists'[l] = 1..Len(lists'[l])
    BY <2>1, LenProperties
  <2> QED BY <2>1, <2>2, SeqFacts DEF ListId
<1>2. sock[lists'[l][1]] = "up"
  BY <1>1 DEF AllUp
<1>3. \E j : closer' = [loop |-> Closing(l, j, lists'[l][j]), fence |-> 0]
  <2>1. 1 \in {j \in 1..(IF l = 0 THEN 0 ELSE Len(lists'[l])) : sock[lists'[l][j]] = "up"}
    BY <1>1, <1>2
  <2> QED BY <2>1 DEF CloseFrom
<1>4. closer'.loop.pc = "closing"
  <2>1. PICK j : closer' = [loop |-> Closing(l, j, lists'[l][j]), fence |-> 0]
    BY <1>3
  <2>2. closer'.loop = Closing(l, j, lists'[l][j])
    BY <2>1
  <2> QED BY <2>2, ClosingIs
<1>5. \E c \in Client : sock'[c] # "up"
  BY <1>1, <1>4, CloseFromTypes
<1> QED BY <1>5 DEF AllUp

\* broadcast_status runs on over the list of the port: when it is over, its clients
\* are closed.
LEMMA StatusFromKeepsOrder ==
    ASSUME ClientTypes, OrderInv, AllUp' => AllUp, reg \in ListId, NEW i \in Nat \ {0},
           NEW dead \in SUBSET Client, NEW queues \in [Client -> Seq(Actor)],
           AllUp => dead = {},
           \A c \in Client : \A j, k \in Chunk : Before(waitq[c], j, k) => Before(queues[c], j, k),
           StatusFrom(reg, i, dead, queues), UNCHANGED <<bc, got>>
    PROVE  OrderInv'
<1> SUFFICES ASSUME AllUp' PROVE OrderInv'
  BY DEF OrderInv
<1>1. AllUp /\ dead = {} /\ lists[reg] # <<>> /\ Closer \in Actor \ Chunk
  BY DEF OrderInv, Closer, Actor, Chunk, ListId
<1>2. /\ Sweep(Closer, reg, i, {}, queues) /\ DeadAfter(reg, i, {}) = {}
      /\ StatusFrom(reg, i, {}, queues)
  <2>1. DeadAfter(reg, i, {}) = {}
    BY <1>1, NoneDead
  <2> QED BY <1>1, <2>1 DEF StatusFrom
<1>3. lists' = lists /\ lists' \in [ListId -> Seq(Client)]
  BY <1>1, <1>2, SweepProperties
<1>4. ~(StopAt(reg, i) > Len(lists[reg]))
  <2> SUFFICES ASSUME StopAt(reg, i) > Len(lists[reg]) PROVE FALSE
    OBVIOUS
  <2>1. CloseFrom(reg, 1)
    BY <1>2 DEF StatusFrom, DisconnectAll
  <2> QED BY <1>1, <1>3, <2>1, CloseFromCloses
<1>5. /\ closer' = [closer EXCEPT !.loop = LoopAfter(reg, i, {})] /\ reg' = reg
      /\ waitq' = [queues EXCEPT ![lists[reg][StopAt(reg, i)]] = Append(@, Closer)]
  BY <1>2, <1>4 DEF StatusFrom, Sweep
<1>6. StopAt(reg, i) \in Nat /\ Len(lists[reg]) \in Nat /\ StopAt(reg, i) <= Len(lists[reg])
  <2>1. StopAt(reg, i) \in Nat
    BY StopAtProperties
  <2>2. Len(lists[reg]) \in Nat
    BY LenProperties DEF ClientTypes
  <2> QED BY <1>4, <2>1, <2>2
<1>7. /\ closer'.loop.pc # "closing" /\ closer'.loop.list = reg /\ closer'.loop.dead = {}
  <2>1. /\ LoopAfter(reg, i, {}).pc # "closing" /\ LoopAfter(reg, i, {}).list = reg
        /\ LoopAfter(reg, i, {}).dead = {}
    BY <1>2, <1>6, LoopAfterProperties
  <2>2. closer'.loop = LoopAfter(reg, i, {})
    BY <1>5 DEF ClientTypes
  <2> QED BY <2>1, <2>2
<1>8. ASSUME NEW c \in Client, NEW j \in Chunk, NEW k \in Chunk, Before(waitq[c], j, k)
      PROVE  Before(waitq'[c], j, k)
  <2>1. Before(queues[c], j, k) /\ queues[c] \in Seq(Actor)
    BY <1>8
  <2>2. Before(Append(queues[c], Closer), j, k)
    BY <1>1, <2>1, OthersInOrder
  <2>3. waitq'[c] \in {queues[c], Append(queues[c], Closer)}
    BY <1>5
  <2> QED BY <2>1, <2>2, <2>3
<1>9. SameOrder
  BY <1>8 DEF SameOrder
<1>10. \A k \in Chunk : bc[k].pc = "sending" => bc[k].list # 0 /\ bc[k].at \in Client
  BY SendingIsAtAClient
<1> QED BY <1>1, <1>3, <1>5, <1>7, <1>9, <1>10, OrderFrame

\* A step of close_port.
LEMMA CloserKeepsOrder ==
    ASSUME ClientTypes, ClientTypes', OrderInv, AllUp' => AllUp,
           StatusStart \/ StatusResume \/ DisconnectResume
    PROVE  OrderInv'
<1> SUFFICES ASSUME AllUp' PROVE OrderInv'
  BY DEF OrderInv
<1>0. /\ waitq \in [Client -> Seq(Actor)] /\ reg \in 0..MaxLists /\ MaxLists \in Nat
      /\ 1 \in Nat \ {0} /\ {} \in SUBSET Client /\ lists' \in [ListId -> Seq(Client)]
  <2>1. waitq \in [Client -> Seq(Actor)] /\ reg \in 0..MaxLists /\ lists' \in [ListId -> Seq(Client)]
    BY DEF ClientTypes
  <2> QED BY <2>1, BoundsAssumption
<1>1. CASE StatusStart /\ reg # 0
  <2>1. reg \in ListId
    BY <1>0, <1>1 DEF ListId
  <2>2. StatusFrom(reg, 1, {}, waitq) /\ UNCHANGED <<bc, got>>
    BY <1>1 DEF StatusStart
  <2> QED BY <1>0, <2>1, <2>2, StatusFromKeepsOrder
<1>2. CASE StatusStart /\ reg = 0
  <2>1. UNCHANGED <<lists, bc, waitq, got>> /\ reg' = 0 /\ CloseFrom(reg, 1)
    BY <1>2 DEF StatusStart, DisconnectAll
  <2>2. /\ closer'.loop.pc \in {"idle", "closing"}
        /\ closer'.loop.pc = "closing" => \E c \in Client : sock'[c] # "up"
    BY <1>0, <2>1, CloseFromTypes
  <2>3. closer'.loop.pc = "idle"
    BY <2>2 DEF AllUp
  <2>4. SameOrder
    BY <2>1 DEF SameOrder
  <2>5. \A k \in Chunk : bc[k].pc = "sending" => bc[k].list # 0 /\ bc[k].at \in Client
    BY SendingIsAtAClient
  <2> QED BY <1>2, <2>1, <2>3, <2>4, <2>5, OrderFrame
<1>3. CASE StatusResume
  <2> DEFINE b == closer.loop
  <2>1. /\ b.pc = "sending" /\ Released(Closer, b.at)
        /\ StatusFrom(b.list, b.idx + 1, DeadOf(b), Dequeued(b.at))
        /\ UNCHANGED <<bc, got>>
    BY <1>3 DEF StatusResume
  <2>2. b \in Loop /\ Suspended(b) /\ b.list = reg /\ b.dead = {}
    BY <2>1 DEF ClientTypes, OrderInv
  <2> HIDE DEF b
  <2>3. b.list \in ListId /\ b.idx + 1 \in Nat \ {0} /\ b.at \in Client
    BY <2>2 DEF Loop, Suspended
  <2>4. DeadOf(b) \in SUBSET Client /\ Dequeued(b.at) \in [Client -> Seq(Actor)]
    BY <2>1, <2>2, <2>3, DeadOfType, DequeuedProperties
  <2>5. DeadOf(b) = {}
    BY <2>2, <2>3 DEF DeadOf, AllUp
  <2>6. /\ \A d \in Client : Dequeued(b.at)[d] = IF d = b.at THEN Tail(waitq[b.at]) ELSE waitq[d]
        /\ waitq[b.at] # <<>> /\ Head(waitq[b.at]) = Closer /\ Closer \in Actor \ Chunk
        /\ waitq[b.at] \in Seq(Actor)
    <3>1. Closer \in Actor \ Chunk
      BY DEF Closer, Actor, Chunk
    <3> QED BY <1>0, <2>1, <2>3, <3>1, DequeuedProperties
  <2>7. ASSUME NEW d \in Client, NEW j \in Chunk, NEW k \in Chunk, Before(waitq[d], j, k)
        PROVE  Before(Dequeued(b.at)[d], j, k)
    <3>1. CASE d = b.at
      <4>1. Before(Tail(waitq[b.at]), j, k)
        BY <2>6, <2>7, <3>1, OthersInOrder
      <4> QED BY <2>6, <3>1, <4>1
    <3>2. CASE d # b.at
      BY <2>6, <2>7, <3>2
    <3> QED BY <3>1, <3>2
  <2> QED BY <2>1, <2>2, <2>3, <2>4, <2>5, <2>7, StatusFromKeepsOrder
<1>4. CASE DisconnectResume
  BY <1>4 DEF DisconnectResume, OrderInv
<1> QED BY <1>1, <1>2, <1>3, <1>4

\* Every step.
LEMMA OrderKept ==
    ASSUME ClientTypes, ClientTypes', InOrder, ListInv, OrderInv, [Next]_vars
    PROVE  OrderInv'
<1>0. AllUp' => AllUp
  BY UpBefore
<1>1. ASSUME UNCHANGED <<lists, reg, bc, waitq, got, closer>>
      PROVE  OrderInv'
  <2>1. SameOrder
    BY <1>1 DEF SameOrder
  <2>2. \A k \in Chunk : bc[k].pc = "sending" => bc[k].list # 0 /\ bc[k].at \in Client
    BY SendingIsAtAClient
  <2>3. AllUp' => /\ closer'.loop.pc # "closing"
                  /\ closer'.loop.pc = "sending" => closer'.loop.list = reg /\ closer'.loop.dead = {}
    BY <1>0, <1>1 DEF OrderInv
  <2> QED BY <1>0, <1>1, <2>1, <2>2, <2>3, OrderFrame
<1>2. CASE BroadcastSync \/ OpenPort \/ UNCHANGED vars
  BY <1>1, <1>2 DEF BroadcastSync, OpenPort, vars
<1>3. ASSUME NEW c \in Client, Stall(c) \/ Drain(c) \/ WriteBegins(c) \/ WriteEnds(c) PROVE OrderInv'
  BY <1>1, <1>3 DEF Stall, Drain, WriteBegins, WriteEnds
<1>4. CASE ClosePort
  <2>1. UNCHANGED <<lists, reg, bc, waitq, got>> /\ closer'.loop.pc = "stopping"
    BY <1>4 DEF ClosePort, Idle
  <2>2. SameOrder
    BY <2>1 DEF SameOrder
  <2>3. \A k \in Chunk : bc[k].pc = "sending" => bc[k].list # 0 /\ bc[k].at \in Client
    BY SendingIsAtAClient
  <2> QED BY <1>0, <2>1, <2>2, <2>3, OrderFrame
<1>5. ASSUME NEW c \in Client, HandlerEnds(c) \/ HandlerFails(c) \/ ConnectionLost(c)
      PROVE  OrderInv'
  <2>1. sock'[c] # "up"
    BY <1>5 DEF HandlerEnds, HandlerFails, ConnectionLost, ClientTypes
  <2> QED BY <2>1 DEF OrderInv, AllUp
<1> QED BY <1>0, <1>2, <1>3, <1>4, <1>5, StartKeepsOrder, ResumeKeepsOrder, ConnectKeepsOrder,
           ConnectResumeKeepsOrder, CloserKeepsOrder DEF Next

\* Whichever clients stall and whoever connects: as long as nobody has been removed
\* from a list, every attached client gets its replay and every chunk broadcast after
\* its registration, without a gap; and while no connection has gone, it gets the
\* chunks in the order they were read.
THEOREM StreamUntilDepartureHolds == Spec => []StreamUntilDeparture
<1>1. Init => StreamInv /\ OrderInv
  <2> SUFFICES ASSUME Init PROVE StreamInv /\ OrderInv
    OBVIOUS
  <2>1. /\ closes = 0 /\ reg = 0 /\ \A k \in Chunk : bc[k].pc = "idle"
        /\ closer.loop.pc = "idle" /\ \A c \in Client : hnd[c] = "new" /\ got[c] = <<>>
    BY DEF Init, Idle
  <2>2. \A c \in Client : ~Attached(c)
    BY <2>1 DEF Attached
  <2>3. StreamInv
    BY <2>1, <2>2 DEF StreamInv
  <2>4. OrderInv
    BY <2>1 DEF OrderInv, Strictly
  <2> QED BY <2>3, <2>4
<1>2. IInv /\ ClientTypes /\ ClientTypes' /\ ListInv /\ StreamInv /\ OrderInv /\ [Next]_vars
         => StreamInv' /\ OrderInv'
  <2>1. ASSUME IInv, ClientTypes, ClientTypes', ListInv, StreamInv, OrderInv, [Next]_vars
        PROVE  StreamInv' /\ OrderInv'
    <3>1. InOrder
      BY <2>1 DEF IInv
    <3> QED BY <2>1, <3>1, StreamKept, OrderKept
  <2> QED BY <2>1
<1>3. ClientTypes /\ StreamInv /\ OrderInv => StreamUntilDeparture
  <2> SUFFICES ASSUME ClientTypes, StreamInv, OrderInv PROVE StreamUntilDeparture
    OBVIOUS
  <2>1. ASSUME ~departed, NEW c \in Client, Attached(c) PROVE GotTheStream(c)
    <3>1. /\ c \in Registered
          /\ \A k \in Chunk : k <= since[c] /\ since[c] < k + RingCap => k \in Members(replayed[c])
          /\ \A k \in Chunk : \A p \in DOMAIN lists[reg] :
                lists[reg][p] = c /\ since[c] < k /\ bc[k].pc = "done" => k \in Members(got[c])
      BY <2>1 DEF StreamInv
    <3>2. PICK p \in DOMAIN lists[reg] : lists[reg][p] = c
      BY <3>1 DEF Registered, Members
    <3>3. \A k \in Chunk : ~(k <= since[c]) => since[c] < k
      BY SinceType, ChunksAreNumbers
    <3> QED BY <3>1, <3>2, <3>3 DEF GotTheStream
  <2>2. AllUp => \A c \in Client : Strictly(got[c])
    BY DEF OrderInv
  <2> QED BY <2>1, <2>2 DEF StreamUntilDeparture, AllUp
<1> QED BY <1>1, <1>2, <1>3, Invariant, ListInvariant, PTL DEF Spec

=============================================================================
