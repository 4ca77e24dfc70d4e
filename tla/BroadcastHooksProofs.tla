----------------------- MODULE BroadcastHooksProofs -----------------------
(***************************************************************************)
(* For every number of sessions: the hooks that the SSH and telnet bridges *)
(* and the write-wait requests put into WsManager.broadcast never repeat,  *)
(* and nested sessions leave exactly the hooks of the connected ones.      *)
(***************************************************************************)
EXTENDS BroadcastHooks, SequenceTheorems, TLAPS

\* The variables the hooks depend on have their type.
HookTypes ==
    /\ broadcast \in Seq(Session)
    /\ original \in [Session -> Seq(Session)]
    /\ phase \in [Session -> {"new", "replayed", "hooked", "ended"}]
    /\ lifo \in BOOLEAN

\* A hook is made by a session that got to the point of making it.
Made(chain) == \A i \in 1..Len(chain) : phase[chain[i]] \in {"hooked", "ended"}

NoRepeat(chain) == \A i, j \in 1..Len(chain) : chain[i] = chain[j] => i = j

ChainsOK ==
    /\ Made(broadcast) /\ NoRepeat(broadcast)
    /\ \A s \in Session : Made(original[s]) /\ NoRepeat(original[s])

\* What each hook of the current broadcast saved is the rest of the chain.
Stacked ==
    \A i \in 1..Len(broadcast) :
       /\ Len(original[broadcast[i]]) = Len(broadcast) - i
       /\ \A j \in 1..(Len(broadcast) - i) :
             original[broadcast[i]][j] = broadcast[i + j]

\* The hooks in place are those of the connected sessions.
InPlace ==
    \A s \in Session :
       phase[s] = "hooked" <=> \E i \in 1..Len(broadcast) : broadcast[i] = s

\* The inductive invariant.
IInv == /\ HookTypes /\ ChainsOK
        /\ lifo => Stacked /\ InPlace

-----------------------------------------------------------------------------
\* A hook in front of a chain.
LEMMA InFront ==
    ASSUME NEW chain \in Seq(Session), NEW s \in Session
    PROVE  /\ <<s>> \o chain \in Seq(Session)
           /\ Len(<<s>> \o chain) = Len(chain) + 1
           /\ (<<s>> \o chain)[1] = s
           /\ \A i \in 1..Len(chain) : (<<s>> \o chain)[i + 1] = chain[i]
           /\ \A i \in 2..(Len(chain) + 1) : (<<s>> \o chain)[i] = chain[i - 1]
OBVIOUS

\* A new hook is not in the chain it is put in front of.
LEMMA InstallKeeps ==
    ASSUME IInv, NEW s \in Session, Install(s)
    PROVE  IInv'
<1> DEFINE n == Len(broadcast)
<1>1. /\ phase[s] \in {"new", "replayed"}
      /\ phase' = [phase EXCEPT ![s] = "hooked"]
      /\ original' = [original EXCEPT ![s] = broadcast]
      /\ broadcast' = <<s>> \o broadcast /\ lifo' = lifo
  BY DEF Install
<1>2. HookTypes /\ ChainsOK /\ n \in Nat
  BY DEF IInv, HookTypes
<1>3. /\ broadcast' \in Seq(Session) /\ Len(broadcast') = n + 1 /\ broadcast'[1] = s
      /\ \A i \in 2..(n + 1) : broadcast'[i] = broadcast[i - 1]
  BY <1>1, <1>2, InFront DEF HookTypes
<1>4. /\ original'[s] = broadcast
      /\ \A u \in Session : u # s => original'[u] = original[u]
      /\ phase'[s] = "hooked"
      /\ \A u \in Session : u # s => phase'[u] = phase[u]
  BY <1>1, <1>2 DEF HookTypes
<1>5. \A i \in 1..n : broadcast[i] \in Session /\ broadcast[i] # s
  <2>1. \A i \in 1..n : broadcast[i] \in Session
    BY <1>2, ElementOfSeq DEF HookTypes
  <2>2. \A i \in 1..n : phase[broadcast[i]] \in {"hooked", "ended"}
    BY <1>2 DEF ChainsOK, Made
  <2> QED BY <2>1, <2>2, <1>1
<1>6. \A u \in Session : \A i \in 1..Len(original[u]) :
         original[u][i] \in Session /\ original[u][i] # s
  <2> SUFFICES ASSUME NEW u \in Session, NEW i \in 1..Len(original[u])
               PROVE  original[u][i] \in Session /\ original[u][i] # s
    OBVIOUS
  <2>1. original[u][i] \in Session
    BY <1>2, ElementOfSeq DEF HookTypes
  <2>2. phase[original[u][i]] \in {"hooked", "ended"}
    BY <1>2 DEF ChainsOK, Made
  <2> QED BY <2>1, <2>2, <1>1
<1>7. HookTypes'
  BY <1>1, <1>2, <1>3 DEF HookTypes
<1>8. Made(broadcast)' /\ NoRepeat(broadcast)'
  <2>1. ASSUME NEW i \in 1..(n + 1) PROVE phase'[broadcast'[i]] \in {"hooked", "ended"}
    <3>1. CASE i = 1
      BY <3>1, <1>3, <1>4
    <3>2. CASE i # 1
      <4>1. i - 1 \in 1..n /\ broadcast'[i] = broadcast[i - 1]
        BY <3>2, <1>2, <1>3
      <4> QED BY <4>1, <1>2, <1>4, <1>5 DEF ChainsOK, Made
    <3> QED BY <3>1, <3>2
  <2>2. ASSUME NEW i \in 1..(n + 1), NEW j \in 1..(n + 1), broadcast'[i] = broadcast'[j]
        PROVE  i = j
    <3>1. CASE i = 1 /\ j = 1
      BY <3>1
    <3>2. CASE i = 1 /\ j # 1
      <4>1. j - 1 \in 1..n /\ broadcast'[j] = broadcast[j - 1]
        BY <3>2, <1>2, <1>3
      <4> QED BY <4>1, <3>2, <2>2, <1>3, <1>5
    <3>3. CASE i # 1 /\ j = 1
      <4>1. i - 1 \in 1..n /\ broadcast'[i] = broadcast[i - 1]
        BY <3>3, <1>2, <1>3
      <4> QED BY <4>1, <3>3, <2>2, <1>3, <1>5
    <3>4. CASE i # 1 /\ j # 1
      <4>1. /\ i - 1 \in 1..n /\ broadcast'[i] = broadcast[i - 1]
            /\ j - 1 \in 1..n /\ broadcast'[j] = broadcast[j - 1]
        BY <3>4, <1>2, <1>3
      <4>2. i - 1 = j - 1
        BY <4>1, <2>2, <1>2 DEF ChainsOK, NoRepeat
      <4> QED BY <4>2, <1>2
    <3> QED BY <3>1, <3>2, <3>3, <3>4
  <2> QED BY <2>1, <2>2, <1>3 DEF Made, NoRepeat
<1>9. \A u \in Session : Made(original[u])' /\ NoRepeat(original[u])'
  <2> SUFFICES ASSUME NEW u \in Session
               PROVE  Made(original[u])' /\ NoRepeat(original[u])'
    OBVIOUS
  <2>1. CASE u = s
    BY <2>1, <1>2, <1>4, <1>5 DEF ChainsOK, Made, NoRepeat
  <2>2. CASE u # s
    BY <2>2, <1>2, <1>4, <1>6 DEF ChainsOK, Made, NoRepeat
  <2> QED BY <2>1, <2>2
<1>10. ASSUME lifo' PROVE Stacked' /\ InPlace'
  <2>1. Stacked /\ InPlace
    BY <1>1, <1>10 DEF IInv
  <2>2. ASSUME NEW i \in 1..(n + 1)
        PROVE  /\ Len(original'[broadcast'[i]]) = (n + 1) - i
               /\ \A j \in 1..((n + 1) - i) : original'[broadcast'[i]][j] = broadcast'[i + j]
    <3>1. CASE i = 1
      <4>1. original'[broadcast'[i]] = broadcast
        BY <3>1, <1>3, <1>4
      <4>2. \A j \in 1..n : broadcast'[1 + j] = broadcast[j]
        BY <1>2, <1>3
      <4> QED BY <3>1, <4>1, <4>2, <1>2
    <3>2. CASE i # 1
      <4>1. PICK k \in 1..n : i = k + 1 /\ broadcast'[i] = broadcast[k]
        <5>1. i - 1 \in 1..n /\ i = (i - 1) + 1 /\ broadcast'[i] = broadcast[i - 1]
          BY <3>2, <1>2, <1>3
        <5> QED BY <5>1
      <4>2. original'[broadcast'[i]] = original[broadcast[k]]
        BY <4>1, <1>4, <1>5
      <4>3. /\ Len(original[broadcast[k]]) = n - k
            /\ \A j \in 1..(n - k) : original[broadcast[k]][j] = broadcast[k + j]
        BY <2>1 DEF Stacked
      <4>4. \A j \in 1..(n - k) : broadcast'[i + j] = broadcast[k + j]
        <5> SUFFICES ASSUME NEW j \in 1..(n - k)
                     PROVE  broadcast'[i + j] = broadcast[k + j]
          OBVIOUS
        <5>1. i + j \in 2..(n + 1) /\ (i + j) - 1 = k + j
          BY <4>1, <1>2
        <5> QED BY <5>1, <1>3
      <4>5. (n + 1) - i = n - k
        BY <4>1, <1>2
      <4> QED BY <4>2, <4>3, <4>4, <4>5
    <3> QED BY <3>1, <3>2
  <2>3. ASSUME NEW u \in Session
        PROVE  phase'[u] = "hooked" <=> \E i \in 1..(n + 1) : broadcast'[i] = u
    <3>1. CASE u = s
      BY <3>1, <1>2, <1>3, <1>4
    <3>2. CASE u # s
      <4>1. (\E i \in 1..(n + 1) : broadcast'[i] = u) <=> \E i \in 1..n : broadcast[i] = u
        <5>1. ASSUME NEW i \in 1..(n + 1), broadcast'[i] = u
              PROVE  \E k \in 1..n : broadcast[k] = u
          <6>1. i # 1
            BY <5>1, <3>2, <1>3
          <6>2. i - 1 \in 1..n /\ broadcast[i - 1] = u
            BY <6>1, <5>1, <1>2, <1>3
          <6> QED BY <6>2
        <5>2. ASSUME NEW k \in 1..n, broadcast[k] = u
              PROVE  \E i \in 1..(n + 1) : broadcast'[i] = u
          <6>1. k + 1 \in 1..(n + 1) /\ broadcast'[k + 1] = u
            BY <5>2, <1>2, <1>3
          <6> QED BY <6>1
        <5> QED BY <5>1, <5>2
      <4> QED BY <4>1, <3>2, <2>1, <1>4 DEF InPlace
    <3> QED BY <3>1, <3>2
  <2> QED BY <2>2, <2>3, <1>3 DEF Stacked, InPlace
<1> QED BY <1>7, <1>8, <1>9, <1>10 DEF IInv, ChainsOK

\* A session that ends puts a chain back that was in use before.
LEMMA RestoreKeeps ==
    ASSUME IInv, NEW s \in Session, PutBack(s)
    PROVE  IInv'
<1> DEFINE n == Len(broadcast)
<1>1. /\ phase[s] = "hooked" /\ phase' = [phase EXCEPT ![s] = "ended"]
      /\ broadcast' = original[s] /\ original' = original
      /\ lifo' = (lifo /\ broadcast # <<>> /\ Head(broadcast) = s)
  BY DEF PutBack
<1>2. HookTypes /\ ChainsOK /\ n \in Nat
  BY DEF IInv, HookTypes
<1>3. /\ phase'[s] = "ended" /\ \A u \in Session : u # s => phase'[u] = phase[u]
      /\ phase' \in [Session -> {"new", "replayed", "hooked", "ended"}]
  BY <1>1, <1>2 DEF HookTypes
<1>4. lifo' \in BOOLEAN
  BY <1>1
<1>5. HookTypes'
  BY <1>1, <1>2, <1>3, <1>4 DEF HookTypes
<1>6. ASSUME NEW chain \in Seq(Session), Made(chain)
      PROVE  \A i \in 1..Len(chain) : phase'[chain[i]] \in {"hooked", "ended"}
  <2> SUFFICES ASSUME NEW i \in 1..Len(chain)
               PROVE  phase'[chain[i]] \in {"hooked", "ended"}
    OBVIOUS
  <2>1. chain[i] \in Session
    BY ElementOfSeq
  <2>2. phase[chain[i]] \in {"hooked", "ended"}
    BY <1>6 DEF Made
  <2> QED BY <2>1, <2>2, <1>3
<1>7. ChainsOK'
  <2>1. original[s] \in Seq(Session) /\ \A u \in Session : original[u] \in Seq(Session)
    BY <1>2 DEF HookTypes
  <2>2. Made(broadcast)' /\ NoRepeat(broadcast)'
    BY <1>1, <1>2, <1>6, <2>1 DEF ChainsOK, Made, NoRepeat
  <2>3. \A u \in Session : Made(original[u])' /\ NoRepeat(original[u])'
    BY <1>1, <1>2, <1>6, <2>1 DEF ChainsOK, Made, NoRepeat
  <2> QED BY <2>2, <2>3 DEF ChainsOK
<1>8. ASSUME lifo' PROVE Stacked' /\ InPlace'
  <2>1. Stacked /\ InPlace /\ broadcast # <<>> /\ Head(broadcast) = s
    BY <1>1, <1>8 DEF IInv
  <2>2. n >= 1 /\ broadcast[1] = s
    BY <2>1, <1>2 DEF HookTypes
  <2>3. /\ Len(broadcast') = n - 1
        /\ \A j \in 1..(n - 1) : broadcast'[j] = broadcast[j + 1]
    <3>1. Len(original[s]) = n - 1 /\ \A j \in 1..(n - 1) : original[s][j] = broadcast[1 + j]
      BY <2>1, <2>2, <1>2 DEF Stacked
    <3> QED BY <3>1, <1>1, <1>2
  <2>4. ASSUME NEW i \in 1..(n - 1)
        PROVE  /\ Len(original'[broadcast'[i]]) = (n - 1) - i
               /\ \A j \in 1..((n - 1) - i) : original'[broadcast'[i]][j] = broadcast'[i + j]
    <3>1. PICK k \in 1..n : k = i + 1 /\ broadcast'[i] = broadcast[k]
      BY <2>3, <1>2
    <3>2. /\ Len(original[broadcast[k]]) = n - k
          /\ \A j \in 1..(n - k) : original[broadcast[k]][j] = broadcast[k + j]
      BY <2>1 DEF Stacked
    <3>3. \A j \in 1..(n - k) : broadcast'[i + j] = broadcast[k + j]
      <4> SUFFICES ASSUME NEW j \in 1..(n - k)
                   PROVE  broadcast'[i + j] = broadcast[k + j]
        OBVIOUS
      <4>1. i + j \in 1..(n - 1) /\ (i + j) + 1 = k + j
        BY <3>1, <1>2
      <4> QED BY <4>1, <2>3
    <3>4. (n - 1) - i = n - k
      BY <3>1, <1>2
    <3> QED BY <3>1, <3>2, <3>3, <3>4, <1>1
  <2>5. ASSUME NEW u \in Session
        PROVE  phase'[u] = "hooked" <=> \E i \in 1..(n - 1) : broadcast'[i] = u
    <3>1. CASE u = s
      <4>1. ASSUME NEW i \in 1..(n - 1), broadcast'[i] = s
            PROVE  FALSE
        <5>1. i + 1 \in 1..n /\ broadcast[i + 1] = s /\ 1 \in 1..n /\ i + 1 # 1
          BY <4>1, <2>3, <1>2
        <5> QED BY <5>1, <2>2, <1>2 DEF ChainsOK, NoRepeat
      <4> QED BY <3>1, <4>1, <1>3
    <3>2. CASE u # s
      <4>1. ASSUME NEW i \in 1..(n - 1), broadcast'[i] = u
            PROVE  \E k \in 1..n : broadcast[k] = u
        <5>1. i + 1 \in 1..n /\ broadcast[i + 1] = u
          BY <4>1, <2>3, <1>2
        <5> QED BY <5>1
      <4>2. ASSUME NEW k \in 1..n, broadcast[k] = u
            PROVE  \E i \in 1..(n - 1) : broadcast'[i] = u
        <5>1. k # 1
          BY <4>2, <3>2, <2>2
        <5>2. k - 1 \in 1..(n - 1) /\ (k - 1) + 1 = k
          BY <5>1, <1>2
        <5> QED BY <5>2, <4>2, <2>3
      <4> QED BY <4>1, <4>2, <3>2, <2>1, <1>3 DEF InPlace
    <3> QED BY <3>1, <3>2
  <2> QED BY <2>3, <2>4, <2>5 DEF Stacked, InPlace
<1> QED BY <1>5, <1>7, <1>8 DEF IInv

\* A step of the data path, or a bridge that replays, leaves the hooks alone.
LEMMA OthersKeep ==
    ASSUME IInv, UNCHANGED <<broadcast, original, lifo>>,
           \/ UNCHANGED phase
           \/ \E s \in Session : /\ phase[s] = "new"
                                 /\ phase' = [phase EXCEPT ![s] = "replayed"]
    PROVE  IInv'
<1>1. CASE UNCHANGED phase
  <2>1. HookTypes'
    BY <1>1 DEF IInv, HookTypes
  <2>2. Made(broadcast)' /\ NoRepeat(broadcast)'
    BY <1>1 DEF IInv, ChainsOK, Made, NoRepeat
  <2>3. \A s \in Session : Made(original[s])' /\ NoRepeat(original[s])'
    BY <1>1 DEF IInv, ChainsOK, Made, NoRepeat
  <2>4. lifo' => Stacked'
    BY DEF IInv, Stacked
  <2>5. lifo' => InPlace'
    BY <1>1 DEF IInv, InPlace
  <2> QED BY <2>1, <2>2, <2>3, <2>4, <2>5 DEF IInv, ChainsOK
<1>2. CASE \E s \in Session : /\ phase[s] = "new"
                             /\ phase' = [phase EXCEPT ![s] = "replayed"]
  <2>1. PICK s \in Session : phase[s] = "new" /\ phase' = [phase EXCEPT ![s] = "replayed"]
    BY <1>2
  <2>2. /\ HookTypes' /\ phase'[s] = "replayed"
        /\ \A u \in Session : u # s => phase'[u] = phase[u]
    BY <2>1 DEF IInv, HookTypes
  <2>3. ASSUME NEW chain \in Seq(Session), Made(chain)
        PROVE  \A i \in 1..Len(chain) : phase'[chain[i]] \in {"hooked", "ended"}
    <3> SUFFICES ASSUME NEW i \in 1..Len(chain)
                 PROVE  phase'[chain[i]] \in {"hooked", "ended"}
      OBVIOUS
    <3>1. chain[i] \in Session
      BY ElementOfSeq
    <3>2. phase[chain[i]] \in {"hooked", "ended"}
      BY <2>3 DEF Made
    <3> QED BY <3>1, <3>2, <2>1, <2>2
  <2>4. Made(broadcast)' /\ NoRepeat(broadcast)'
    BY <2>3 DEF IInv, HookTypes, ChainsOK, Made, NoRepeat
  <2>5. \A u \in Session : Made(original[u])' /\ NoRepeat(original[u])'
    BY <2>3 DEF IInv, HookTypes, ChainsOK, Made, NoRepeat
  <2>6. lifo' => Stacked'
    BY DEF IInv, Stacked
  <2>7. lifo' => InPlace'
    BY <2>1, <2>2 DEF IInv, InPlace
  <2> QED BY <2>2, <2>4, <2>5, <2>6, <2>7 DEF IInv, ChainsOK
<1> QED BY <1>1, <1>2

-----------------------------------------------------------------------------
\* The chains stay consistent.
THEOREM InductiveInvariant == Spec => []IInv
<1>1. Init => IInv
  BY DEF Init, IInv, HookTypes, ChainsOK, Made, NoRepeat, Stacked, InPlace
<1>2. IInv /\ [Next]_vars => IInv'
  <2> SUFFICES ASSUME IInv, [Next]_vars PROVE IInv'
    OBVIOUS
  <2>1. ASSUME NEW s \in Session, Install(s) PROVE IInv'
    BY <2>1, InstallKeeps
  <2>2. ASSUME NEW s \in Session, Restore(s) \/ RxFails(s) PROVE IInv'
    BY <2>2, RestoreKeeps DEF Restore, RxFails
  <2>3. ASSUME NEW s \in Session, Replay(s) \/ Forward(s) \/ Leave(s) PROVE IInv'
    BY <2>3, OthersKeep DEF Replay, Forward, Leave
  <2>4. ASSUME NEW p \in Port, Read(p) \/ Down(p) PROVE IInv'
    BY <2>4, OthersKeep DEF Read, Down
  <2>5. CASE Broadcast
    BY <2>5, OthersKeep DEF Broadcast
  <2>6. CASE UNCHANGED vars
    BY <2>6, OthersKeep DEF vars
  <2> QED BY <2>1, <2>2, <2>3, <2>4, <2>5, <2>6 DEF Next
<1> QED BY <1>1, <1>2, PTL DEF Spec

\* However the sessions of the gateways and the write-wait requests start and
\* end, wsm.broadcast never runs the hook of a session twice.
THEOREM ChainIsSimpleHolds == Spec => []ChainIsSimple
<1>1. IInv => ChainIsSimple
  <2> SUFFICES ASSUME IInv PROVE Simple(broadcast)
    BY DEF ChainIsSimple
  <2>1. DOMAIN broadcast = 1..Len(broadcast)
    BY DEF IInv, HookTypes
  <2>2. NoRepeat(broadcast)
    BY DEF IInv, ChainsOK
  <2> QED BY <2>1, <2>2 DEF NoRepeat, Simple
<1> QED BY <1>1, InductiveInvariant, PTL

\* Sessions that are nested leave the hooks of the connected sessions, no more
\* and no fewer: the overlap of sessions is what breaks the monkey patch.
THEOREM NestedIsCleanHolds == Spec => []NestedIsClean
<1>1. IInv => NestedIsClean
  <2> SUFFICES ASSUME IInv, lifo
               PROVE  Members(broadcast) = {s \in Session : phase[s] = "hooked"}
    BY DEF NestedIsClean
  <2>1. DOMAIN broadcast = 1..Len(broadcast) /\ \A i \in 1..Len(broadcast) : broadcast[i] \in Session
    BY ElementOfSeq DEF IInv, HookTypes
  <2>2. \A s \in Session : phase[s] = "hooked" <=> \E i \in 1..Len(broadcast) : broadcast[i] = s
    BY DEF IInv, InPlace
  <2> QED BY <2>1, <2>2 DEF Members
<1> QED BY <1>1, InductiveInvariant, PTL

-----------------------------------------------------------------------------
(* The order of forwarding                                                 *)

Item == [chunk : Chunk, via : Seq(Session)]

\* Every variable has its type in every reachable state.
THEOREM TypeCorrect == Spec => []TypeOK
<1>1. Init => TypeOK
  BY SessionsAssumption, EmptySeq DEF Init, TypeOK, Session
<1>2. TypeOK /\ [Next]_vars => TypeOK'
  <2> SUFFICES ASSUME TypeOK, [Next]_vars PROVE TypeOK'
    OBVIOUS
  <2> USE DEF TypeOK
  <2>1. ASSUME NEW p \in Port, Read(p) PROVE TypeOK'
    <3>1. /\ Append(source, p) \in Seq(Port) /\ Len(source') \in Chunk
          /\ source' = Append(source, p)
      BY <2>1, SessionsAssumption, AppendProperties, LenProperties DEF Read, Chunk
    <3>2. [chunk |-> Len(source'), via |-> broadcast] \in Item
      BY <3>1 DEF Item
    <3>3. pending' \in Seq(Item)
      <4>1. pending \in Seq(Item) /\ pending' = Append(pending, [chunk |-> Len(source'), via |-> broadcast])
        BY <2>1 DEF Read, Item
      <4> QED BY <4>1, <3>2, AppendProperties
    <3> QED BY <2>1, <3>1, <3>3 DEF Read, Item
  <2>2. ASSUME NEW p \in Port, Down(p) PROVE TypeOK'
    BY <2>2 DEF Down
  <2>3. CASE Broadcast
    <3> DEFINE b == Head(pending)
    <3>1. /\ pending \in Seq(Item) /\ pending # <<>> /\ Run(b.via, b.chunk, source[b.chunk])
          /\ pending' = Tail(pending)
          /\ UNCHANGED <<source, up, broadcast, phase, running, original, replay, out, lifo>>
      BY <2>3 DEF Broadcast, Item
    <3>2. b \in Item /\ Tail(pending) \in Seq(Item)
      BY <3>1, HeadTailProperties
    <3>3. b.chunk \in Chunk
      BY <3>2 DEF Item
    <3> HIDE DEF b
    <3>4. \A s \in Session : rx[s] \in Seq(Chunk) /\ Append(rx[s], b.chunk) \in Seq(Chunk)
      BY <3>3, AppendProperties
    <3>5. rx' \in [Session -> Seq(Chunk)]
      BY <3>1, <3>4 DEF Run
    <3>6. buffer' \in [Port -> Seq(Chunk)]
      <4>1. \A p \in Port : Append(buffer[p], b.chunk) \in Seq(Chunk)
        BY <3>3, AppendProperties
      <4> QED BY <3>1, <4>1 DEF Run
    <3> QED BY <3>1, <3>2, <3>5, <3>6 DEF Item
  <2>4. ASSUME NEW s \in Session, Replay(s) PROVE TypeOK'
    <3>1. PortOf[s] \in Port
      BY SessionsAssumption
    <3> QED BY <2>4, <3>1 DEF Replay
  <2>5. ASSUME NEW s \in Session, Install(s) PROVE TypeOK'
    <3>1. <<s>> \o broadcast \in Seq(Session)
      BY InFront
    <3> QED BY <2>5, <3>1 DEF Install
  <2>6. ASSUME NEW s \in Session, Forward(s) PROVE TypeOK'
    <3>1. /\ rx[s] \in Seq(Chunk) /\ rx[s] # <<>> /\ out[s] \in Seq(Chunk)
      BY <2>6 DEF Forward
    <3>2. Tail(rx[s]) \in Seq(Chunk) /\ Append(out[s], Head(rx[s])) \in Seq(Chunk)
      BY <3>1, HeadTailProperties, AppendProperties
    <3> QED BY <2>6, <3>2 DEF Forward
  <2>7. ASSUME NEW s \in Session, Leave(s) PROVE TypeOK'
    BY <2>7 DEF Leave
  <2>8. ASSUME NEW s \in Session, Restore(s) \/ RxFails(s) PROVE TypeOK'
    <3>1. PutBack(s) /\ original[s] \in Seq(Session) /\ lifo' \in BOOLEAN
      BY <2>8 DEF Restore, RxFails, PutBack
    <3> QED BY <3>1 DEF PutBack
  <2>9. CASE UNCHANGED vars
    BY <2>9 DEF vars
  <2> QED BY <2>1, <2>2, <2>3, <2>4, <2>5, <2>6, <2>7, <2>8, <2>9 DEF Next
<1> QED BY <1>1, <1>2, PTL DEF Spec

\* What the hook of s was handed as live data.
Line(s) == out[s] \o rx[s]

\* The scheduled broadcasts are in the order in which the chunks were read, and
\* later than what any session was handed; what it was handed is in that order too.
PendingSorted ==
    /\ \A i \in 1..Len(pending) : pending[i].chunk <= Len(source)
    /\ \A i, j \in 1..Len(pending) : i < j => pending[i].chunk < pending[j].chunk

LinesSorted ==
    \A s \in Session : \A i, j \in 1..Len(Line(s)) : i < j => Line(s)[i] < Line(s)[j]

LinesPast == \A s \in Session : \A i \in 1..Len(Line(s)) : Line(s)[i] <= Len(source)

PendingLater ==
    \A s \in Session : \A i \in 1..Len(Line(s)) : \A j \in 1..Len(pending) :
       Line(s)[i] < pending[j].chunk

Flow == TypeOK /\ PendingSorted /\ LinesSorted /\ LinesPast /\ PendingLater

LEMMA FlowTypes ==
    ASSUME TypeOK
    PROVE  /\ source \in Seq(Port) /\ Len(source) \in Nat
           /\ pending \in Seq(Item) /\ Len(pending) \in Nat
           /\ \A i \in 1..Len(pending) : pending[i].chunk \in Nat
           /\ \A s \in Session : /\ out[s] \in Seq(Chunk) /\ rx[s] \in Seq(Chunk)
                                  /\ Line(s) \in Seq(Chunk) /\ Len(Line(s)) \in Nat
                                  /\ \A i \in 1..Len(Line(s)) : Line(s)[i] \in Nat
<1>1. source \in Seq(Port) /\ pending \in Seq(Item)
  BY DEF TypeOK, Item
<1>2. Len(source) \in Nat /\ Len(pending) \in Nat
  BY <1>1, LenProperties
<1>3. \A i \in 1..Len(pending) : pending[i].chunk \in Nat
  <2>1. \A i \in 1..Len(pending) : pending[i] \in Item
    BY <1>1, ElementOfSeq
  <2> QED BY <2>1 DEF Item, Chunk
<1>4. ASSUME NEW s \in Session
      PROVE  /\ out[s] \in Seq(Chunk) /\ rx[s] \in Seq(Chunk)
             /\ Line(s) \in Seq(Chunk) /\ Len(Line(s)) \in Nat
             /\ \A i \in 1..Len(Line(s)) : Line(s)[i] \in Nat
  <2>1. out[s] \in Seq(Chunk) /\ rx[s] \in Seq(Chunk)
    BY DEF TypeOK
  <2>2. Line(s) \in Seq(Chunk)
    BY <2>1, ConcatProperties DEF Line
  <2>3. \A i \in 1..Len(Line(s)) : Line(s)[i] \in Chunk
    BY <2>2, ElementOfSeq
  <2> QED BY <2>1, <2>2, <2>3, LenProperties DEF Chunk
<1> QED BY <1>1, <1>2, <1>3, <1>4

\* What a session is handed comes at the end of its line.
LEMMA Handed ==
    ASSUME NEW o \in Seq(Chunk), NEW q \in Seq(Chunk), NEW k \in Chunk
    PROVE  o \o Append(q, k) = Append(o \o q, k)
<1>1. Append(q, k) = q \o <<k>> /\ <<k>> \in Seq(Chunk)
  BY AppendIsConcat
<1>2. o \o q \in Seq(Chunk)
  BY ConcatProperties
<1>3. (o \o q) \o <<k>> = Append(o \o q, k)
  BY <1>2, AppendIsConcat
<1>4. (o \o q) \o <<k>> = o \o (q \o <<k>>)
  BY <1>1, ConcatAssociative
<1> QED BY <1>1, <1>3, <1>4

\* Forwarding moves a chunk along the line.
LEMMA Moved ==
    ASSUME NEW o \in Seq(Chunk), NEW q \in Seq(Chunk), q # <<>>
    PROVE  Append(o, Head(q)) \o Tail(q) = o \o q
<1>1. Head(q) \in Chunk /\ Tail(q) \in Seq(Chunk) /\ <<Head(q)>> \in Seq(Chunk)
  BY HeadTailProperties
<1>2. Append(o, Head(q)) = o \o <<Head(q)>>
  BY <1>1, AppendIsConcat
<1>3. <<Head(q)>> \o Tail(q) = q
  OBVIOUS
<1>4. (o \o <<Head(q)>>) \o Tail(q) = o \o (<<Head(q)>> \o Tail(q))
  BY <1>1, ConcatAssociative
<1> QED BY <1>2, <1>3, <1>4

\* A step that hands nobody anything and schedules nothing.
LEMMA LinesStay ==
    ASSUME Flow, TypeOK', pending' = pending, source' = source,
           \A s \in Session : Line(s)' = Line(s)
    PROVE  Flow'
BY DEF Flow, PendingSorted, LinesSorted, LinesPast, PendingLater

\* The broadcast of a chunk hands it to some sessions: it is later than what they
\* have, and earlier than what is scheduled behind it.
LEMMA BroadcastFlows ==
    ASSUME Flow, TypeOK', Broadcast
    PROVE  Flow'
<1> DEFINE k == Head(pending).chunk
<1>1. /\ pending # <<>> /\ pending' = Tail(pending) /\ source' = source /\ out' = out
      /\ rx' = [s \in Session |-> IF s \in Members(Head(pending).via) /\ Takes(s, source[k])
                                   THEN Append(rx[s], k) ELSE rx[s]]
  BY DEF Broadcast, Run
<1>2. /\ TypeOK /\ PendingSorted /\ LinesSorted /\ LinesPast /\ PendingLater
      /\ pending \in Seq(Item) /\ Len(pending) \in Nat /\ Len(source) \in Nat
      /\ \A i \in 1..Len(pending) : pending[i].chunk \in Nat
  BY FlowTypes DEF Flow
<1>3. /\ Head(pending) = pending[1] /\ Len(Tail(pending)) = Len(pending) - 1
      /\ \A i \in 1..Len(pending) - 1 : Tail(pending)[i] = pending[i + 1]
      /\ 1 \in 1..Len(pending) /\ Head(pending) \in Item
  BY <1>1, <1>2, HeadTailProperties
<1>4. k \in Chunk /\ k = pending[1].chunk /\ k \in Nat
  BY <1>3 DEF Item, Chunk
<1> HIDE DEF k
<1>5. \A i \in 1..Len(pending') : /\ i + 1 \in 1..Len(pending) /\ pending'[i] = pending[i + 1]
                                   /\ k < pending'[i].chunk
  <2>1. \A i \in 1..Len(pending') : i + 1 \in 1..Len(pending) /\ pending'[i] = pending[i + 1] /\ 1 < i + 1
    BY <1>1, <1>2, <1>3
  <2> QED BY <2>1, <1>2, <1>3, <1>4 DEF PendingSorted
<1>6. PendingSorted'
  <2>1. \A i \in 1..Len(pending') : pending'[i].chunk <= Len(source')
    BY <1>1, <1>2, <1>5 DEF PendingSorted
  <2>2. ASSUME NEW i \in 1..Len(pending'), NEW j \in 1..Len(pending'), i < j
        PROVE  pending'[i].chunk < pending'[j].chunk
    <3>1. i + 1 < j + 1 /\ i + 1 \in 1..Len(pending) /\ j + 1 \in 1..Len(pending)
      BY <2>2, <1>5, <1>1, <1>3, <1>2
    <3> QED BY <3>1, <1>2, <1>5 DEF PendingSorted
  <2> QED BY <2>1, <2>2 DEF PendingSorted
<1>7. ASSUME NEW s \in Session
      PROVE  \/ Line(s)' = Line(s)
             \/ Line(s)' = Append(Line(s), k)
  <2>1. out[s] \in Seq(Chunk) /\ rx[s] \in Seq(Chunk)
    BY <1>2, FlowTypes
  <2>2. out[s] \o Append(rx[s], k) = Append(Line(s), k)
    BY <2>1, <1>4, Handed DEF Line
  <2>3. rx'[s] = rx[s] \/ rx'[s] = Append(rx[s], k)
    BY <1>1
  <2> QED BY <1>1, <2>2, <2>3 DEF Line
<1>8. ASSUME NEW s \in Session
      PROVE  /\ \A i, j \in 1..Len(Line(s)') : i < j => Line(s)'[i] < Line(s)'[j]
             /\ \A i \in 1..Len(Line(s)') : Line(s)'[i] <= k \/ (i \in 1..Len(Line(s)) /\ Line(s)'[i] = Line(s)[i])
             /\ \A i \in 1..Len(Line(s)') : Line(s)'[i] \in Nat
  <2>1. /\ Line(s) \in Seq(Chunk) /\ Len(Line(s)) \in Nat
        /\ \A i \in 1..Len(Line(s)) : Line(s)[i] \in Nat
    BY <1>2, FlowTypes
  <2>2. /\ \A i, j \in 1..Len(Line(s)) : i < j => Line(s)[i] < Line(s)[j]
        /\ \A i \in 1..Len(Line(s)) : Line(s)[i] < k
    BY <1>2, <1>3, <1>4 DEF LinesSorted, PendingLater
  <2>3. CASE Line(s)' = Line(s)
    BY <2>1, <2>2, <2>3
  <2>4. CASE Line(s)' = Append(Line(s), k)
    <3> DEFINE n == Len(Line(s))  t == Append(Line(s), k)
    <3>1. Len(t) = n + 1 /\ t[n + 1] = k /\ \A i \in 1..n : t[i] = Line(s)[i]
      BY <2>1, <1>4, AppendProperties
    <3>2. n \in Nat /\ Line(s)' = t
      BY <2>1, <2>4
    <3> HIDE DEF n, t
    <3>3. \A i \in 1..n : Line(s)[i] \in Nat /\ Line(s)[i] < k /\ t[i] = Line(s)[i]
      BY <2>1, <2>2, <3>1 DEF n
    <3>4. \A i, j \in 1..n : i < j => t[i] < t[j]
      BY <2>2, <3>3 DEF n
    <3>5. \A i \in 1..n + 1 : i \in 1..n \/ i = n + 1
      BY <3>2
    <3>6. \A i, j \in 1..n + 1 : i < j => t[i] < t[j]
      BY <3>1, <3>2, <3>3, <3>4, <3>5
    <3>7. \A i \in 1..n + 1 : t[i] \in Nat /\ (t[i] <= k \/ (i \in 1..n /\ t[i] = Line(s)[i]))
      BY <3>1, <3>3, <3>5, <1>4
    <3> QED BY <3>1, <3>2, <3>6, <3>7 DEF n
  <2> QED BY <2>3, <2>4, <1>7
<1>9. LinesSorted'
  BY <1>8 DEF LinesSorted
<1>10. LinesPast'
  <2> SUFFICES ASSUME NEW s \in Session, NEW i \in 1..Len(Line(s)') PROVE Line(s)'[i] <= Len(source)
    BY <1>1 DEF LinesPast
  <2>1. k <= Len(source)
    BY <1>2, <1>3, <1>4 DEF PendingSorted
  <2>2. CASE Line(s)'[i] <= k
    BY <2>1, <2>2, <1>8, <1>4, <1>2
  <2>3. CASE i \in 1..Len(Line(s)) /\ Line(s)'[i] = Line(s)[i]
    BY <2>3, <1>2 DEF LinesPast
  <2> QED BY <2>2, <2>3, <1>8
<1>11. PendingLater'
  <2> SUFFICES ASSUME NEW s \in Session, NEW i \in 1..Len(Line(s)'), NEW j \in 1..Len(pending')
               PROVE  Line(s)'[i] < pending'[j].chunk
    BY DEF PendingLater
  <2>1. k < pending'[j].chunk /\ j + 1 \in 1..Len(pending) /\ pending'[j] = pending[j + 1]
    BY <1>5
  <2>2. CASE Line(s)'[i] <= k
    BY <2>1, <2>2, <1>8, <1>4, <1>2
  <2>3. CASE i \in 1..Len(Line(s)) /\ Line(s)'[i] = Line(s)[i]
    BY <2>1, <2>3, <1>2 DEF PendingLater
  <2> QED BY <2>2, <2>3, <1>8
<1> QED BY <1>6, <1>9, <1>10, <1>11 DEF Flow

\* A chunk that is read is later than everything there is.
LEMMA ReadFlows ==
    ASSUME Flow, TypeOK', NEW p \in Port, Read(p)
    PROVE  Flow'
<1> DEFINE b == [chunk |-> Len(source'), via |-> broadcast]
           n == Len(pending)
<1>1. source' = Append(source, p) /\ pending' = Append(pending, b) /\ rx' = rx /\ out' = out
  BY DEF Read
<1>2. /\ source \in Seq(Port) /\ Len(source) \in Nat /\ pending \in Seq(Item) /\ n \in Nat
      /\ \A i \in 1..n : pending[i].chunk \in Nat
      /\ \A s \in Session : /\ Len(Line(s)) \in Nat
                             /\ \A i \in 1..Len(Line(s)) : Line(s)[i] \in Nat
  BY FlowTypes DEF Flow
<1>3. Len(source') = Len(source) + 1
  BY <1>1, <1>2, AppendProperties
<1>4. \A s \in Session : Line(s)' = Line(s)
  BY <1>1 DEF Line
<1>5. Len(pending') = n + 1 /\ pending'[n + 1] = b /\ \A i \in 1..n : pending'[i] = pending[i]
  <2>1. pending' \in Seq(Item) /\ \A i \in 1..Len(pending') : i \in Nat
    BY DEF TypeOK, Item
  <2> QED BY <1>1, <1>2
<1>6. b.chunk = Len(source) + 1
  BY <1>3
<1> HIDE DEF b, n
<1>7. \A i \in 1..n + 1 : i \in 1..n \/ i = n + 1
  BY <1>2
<1>8. PendingSorted'
  <2>1. \A i \in 1..n : pending[i].chunk <= Len(source)
    BY DEF Flow, PendingSorted, n
  <2>2. \A i, j \in 1..n : i < j => pending[i].chunk < pending[j].chunk
    BY DEF Flow, PendingSorted, n
  <2>3. \A i \in 1..n + 1 : pending'[i].chunk <= Len(source')
    BY <2>1, <1>2, <1>3, <1>5, <1>6, <1>7
  <2>4. ASSUME NEW i \in 1..n + 1, NEW j \in 1..n + 1, i < j
        PROVE  pending'[i].chunk < pending'[j].chunk
    <3>1. i \in 1..n /\ pending'[i] = pending[i]
      BY <2>4, <1>2, <1>5
    <3>2. CASE j \in 1..n
      BY <3>1, <3>2, <2>2, <2>4, <1>5
    <3>3. CASE j = n + 1
      <4>1. pending[i].chunk \in Nat /\ pending[i].chunk <= Len(source)
        BY <3>1, <2>1, <1>2 DEF n
      <4>2. pending'[j].chunk = Len(source) + 1
        BY <3>3, <1>5, <1>6
      <4> QED BY <4>1, <4>2, <3>1, <1>2
    <3> QED BY <3>2, <3>3, <1>7
  <2> QED BY <2>3, <2>4, <1>5 DEF PendingSorted
<1>9. LinesSorted'
  BY <1>4 DEF Flow, LinesSorted
<1>10. LinesPast'
  <2>1. \A s \in Session : \A i \in 1..Len(Line(s)) : Line(s)[i] <= Len(source)
    BY DEF Flow, LinesPast
  <2>2. \A s \in Session : \A i \in 1..Len(Line(s)) : Line(s)[i] <= Len(source')
    BY <2>1, <1>2, <1>3
  <2> QED BY <2>2, <1>4 DEF LinesPast
<1>11. PendingLater'
  <2> SUFFICES ASSUME NEW s \in Session, NEW i \in 1..Len(Line(s)), NEW j \in 1..n + 1
               PROVE  Line(s)[i] < pending'[j].chunk
    BY <1>4, <1>5 DEF PendingLater
  <2>1. CASE j \in 1..n
    BY <2>1, <1>5 DEF Flow, PendingLater, n
  <2>2. CASE j = n + 1
    BY <2>2, <1>2, <1>5, <1>6 DEF Flow, LinesPast
  <2> QED BY <2>1, <2>2, <1>7
<1> QED BY <1>8, <1>9, <1>10, <1>11 DEF Flow

\* A bridge forwards what it is handed in the order the chunks were read, none
\* twice, whatever hooks come and go and however its queue overflows.
THEOREM ForwardedInOrderHolds == Spec => []ForwardedInOrder
<1>1. Init => Flow
  <2>1. Init => TypeOK
    BY SessionsAssumption, EmptySeq DEF Init, TypeOK, Session
  <2> SUFFICES ASSUME Init PROVE Flow
    OBVIOUS
  <2>2. Len(pending) = 0 /\ \A s \in Session : out[s] = <<>> /\ rx[s] = <<>>
    BY DEF Init
  <2>3. \A s \in Session : Len(Line(s)) = 0
    <3> SUFFICES ASSUME NEW s \in Session PROVE Len(<<>> \o <<>>) = 0
      BY <2>2 DEF Line
    <3> QED OBVIOUS
  <2>4. 1..0 = {}
    OBVIOUS
  <2> QED BY <2>1, <2>2, <2>3, <2>4 DEF Flow, PendingSorted, LinesSorted, LinesPast, PendingLater
<1>2. Flow /\ TypeOK' /\ [Next]_vars => Flow'
  <2> SUFFICES ASSUME Flow, TypeOK', [Next]_vars PROVE Flow'
    OBVIOUS
  <2>1. ASSUME NEW p \in Port, Read(p) PROVE Flow'
    BY <2>1, ReadFlows
  <2>2. CASE Broadcast
    BY <2>2, BroadcastFlows
  <2>3. ASSUME NEW s \in Session, Forward(s) PROVE Flow'
    <3>1. /\ rx[s] # <<>> /\ pending' = pending /\ source' = source
          /\ out' = [out EXCEPT ![s] = Append(@, Head(rx[s]))]
          /\ rx' = [rx EXCEPT ![s] = Tail(@)]
      BY <2>3 DEF Forward
    <3>2. \A u \in Session : out[u] \in Seq(Chunk) /\ rx[u] \in Seq(Chunk)
      BY FlowTypes DEF Flow
    <3>3. out \in [Session -> Seq(Chunk)] /\ rx \in [Session -> Seq(Chunk)]
      BY DEF Flow, TypeOK
    <3>4. Line(s)' = Line(s)
      <4>1. out'[s] = Append(out[s], Head(rx[s])) /\ rx'[s] = Tail(rx[s])
        BY <3>1, <3>3
      <4> QED BY <4>1, <3>1, <3>2, Moved DEF Line
    <3>5. \A u \in Session \ {s} : Line(u)' = Line(u)
      BY <3>1, <3>3 DEF Line
    <3> QED BY <3>1, <3>4, <3>5, LinesStay
  <2>4. ASSUME NEW s \in Session,
               Replay(s) \/ Install(s) \/ Leave(s) \/ Restore(s) \/ RxFails(s)
        PROVE  Flow'
    <3>1. pending' = pending /\ source' = source /\ out' = out /\ rx' = rx
      BY <2>4 DEF Replay, Install, Leave, Restore, RxFails, PutBack
    <3>2. \A u \in Session : Line(u)' = Line(u)
      BY <3>1 DEF Line
    <3> QED BY <3>1, <3>2, LinesStay
  <2>5. ASSUME (\E p \in Port : Down(p)) \/ UNCHANGED vars PROVE Flow'
    <3>1. pending' = pending /\ source' = source /\ out' = out /\ rx' = rx
      BY <2>5 DEF Down, vars
    <3>2. \A u \in Session : Line(u)' = Line(u)
      BY <3>1 DEF Line
    <3> QED BY <3>1, <3>2, LinesStay
  <2> QED BY <2>1, <2>2, <2>3, <2>4, <2>5 DEF Next
<1>3. Flow => ForwardedInOrder
  <2> SUFFICES ASSUME Flow, NEW s \in Session PROVE Increasing(Line(s))
    BY DEF ForwardedInOrder, Line
  <2>1. Line(s) \in Seq(Chunk)
    BY FlowTypes DEF Flow
  <2>2. DOMAIN Line(s) = 1..Len(Line(s))
    BY <2>1
  <2> QED BY <2>2 DEF Flow, LinesSorted, Increasing
<1> QED BY <1>1, <1>2, <1>3, TypeCorrect, PTL DEF Spec

=============================================================================
