-------------------------- MODULE WritePathProofs --------------------------
(***************************************************************************)
(* For every number of sessions, workers and locks, every queue size and   *)
(* every rate: what the rate limiter lets pass, that a write queue loses   *)
(* no wake-up of those who wait for a place, and that a stopped worker     *)
(* writes at most one more item.                                           *)
(***************************************************************************)
EXTENDS WritePath, FiniteSetTheorems, TLAPS

-----------------------------------------------------------------------------
(* The rate limiter                                                        *)

\* What k writes take, and what time d adds.
Used(k) == Cost * k
Gained(d) == Rate * d

\* What a bucket holds now and what passed since a write add up to no more than a
\* burst and what was refilled since.
Accounted ==
    \A c \in Client :
       /\ bucket[c].last <= now
       /\ \A i \in 1..Len(passed[c]) :
             /\ passed[c][i] <= bucket[c].last
             /\ Used(Len(passed[c]) - i + 1) + bucket[c].tokens
                   <= Full + Gained(bucket[c].last - passed[c][i])

Windows ==
    \A c \in Client : \A i, j \in 1..Len(passed[c]) :
       i <= j => Used(j - i + 1) <= Full + Gained(passed[c][j] - passed[c][i])

LimiterInv == LimiterTypeOK /\ Accounted /\ Windows

LEMMA NaturalRates == Rate \in Nat /\ Cost \in Nat /\ Cost > 0 /\ Full \in Nat
BY RateAssumption DEF Full

LEMMA UsedAmounts ==
    /\ Used(1) = Cost
    /\ \A k \in Int : Used(k) \in Int /\ Used(k + 1) = Used(k) + Cost
BY NaturalRates DEF Used

LEMMA GainedAmounts ==
    /\ Gained(0) = 0
    /\ \A d \in Int : Gained(d) \in Int
    /\ \A d \in Nat : Gained(d) \in Nat
    /\ \A d, e \in Int : Gained(d + e) = Gained(d) + Gained(e)
<1>1. Rate \in Nat
  BY NaturalRates
<1>2. \A r, d, e \in Int : r * (d + e) = r * d + r * e
  OBVIOUS
<1>3. \A r, d \in Nat : r * d \in Nat
  OBVIOUS
<1>4. \A r, d \in Int : r * d \in Int
  OBVIOUS
<1> QED BY <1>1, <1>2, <1>3, <1>4 DEF Gained

LEMMA LimiterInitial == LimiterInit => LimiterInv
BY NaturalRates
DEF LimiterInit, LimiterInv, LimiterTypeOK, Accounted, Windows, Fresh

\* What is available is between nothing and a full bucket.
LEMMA AvailableBounds ==
    ASSUME LimiterInv, NEW c \in Client
    PROVE  /\ Available(c) \in 0..Full
           /\ Available(c) <= bucket[c].tokens + Gained(now - bucket[c].last)
<1>1. /\ bucket[c].tokens \in 0..Full /\ bucket[c].last \in Nat /\ now \in Nat
      /\ bucket[c].last <= now
  BY DEF LimiterInv, LimiterTypeOK, Accounted
<1>2. now - bucket[c].last \in Nat
  BY <1>1
<1>3. Refilled(bucket[c]) = bucket[c].tokens + Gained(now - bucket[c].last)
  BY DEF Refilled, Gained
<1>4. Gained(now - bucket[c].last) \in Nat
  BY <1>2, GainedAmounts
<1> QED BY <1>1, <1>3, <1>4, NaturalRates DEF Available

LEMMA AllowKeeps ==
    ASSUME LimiterInv, NEW c \in Client, Allow(c)
    PROVE  LimiterInv'
<1> DEFINE a == Available(c)
           t == a - IF Allowed(c) THEN Cost ELSE 0
           n == Len(passed[c])
<1>1. /\ bucket \in [Client -> [tokens : 0..Full, last : Nat]]
      /\ passed \in [Client -> Seq(Nat)] /\ now \in Nat /\ now' = now
      /\ passed[c] \in Seq(Nat) /\ n \in Nat
      /\ \A i \in 1..n : passed[c][i] \in Nat
  BY DEF LimiterInv, LimiterTypeOK, Allow
<1>2. a \in 0..Full /\ t \in 0..Full
  BY AvailableBounds, NaturalRates DEF Allowed
<1>3. /\ bucket' = [bucket EXCEPT ![c] = [tokens |-> t, last |-> now]]
      /\ passed' = [passed EXCEPT ![c] = IF Allowed(c) THEN Append(@, now) ELSE @]
  BY DEF Allow
<1>4. /\ bucket'[c].tokens = t /\ bucket'[c].last = now
      /\ \A d \in Client \ {c} : bucket'[d] = bucket[d] /\ passed'[d] = passed[d]
      /\ passed'[c] = IF Allowed(c) THEN Append(passed[c], now) ELSE passed[c]
  BY <1>1, <1>3
<1>5. passed'[c] \in Seq(Nat)
  BY <1>1, <1>4
<1>6. LimiterTypeOK'
  BY <1>1, <1>2, <1>3, <1>5 DEF LimiterTypeOK, Full
<1>7. \A i \in 1..n :
         /\ passed[c][i] <= now
         /\ Used(n - i + 1) + a <= Full + Gained(now - passed[c][i])
  <2> TAKE i \in 1..n
  <2> DEFINE spent == Used(n - i + 1)
             sofar == Gained(bucket[c].last - passed[c][i])
             since == Gained(now - bucket[c].last)
             tokens == bucket[c].tokens
  <2>1. /\ passed[c][i] <= bucket[c].last /\ bucket[c].last <= now
        /\ spent + tokens <= Full + sofar
        /\ tokens \in Int /\ bucket[c].last \in Int /\ passed[c][i] \in Int
    BY <1>1 DEF LimiterInv, Accounted, LimiterTypeOK
  <2>2. a <= tokens + since
    BY AvailableBounds
  <2>3. spent \in Int /\ sofar \in Int /\ since \in Int
    <3>1. /\ n - i + 1 \in Int /\ bucket[c].last - passed[c][i] \in Int
          /\ now - bucket[c].last \in Int
      BY <2>1, <1>1
    <3> QED BY <3>1, UsedAmounts, GainedAmounts
  <2>4. Gained(now - passed[c][i]) = since + sofar
    <3>1. now - passed[c][i] = (now - bucket[c].last) + (bucket[c].last - passed[c][i])
      BY <2>1, <1>1
    <3>2. now - bucket[c].last \in Int /\ bucket[c].last - passed[c][i] \in Int
      BY <2>1, <1>1
    <3>3. Gained((now - bucket[c].last) + (bucket[c].last - passed[c][i])) = since + sofar
      BY <3>2, GainedAmounts
    <3> QED BY <3>1, <3>3
  <2>5. spent + a <= Full + (since + sofar)
    <3> HIDE DEF spent, sofar, since, tokens, a
    <3> QED BY <2>1, <2>2, <2>3, <1>2, NaturalRates
  <2> QED BY <2>1, <2>4, <2>5, <1>1
<1> HIDE DEF a, t, n
<1>8. CASE Allowed(c)
  <2>1. /\ Len(passed'[c]) = n + 1 /\ passed'[c][n + 1] = now
        /\ \A i \in 1..n : passed'[c][i] = passed[c][i]
        /\ \A i \in 1..(n + 1) : passed'[c][i] \in Nat
        /\ t = a - Cost
    BY <1>1, <1>4, <1>8 DEF n, t
  <2>2. \A i \in 1..(n + 1) :
           /\ passed'[c][i] <= now
           /\ Used(n + 1 - i + 1) + t <= Full + Gained(now - passed'[c][i])
    <3> TAKE i \in 1..(n + 1)
    <3>1. CASE i = n + 1
      <4>1. n + 1 - i + 1 = 1 /\ now - passed'[c][i] = 0
        BY <3>1, <2>1, <1>1
      <4> QED BY <4>1, <3>1, <2>1, <1>1, <1>2, NaturalRates, UsedAmounts, GainedAmounts
    <3>2. CASE i \in 1..n
      <4>1. n + 1 - i + 1 = (n - i + 1) + 1 /\ n - i + 1 \in Int
        BY <1>1, <3>2
      <4>2. Used(n + 1 - i + 1) = Used(n - i + 1) + Cost /\ Used(n - i + 1) \in Int
        BY <4>1, UsedAmounts
      <4>3. Used(n + 1 - i + 1) + t = Used(n - i + 1) + a
        BY <4>2, <2>1, <1>2, NaturalRates
      <4> QED BY <4>3, <3>2, <1>7, <2>1
    <3> QED BY <3>1, <3>2, <1>1
  <2>3. Accounted'
    <3>1. Full' = Full
      BY DEF Full
    <3>2. /\ bucket'[c].last <= now'
          /\ \A i \in 1..Len(passed'[c]) :
                /\ passed'[c][i] <= bucket'[c].last
                /\ Used(Len(passed'[c]) - i + 1) + bucket'[c].tokens
                      <= Full' + Gained(bucket'[c].last - passed'[c][i])
      BY <2>1, <2>2, <3>1, <1>4, <1>1
    <3> QED BY <3>1, <3>2, <1>4, <1>1 DEF LimiterInv, Accounted, Used, Gained
  <2>4. \A i, j \in 1..(n + 1) :
           i <= j => Used(j - i + 1) <= Full + Gained(passed'[c][j] - passed'[c][i])
    <3> SUFFICES ASSUME NEW i \in 1..(n + 1), NEW j \in 1..(n + 1), i <= j
                 PROVE  Used(j - i + 1) <= Full + Gained(passed'[c][j] - passed'[c][i])
      OBVIOUS
    <3>1. CASE j = n + 1
      <4>1. Used(j - i + 1) + t <= Full + Gained(passed'[c][j] - passed'[c][i])
        <5>1. Used(n + 1 - i + 1) + t <= Full + Gained(now - passed'[c][i])
          BY <2>2
        <5>2. passed'[c][j] = now
          BY <2>1, <3>1
        <5>3. j - i + 1 = n + 1 - i + 1
          BY <3>1, <1>1
        <5>4. Used(j - i + 1) = Used(n + 1 - i + 1)
          BY <5>3
        <5> QED BY <5>1, <5>2, <5>4
      <4>2. Used(j - i + 1) \in Int /\ Gained(passed'[c][j] - passed'[c][i]) \in Int
        <5>1. j - i + 1 \in Int /\ passed'[c][j] - passed'[c][i] \in Int
          BY <2>1, <1>1
        <5> QED BY <5>1, UsedAmounts, GainedAmounts
      <4> QED BY <4>1, <4>2, <1>2, NaturalRates
    <3>2. CASE j \in 1..n
      <4>1. i \in 1..n
        BY <3>2, <1>1
      <4> QED BY <4>1, <3>2, <2>1 DEF LimiterInv, Windows, n
    <3> QED BY <3>1, <3>2, <1>1
  <2>5. Windows'
    BY <2>1, <2>4, <1>1, <1>4 DEF LimiterInv, Windows, Full, Used, Gained
  <2> QED BY <1>6, <2>3, <2>5 DEF LimiterInv
<1>9. CASE ~Allowed(c)
  <2>1. passed' = passed /\ t = a
    BY <1>1, <1>3, <1>2, <1>9 DEF t
  <2>2. Accounted'
    <3>1. Full' = Full
      BY DEF Full
    <3>2. /\ bucket'[c].last <= now'
          /\ \A i \in 1..Len(passed'[c]) :
                /\ passed'[c][i] <= bucket'[c].last
                /\ Used(Len(passed'[c]) - i + 1) + bucket'[c].tokens
                      <= Full' + Gained(bucket'[c].last - passed'[c][i])
      BY <2>1, <1>7, <3>1, <1>4, <1>1 DEF n
    <3> QED BY <3>1, <3>2, <1>4, <1>1 DEF LimiterInv, Accounted, Used, Gained
  <2>3. Windows'
    BY <2>1 DEF LimiterInv, Windows, Full, Used, Gained
  <2> QED BY <1>6, <2>2, <2>3 DEF LimiterInv
<1> QED BY <1>8, <1>9

LEMMA RemoveKeeps ==
    ASSUME LimiterInv, NEW c \in Client, Remove(c)
    PROVE  LimiterInv'
<1>1. /\ bucket' = [bucket EXCEPT ![c] = Fresh] /\ passed' = [passed EXCEPT ![c] = <<>>]
      /\ now' = now /\ now \in Nat
      /\ Fresh \in [tokens : 0..Full, last : Nat] /\ Fresh.last = 0
  BY NaturalRates DEF Remove, LimiterInv, LimiterTypeOK, Fresh
<1>2. LimiterTypeOK'
  BY <1>1 DEF LimiterInv, LimiterTypeOK, Full, Used, Gained
<1>3. /\ bucket'[c].last = 0 /\ passed'[c] = <<>>
      /\ \A d \in Client \ {c} : bucket'[d] = bucket[d] /\ passed'[d] = passed[d]
  BY <1>1 DEF LimiterInv, LimiterTypeOK
<1>4. Accounted' /\ Windows'
  BY <1>1, <1>3 DEF LimiterInv, Accounted, Windows, Full, Used, Gained
<1> QED BY <1>2, <1>4 DEF LimiterInv

LEMMA TickKeeps ==
    ASSUME LimiterInv, Tick
    PROVE  LimiterInv'
<1>1. now' = now + 1 /\ now \in Nat /\ bucket' = bucket /\ passed' = passed
  BY DEF Tick, LimiterInv, LimiterTypeOK
<1>2. LimiterTypeOK' /\ Windows'
  BY <1>1 DEF LimiterInv, LimiterTypeOK, Windows, Full, Used, Gained
<1>3. \A c \in Client : bucket[c].last <= now /\ bucket[c].last \in Nat
  BY DEF LimiterInv, LimiterTypeOK, Accounted
<1>4. \A c \in Client : bucket[c].last <= now + 1
  BY <1>1, <1>3
<1>5. Accounted'
  BY <1>1, <1>4 DEF LimiterInv, Accounted, Full, Used, Gained
<1> QED BY <1>2, <1>5 DEF LimiterInv

LEMMA LimiterStays ==
    ASSUME LimiterInv, UNCHANGED limiterVars
    PROVE  LimiterInv'
BY DEF LimiterInv, LimiterTypeOK, Accounted, Windows, limiterVars, Full, Used, Gained
\* The bound on what passes in a window.
LEMMA WindowsBound == LimiterInv => WindowBound
BY DEF LimiterInv, Windows, WindowBound, Used, Gained

-----------------------------------------------------------------------------
(* The write queues                                                        *)

\* Only the registered worker runs, and a worker that runs has a write loop.
OneRuns ==
    \A i \in Worker : worker[i].running => i = cur /\ worker[i].loop \in {"get", "drain"}

Bounded == \A i \in Worker : Len(worker[i].queue) <= QueueSize

\* Who is in line for a worker's queue waits for just that, and is there once.
InLine ==
    \A i \in Worker :
       /\ \A k \in 1..Len(worker[i].putters) :
             sess[worker[i].putters[k]].pc = "put" /\ sess[worker[i].putters[k]].wk = i
       /\ \A k, l \in 1..Len(worker[i].putters) :
             worker[i].putters[k] = worker[i].putters[l] => k = l

\* Every free place is promised to a put that was woken.
Promised ==
    \A i \in Worker :
       /\ IsFiniteSet(WokenFor(i))
       /\ worker[i].putters # <<>> =>
             Len(worker[i].queue) + Cardinality(WokenFor(i)) >= QueueSize

\* A session that is busy has a worker.
Engaged ==
    \A s \in Session : sess[s].pc \in {"body", "bridged", "put", "woken"} => sess[s].wk # 0

\* The item that is written after a stop is the last one.
LastItem ==
    \A i \in Worker :
       /\ worker[i].late <= 1
       /\ worker[i].running \/ worker[i].loop = "get" => worker[i].late = 0

WorkerRec == [running : BOOLEAN, loop : {"none", "get", "drain", "done"},
              queue : Seq(Session), putters : Seq(Session), late : Nat]
SessRec == [pc : Pc, via : Via, wk : 0..MaxWorkers]

PortTypes ==
    /\ holder \in User \cup {NoUser} /\ locks \in Nat
    /\ cur \in 0..MaxWorkers /\ made \in 0..MaxWorkers
    /\ worker \in [Worker -> WorkerRec] /\ sess \in [Session -> SessRec]

QueueInv == OneRuns /\ Bounded /\ InLine /\ Promised /\ Engaged /\ LastItem

\* The inductive invariant.
IInv == LimiterInv /\ PortTypes /\ QueueInv

LEMMA Sizes == QueueSize \in Nat /\ QueueSize > 0 /\ MaxWorkers \in Nat
BY WritersAssumption

LEMMA Initial == Init => IInv
<1> SUFFICES ASSUME Init PROVE IInv
  OBVIOUS
<1>1. LimiterInv
  BY LimiterInitial DEF Init
<1>2. PortTypes
  BY Sizes DEF Init, PortTypes, WorkerRec, SessRec, Unborn, Idle, Pc, Via
<1>3. OneRuns /\ Bounded /\ InLine /\ Engaged /\ LastItem
  BY Sizes DEF Init, OneRuns, Bounded, InLine, Engaged, LastItem, Unborn, Idle
<1>4. Promised
  <2>1. \A i \in Worker : WokenFor(i) = {} /\ worker[i].putters = <<>>
    BY DEF Init, WokenFor, Idle, Unborn
  <2> QED BY <2>1, FS_EmptySet DEF Promised
<1> QED BY <1>1, <1>2, <1>3, <1>4 DEF IInv, QueueInv

\* A session that neither waits nor was woken moves on to a state like that.
LEMMA SessionKeeps ==
    ASSUME PortTypes, QueueInv, NEW s \in Session, NEW r \in SessRec,
           sess' = [sess EXCEPT ![s] = r],
           sess[s].pc \notin {"put", "woken"}, r.pc \notin {"put", "woken"},
           r.pc \in {"body", "bridged"} => r.wk # 0,
           worker' = worker, UNCHANGED portVars
    PROVE  PortTypes' /\ QueueInv'
<1>1. /\ sess'[s] = r
      /\ \A u \in Session : u # s => sess'[u] = sess[u]
  BY DEF PortTypes
<1>2. PortTypes'
  BY DEF PortTypes, portVars
<1>3. \A i \in Worker : WokenFor(i)' = WokenFor(i)
  BY <1>1 DEF WokenFor
<1>4. OneRuns' /\ Bounded' /\ LastItem' /\ Promised'
  BY <1>3 DEF QueueInv, OneRuns, Bounded, LastItem, Promised, portVars
<1>5. InLine'
  <2>1. \A i \in Worker : \A k \in 1..Len(worker[i].putters) :
           worker[i].putters[k] \in Session /\ worker[i].putters[k] # s
    BY DEF QueueInv, InLine, PortTypes, WorkerRec
  <2> QED BY <2>1, <1>1 DEF QueueInv, InLine
<1>6. Engaged'
  BY <1>1 DEF QueueInv, Engaged
<1> QED BY <1>2, <1>4, <1>5, <1>6 DEF QueueInv

\* A worker that keeps its queue and its line stops running, or its loop moves on.
LEMMA WorkerKeeps ==
    ASSUME PortTypes, QueueInv, NEW i \in Worker, NEW w \in WorkerRec,
           worker' = [worker EXCEPT ![i] = w],
           w.queue = worker[i].queue, w.putters = worker[i].putters, w.late = worker[i].late,
           w.running => worker[i].running /\ w.loop \in {"get", "drain"},
           w.loop = "get" => worker[i].running \/ worker[i].loop = "get",
           cur' = cur \/ (cur' = 0 /\ cur = i /\ ~w.running),
           sess' = sess, UNCHANGED <<holder, locks, made>>
    PROVE  PortTypes' /\ QueueInv'
<1>1. /\ worker'[i] = w
      /\ \A j \in Worker : j # i => worker'[j] = worker[j]
  BY DEF PortTypes
<1>2. PortTypes'
  BY Sizes DEF PortTypes
<1>3. \A j \in Worker : WokenFor(j)' = WokenFor(j)
  BY DEF WokenFor
<1>4. Bounded' /\ InLine' /\ Promised' /\ Engaged'
  BY <1>1, <1>3 DEF QueueInv, Bounded, InLine, Promised, Engaged
<1>5. OneRuns'
  BY <1>1 DEF QueueInv, OneRuns
<1>6. LastItem'
  BY <1>1 DEF QueueInv, LastItem
<1> QED BY <1>2, <1>4, <1>5, <1>6 DEF QueueInv

\* A put that finds room, and one that gets in line (again).
LEMMA PutKeeps ==
    ASSUME PortTypes, QueueInv, NEW s \in Session, NEW r \in SessRec, Put(s, r),
           r.wk # 0, sess[s].pc # "put", sess[s].pc = "woken" => sess[s].wk = r.wk,
           UNCHANGED portVars
    PROVE  PortTypes' /\ QueueInv'
<1> DEFINE j == r.wk
           q == worker[j].queue
           line == worker[j].putters
<1>1. /\ j \in Worker /\ q \in Seq(Session) /\ line \in Seq(Session) /\ Len(q) \in Nat
      /\ worker[j] \in WorkerRec
  BY Sizes DEF PortTypes, SessRec, Worker, WorkerRec
<1>2. /\ IsFiniteSet(WokenFor(j)) /\ Cardinality(WokenFor(j)) \in Nat
      /\ \A i \in Worker : IsFiniteSet(WokenFor(i))
  BY <1>1, FS_CardinalityType DEF QueueInv, Promised
<1>3. \A i \in Worker : \A k \in 1..Len(worker[i].putters) :
         worker[i].putters[k] \in Session /\ worker[i].putters[k] # s
  BY DEF QueueInv, InLine, PortTypes, WorkerRec
<1>4. ASSUME NEW x \in SessRec, sess' = [sess EXCEPT ![s] = x], x.pc # "woken", x.wk \in {0, j}
      PROVE  /\ \A i \in Worker \ {j} : WokenFor(i)' = WokenFor(i)
             /\ WokenFor(j)' = WokenFor(j) \ {s}
             /\ \A u \in Session : u # s => sess'[u] = sess[u]
             /\ sess'[s] = x
  <2>1. sess'[s] = x /\ \A u \in Session : u # s => sess'[u] = sess[u]
    BY <1>4 DEF PortTypes
  <2>2. \A i \in Worker \ {j} : s \notin WokenFor(i)
    BY DEF WokenFor
  <2> QED BY <2>1, <2>2, <1>4 DEF WokenFor
<1>5. IsFiniteSet(WokenFor(j) \ {s}) /\ Cardinality(WokenFor(j) \ {s}) >= Cardinality(WokenFor(j)) - 1
  <2>1. /\ IsFiniteSet(WokenFor(j) \ {s})
        /\ Cardinality(WokenFor(j) \ {s}) =
              IF s \in WokenFor(j) THEN Cardinality(WokenFor(j)) - 1 ELSE Cardinality(WokenFor(j))
    BY <1>2, FS_RemoveElement, Zenon
  <2> QED BY <2>1, <1>2
<1>0. j = r.wk /\ worker[j].queue = q /\ worker[j].putters = line
  OBVIOUS
<1> HIDE DEF j, q, line
<1>6. CASE Room(j)
  <2> DEFINE x == Done(r)
  <2>1. /\ x \in SessRec /\ x.pc \notin {"put", "woken"} /\ x.wk \in {0, j}
        /\ x.pc \in {"body", "bridged"} => x.wk # 0
    BY Sizes, <1>1, <1>0 DEF Done, SessRec, Idle, Pc, Via
  <2>2. /\ worker' = [worker EXCEPT ![j].queue = Append(q, s)]
        /\ sess' = [sess EXCEPT ![s] = x]
    BY <1>6, <1>0 DEF Put
  <2> HIDE DEF x
  <2> DEFINE w == [worker[j] EXCEPT !.queue = Append(q, s)]
  <2>a. /\ w \in WorkerRec /\ w.queue = Append(q, s) /\ w.putters = worker[j].putters
        /\ w.running = worker[j].running /\ w.loop = worker[j].loop /\ w.late = worker[j].late
    <3>1. Append(q, s) \in Seq(Session)
      BY <1>1
    <3> QED BY <3>1, <1>1 DEF WorkerRec
  <2>b. worker' = [worker EXCEPT ![j] = w]
    BY <2>2
  <2> HIDE DEF w
  <2>3. /\ worker'[j] = w
        /\ \A i \in Worker : i # j => worker'[i] = worker[i]
        /\ worker' \in [Worker -> WorkerRec]
    BY <2>a, <2>b, <1>1 DEF PortTypes
  <2>4. /\ worker'[j].queue = Append(q, s) /\ Len(worker'[j].queue) = Len(q) + 1
        /\ \A i \in Worker : /\ worker'[i].putters = worker[i].putters
                             /\ worker'[i].running = worker[i].running
                             /\ worker'[i].loop = worker[i].loop
                             /\ worker'[i].late = worker[i].late
    BY <2>3, <2>a, <1>1
  <2>5. PortTypes'
    BY <2>1, <2>2, <2>3 DEF PortTypes, portVars
  <2>6. OneRuns' /\ LastItem'
    BY <2>4 DEF QueueInv, OneRuns, LastItem, portVars
  <2>7. Bounded'
    BY <2>3, <2>4, <1>6, <1>1, <1>0, Sizes DEF QueueInv, Bounded, Room
  <2>8. InLine'
    BY <2>4, <1>3, <1>4, <2>1, <2>2, <1>0 DEF QueueInv, InLine
  <2>9. Promised'
    <3>1. /\ \A i \in Worker \ {j} : WokenFor(i)' = WokenFor(i)
          /\ WokenFor(j)' = WokenFor(j) \ {s}
      BY <1>4, <2>1, <2>2
    <3>2. line # <<>> => Len(q) + 1 + Cardinality(WokenFor(j) \ {s}) >= QueueSize
      <4>1. line # <<>> => Len(q) + Cardinality(WokenFor(j)) >= QueueSize
        BY <1>1, <1>0 DEF QueueInv, Promised
      <4>2. Cardinality(WokenFor(j) \ {s}) \in Nat
        BY <1>5, FS_CardinalityType
      <4> QED BY <4>1, <4>2, <1>1, <1>2, <1>5, Sizes
    <3> QED BY <3>1, <3>2, <2>3, <2>4, <1>2, <1>5, <1>0 DEF QueueInv, Promised
  <2>10. Engaged'
    BY <2>1, <2>2, <1>4 DEF QueueInv, Engaged
  <2> QED BY <2>5, <2>6, <2>7, <2>8, <2>9, <2>10 DEF QueueInv
<1>7. CASE ~Room(j)
  <2> DEFINE x == [r EXCEPT !.pc = "put"]
  <2>1. x \in SessRec /\ x.pc = "put" /\ x.wk = j
    BY <1>0 DEF SessRec, Pc
  <2>2. /\ worker' = [worker EXCEPT ![j].putters = Append(line, s)]
        /\ sess' = [sess EXCEPT ![s] = x]
    BY <1>7, <1>0 DEF Put
  <2> HIDE DEF x
  <2> DEFINE w == [worker[j] EXCEPT !.putters = Append(line, s)]
  <2>a. /\ w \in WorkerRec /\ w.putters = Append(line, s) /\ w.queue = worker[j].queue
        /\ w.running = worker[j].running /\ w.loop = worker[j].loop /\ w.late = worker[j].late
    <3>1. Append(line, s) \in Seq(Session)
      BY <1>1
    <3> QED BY <3>1, <1>1 DEF WorkerRec
  <2>b. worker' = [worker EXCEPT ![j] = w]
    BY <2>2
  <2> HIDE DEF w
  <2>3. /\ worker'[j] = w
        /\ \A i \in Worker : i # j => worker'[i] = worker[i]
        /\ worker' \in [Worker -> WorkerRec]
    BY <2>a, <2>b, <1>1 DEF PortTypes
  <2>4. /\ worker'[j].putters = Append(line, s)
        /\ \A i \in Worker : /\ worker'[i].queue = worker[i].queue
                             /\ worker'[i].running = worker[i].running
                             /\ worker'[i].loop = worker[i].loop
                             /\ worker'[i].late = worker[i].late
    BY <2>3, <2>a, <1>1
  <2>5. PortTypes'
    BY <2>1, <2>2, <2>3 DEF PortTypes, portVars
  <2>6. OneRuns' /\ LastItem' /\ Bounded'
    BY <2>4 DEF QueueInv, OneRuns, LastItem, Bounded, portVars
  <2>7. InLine'
    <3>1. /\ sess'[s].pc = "put" /\ sess'[s].wk = j
          /\ \A u \in Session : u # s => sess'[u] = sess[u]
      BY <2>1, <2>2, <1>4
    <3>2. /\ Len(Append(line, s)) = Len(line) + 1 /\ Len(line) \in Nat
          /\ Append(line, s)[Len(line) + 1] = s
          /\ \A k \in 1..Len(line) : Append(line, s)[k] = line[k]
      BY <1>1
    <3>3. \A k \in 1..Len(Append(line, s)) :
             sess'[Append(line, s)[k]].pc = "put" /\ sess'[Append(line, s)[k]].wk = j
      <4>1. \A k \in 1..Len(line) : /\ line[k] \in Session /\ line[k] # s
                                      /\ sess[line[k]].pc = "put" /\ sess[line[k]].wk = j
        BY <1>1, <1>0, <1>3 DEF QueueInv, InLine
      <4> QED BY <4>1, <3>1, <3>2
    <3>4. \A k, l \in 1..Len(Append(line, s)) :
             Append(line, s)[k] = Append(line, s)[l] => k = l
      <4>1. /\ \A k \in 1..Len(line) : line[k] # s
            /\ \A k, l \in 1..Len(line) : line[k] = line[l] => k = l
        BY <1>1, <1>0, <1>3 DEF QueueInv, InLine
      <4> QED BY <4>1, <3>2
    <3>5. ASSUME NEW i \in Worker, i # j
          PROVE  /\ \A k \in 1..Len(worker[i].putters) :
                       sess'[worker[i].putters[k]].pc = "put" /\ sess'[worker[i].putters[k]].wk = i
                 /\ \A k, l \in 1..Len(worker[i].putters) :
                       worker[i].putters[k] = worker[i].putters[l] => k = l
      BY <3>1, <1>3 DEF QueueInv, InLine
    <3>6. \A i \in Worker : worker'[i].putters = IF i = j THEN Append(line, s) ELSE worker[i].putters
      BY <2>3, <2>4
    <3> HIDE DEF x
    <3> SUFFICES ASSUME NEW i \in Worker
                 PROVE  /\ \A k \in 1..Len(worker'[i].putters) :
                              /\ sess'[worker'[i].putters[k]].pc = "put"
                              /\ sess'[worker'[i].putters[k]].wk = i
                        /\ \A k, l \in 1..Len(worker'[i].putters) :
                              worker'[i].putters[k] = worker'[i].putters[l] => k = l
      BY DEF InLine
    <3>7. CASE i = j
      <4>1. worker'[i].putters = Append(line, s)
        BY <3>7, <3>6
      <4>2. \A k \in 1..Len(Append(line, s)) :
               sess'[Append(line, s)[k]].pc = "put" /\ sess'[Append(line, s)[k]].wk = i
        BY <3>7, <3>3
      <4> QED BY <4>1, <4>2, <3>4, Zenon
    <3>8. CASE i # j
      <4>1. worker'[i].putters = worker[i].putters
        BY <3>8, <3>6
      <4>2. /\ \A k \in 1..Len(worker[i].putters) :
                  sess'[worker[i].putters[k]].pc = "put" /\ sess'[worker[i].putters[k]].wk = i
            /\ \A k, l \in 1..Len(worker[i].putters) :
                  worker[i].putters[k] = worker[i].putters[l] => k = l
        BY <3>8, <3>5
      <4> QED BY <4>1, <4>2, Zenon
    <3> QED BY <3>7, <3>8
  <2>8. Promised'
    <3>1. /\ \A i \in Worker \ {j} : WokenFor(i)' = WokenFor(i)
          /\ WokenFor(j)' = WokenFor(j) \ {s}
      BY <1>4, <2>1, <2>2
    <3>2. Len(q) + Cardinality(WokenFor(j) \ {s}) >= QueueSize
      BY <1>5, <1>7, <1>1, <1>0, Sizes, FS_CardinalityType DEF Room
    <3> QED BY <3>1, <3>2, <2>3, <2>4, <1>2, <1>5, <1>0 DEF QueueInv, Promised
  <2>9. Engaged'
    BY <2>1, <2>2, <1>4, <1>1 DEF QueueInv, Engaged, Worker
  <2> QED BY <2>5, <2>6, <2>7, <2>8, <2>9 DEF QueueInv
<1> QED BY <1>6, <1>7

\* The write loop takes an item, and the first in line is woken.
LEMMA GetKeeps ==
    ASSUME PortTypes, QueueInv, NEW i \in Worker, Get(i)
    PROVE  PortTypes' /\ QueueInv'
<1> DEFINE q == worker[i].queue
           line == worker[i].putters
           w == [worker[i] EXCEPT !.loop = "drain", !.queue = Tail(q), !.putters = Rest1(line),
                                  !.late = IF worker[i].running THEN worker[i].late
                                              ELSE worker[i].late + 1]
<1>1. /\ worker[i] \in WorkerRec /\ worker[i].loop = "get" /\ q # <<>>
      /\ q \in Seq(Session) /\ line \in Seq(Session) /\ Len(q) \in Nat /\ worker[i].late = 0
      /\ worker[i].late \in Nat
  BY DEF Get, PortTypes, WorkerRec, QueueInv, LastItem
<1>2. /\ Tail(q) \in Seq(Session) /\ Len(Tail(q)) = Len(q) - 1
      /\ Rest1(line) \in Seq(Session)
      /\ \A k \in 1..Len(Rest1(line)) : k + 1 \in 1..Len(line) /\ Rest1(line)[k] = line[k + 1]
  BY <1>1 DEF Rest1
<1>3. /\ w \in WorkerRec /\ w.running = worker[i].running /\ w.loop = "drain" /\ w.queue = Tail(q)
      /\ w.putters = Rest1(line) /\ w.late = IF worker[i].running THEN 0 ELSE 1
  <2>1. (IF worker[i].running THEN worker[i].late ELSE worker[i].late + 1) \in Nat
    BY <1>1
  <2>2. /\ w.running = worker[i].running /\ w.loop = "drain" /\ w.queue = Tail(q)
        /\ w.putters = Rest1(line)
        /\ w.late = IF worker[i].running THEN worker[i].late ELSE worker[i].late + 1
    BY <1>1 DEF WorkerRec
  <2>3. w \in WorkerRec
    BY <1>1, <1>2, <2>1 DEF WorkerRec
  <2> QED BY <1>1, <2>2, <2>3
<1>4. /\ worker' = [worker EXCEPT ![i] = w] /\ sess' = Woken(line)
      /\ UNCHANGED portVars
  BY DEF Get
<1> HIDE DEF w
<1>5. /\ worker'[i] = w
      /\ \A j \in Worker : j # i => worker'[j] = worker[j]
      /\ worker' \in [Worker -> WorkerRec]
  BY <1>3, <1>4 DEF PortTypes
<1>6. \A k \in 1..Len(line) : /\ line[k] \in Session
                              /\ sess[line[k]].pc = "put" /\ sess[line[k]].wk = i
                              /\ k # 1 => line[k] # line[1]
  BY <1>1 DEF QueueInv, InLine
<1>7. /\ sess' \in [Session -> SessRec]
      /\ \A s \in Session : /\ sess'[s].wk = sess[s].wk
                            /\ ~(line # <<>> /\ s = line[1]) => sess'[s] = sess[s]
                            /\ line # <<>> /\ s = line[1] => sess'[s].pc = "woken"
  <2>1. \A s \in Session : sess[s] \in SessRec
    BY DEF PortTypes
  <2>2. \A x \in SessRec : /\ [x EXCEPT !.pc = "woken"] \in SessRec
                           /\ [x EXCEPT !.pc = "woken"].pc = "woken"
                           /\ [x EXCEPT !.pc = "woken"].wk = x.wk
    BY DEF SessRec, Pc
  <2> QED BY <2>1, <2>2, <1>1, <1>4 DEF Woken
<1>8. PortTypes'
  BY <1>4, <1>5, <1>7 DEF PortTypes, portVars
<1>9. OneRuns' /\ LastItem'
  BY <1>3, <1>4, <1>5 DEF QueueInv, OneRuns, LastItem, portVars
<1>10. Bounded'
  <2>1. Len(q) <= QueueSize /\ \A j \in Worker : Len(worker[j].queue) <= QueueSize
    BY DEF QueueInv, Bounded
  <2>2. Len(w.queue) <= QueueSize
    BY <2>1, <1>1, <1>2, <1>3, Sizes
  <2> QED BY <2>1, <2>2, <1>5 DEF Bounded
<1>11. InLine'
  <2> SUFFICES ASSUME NEW j \in Worker
               PROVE  /\ \A k \in 1..Len(worker'[j].putters) :
                            /\ sess'[worker'[j].putters[k]].pc = "put"
                            /\ sess'[worker'[j].putters[k]].wk = j
                      /\ \A k, l \in 1..Len(worker'[j].putters) :
                            worker'[j].putters[k] = worker'[j].putters[l] => k = l
    BY DEF InLine
  <2>1. CASE j = i
    <3>1. worker'[j].putters = Rest1(line)
      BY <2>1, <1>5, <1>3
    <3>2. \A k \in 1..Len(Rest1(line)) :
             sess'[Rest1(line)[k]].pc = "put" /\ sess'[Rest1(line)[k]].wk = j
      <4> TAKE k \in 1..Len(Rest1(line))
      <4>1. /\ k + 1 \in 1..Len(line) /\ Rest1(line)[k] = line[k + 1] /\ k + 1 # 1
        BY <1>2
      <4>2. line[k + 1] \in Session /\ line[k + 1] # line[1]
        BY <4>1, <1>6
      <4> QED BY <4>1, <4>2, <1>6, <1>7, <2>1
    <3>3. \A k, l \in 1..Len(Rest1(line)) : Rest1(line)[k] = Rest1(line)[l] => k = l
      <4>1. \A k, l \in 1..Len(line) : line[k] = line[l] => k = l
        BY DEF QueueInv, InLine
      <4> TAKE k, l \in 1..Len(Rest1(line))
      <4> HAVE Rest1(line)[k] = Rest1(line)[l]
      <4>2. /\ k + 1 \in 1..Len(line) /\ Rest1(line)[k] = line[k + 1]
            /\ l + 1 \in 1..Len(line) /\ Rest1(line)[l] = line[l + 1]
        BY <1>2
      <4>3. k + 1 = l + 1
        BY <4>1, <4>2
      <4> QED BY <4>3
    <3> QED BY <3>1, <3>2, <3>3, <2>1, Zenon
  <2>2. CASE j # i
    <3>1. worker'[j].putters = worker[j].putters
      BY <2>2, <1>5
    <3>2. /\ \A k \in 1..Len(worker[j].putters) :
                /\ worker[j].putters[k] \in Session
                /\ sess[worker[j].putters[k]].pc = "put" /\ sess[worker[j].putters[k]].wk = j
          /\ \A k, l \in 1..Len(worker[j].putters) :
                worker[j].putters[k] = worker[j].putters[l] => k = l
      BY DEF QueueInv, InLine, PortTypes, WorkerRec
    <3>3. \A s \in Session : sess[s].wk = j => sess'[s] = sess[s]
      BY <2>2, <1>6, <1>7, <1>1
    <3>4. \A k \in 1..Len(worker[j].putters) :
             sess'[worker[j].putters[k]].pc = "put" /\ sess'[worker[j].putters[k]].wk = j
      BY <3>2, <3>3
    <3> QED BY <3>1, <3>2, <3>4, Zenon
  <2> QED BY <2>1, <2>2
<1>12. Promised'
  <2>1. IsFiniteSet(WokenFor(i)) /\ Cardinality(WokenFor(i)) \in Nat
    BY FS_CardinalityType DEF QueueInv, Promised
  <2>2. CASE line = <<>>
    <3>1. \A j \in Worker : WokenFor(j)' = WokenFor(j)
      BY <2>2, <1>7 DEF WokenFor
    <3>2. w.putters = <<>>
      BY <2>2, <1>3 DEF Rest1
    <3> QED BY <3>1, <3>2, <1>5 DEF QueueInv, Promised
  <2>3. CASE line # <<>>
    <3>1. /\ 1 \in 1..Len(line) /\ line[1] \in Session /\ line[1] \notin WokenFor(i)
      BY <2>3, <1>1, <1>6 DEF WokenFor
    <3>2. WokenFor(i)' = WokenFor(i) \cup {line[1]}
      BY <2>3, <3>1, <1>6, <1>7 DEF WokenFor
    <3>3. \A j \in Worker : j # i => WokenFor(j)' = WokenFor(j)
      BY <2>3, <3>1, <1>6, <1>7 DEF WokenFor
    <3>4. /\ IsFiniteSet(WokenFor(i) \cup {line[1]})
          /\ Cardinality(WokenFor(i) \cup {line[1]}) =
                IF line[1] \in WokenFor(i) THEN Cardinality(WokenFor(i))
                                           ELSE Cardinality(WokenFor(i)) + 1
      BY <2>1, FS_AddElement, Zenon
    <3>5. Len(Tail(q)) + Cardinality(WokenFor(i) \cup {line[1]}) >= QueueSize
      <4>1. Len(q) + Cardinality(WokenFor(i)) >= QueueSize
        BY <2>3 DEF QueueInv, Promised
      <4> QED BY <4>1, <3>1, <3>4, <2>1, <1>1, <1>2, Sizes
    <3> QED BY <3>2, <3>3, <3>4, <3>5, <1>3, <1>5 DEF QueueInv, Promised
  <2> QED BY <2>2, <2>3
<1>13. Engaged'
  <2>1. \A s \in Session : sess'[s].pc \in {"body", "bridged", "put", "woken"} =>
           sess[s].pc \in {"body", "bridged", "put", "woken"}
    BY <1>1, <1>6, <1>7
  <2> QED BY <2>1, <1>7 DEF QueueInv, Engaged
<1> QED BY <1>8, <1>9, <1>10, <1>11, <1>12, <1>13 DEF QueueInv

\* A new worker begins with an empty queue, and is the only one that runs.
LEMMA OpenKeeps ==
    ASSUME PortTypes, QueueInv, Open
    PROVE  PortTypes' /\ QueueInv'
<1> DEFINE w == [Unborn EXCEPT !.running = TRUE, !.loop = "get"]
<1>1. /\ made' \in Worker /\ cur' = made' /\ cur = 0
      /\ worker' = [worker EXCEPT ![made'] = w] /\ sess' = sess
      /\ UNCHANGED <<holder, locks>>
  BY Sizes DEF Open, PortTypes, Worker
<1>2. /\ w \in WorkerRec /\ w.running /\ w.loop = "get" /\ w.queue = <<>> /\ w.putters = <<>>
      /\ w.late = 0
  <2>1. Unborn \in WorkerRec /\ Unborn.queue = <<>> /\ Unborn.putters = <<>> /\ Unborn.late = 0
    BY DEF WorkerRec, Unborn
  <2> QED BY <2>1 DEF WorkerRec
<1> HIDE DEF w
<1>3. /\ worker'[made'] = w
      /\ \A j \in Worker : j # made' => worker'[j] = worker[j]
      /\ worker' \in [Worker -> WorkerRec]
  BY <1>1, <1>2 DEF PortTypes
<1>4. PortTypes'
  BY <1>1, <1>3 DEF PortTypes, Worker
<1>5. OneRuns' /\ LastItem' /\ Bounded' /\ InLine' /\ Engaged'
  BY <1>1, <1>2, <1>3, Sizes DEF QueueInv, OneRuns, LastItem, Bounded, InLine, Engaged, Worker
<1>6. Promised'
  <2>1. \A j \in Worker : WokenFor(j)' = WokenFor(j)
    BY <1>1 DEF WokenFor
  <2> QED BY <2>1, <1>2, <1>3 DEF QueueInv, Promised
<1> QED BY <1>4, <1>5, <1>6 DEF QueueInv

-----------------------------------------------------------------------------
\* A write message passes the rate limiter, and is put when the worker runs.
LEMMA MessageKeeps ==
    ASSUME IInv, NEW s \in Session, Message(s)
    PROVE  IInv'
<1>1. s \in Client
  BY WritersAssumption DEF Message
<1>2. LimiterInv'
  BY <1>1, AllowKeeps DEF Message, IInv
<1>3. PortTypes' /\ QueueInv'
  <2>1. CASE Allowed(s) /\ Running(cur)
    <3>1. Taken("put", "ws") \in SessRec /\ Taken("put", "ws").wk # 0
      BY <2>1 DEF Taken, SessRec, Pc, Via, Running, IInv, PortTypes
    <3> QED BY <2>1, <3>1, PutKeeps DEF Message, IInv
  <2>2. CASE ~(Allowed(s) /\ Running(cur))
    <3>1. UNCHANGED <<holder, locks, cur, made, worker, sess>>
      BY <2>2 DEF Message, portVars
    <3>2. \A i \in Worker : WokenFor(i)' = WokenFor(i)
      BY <3>1 DEF WokenFor
    <3> QED BY <3>1, <3>2
         DEF IInv, PortTypes, QueueInv, OneRuns, Bounded, InLine, Promised, Engaged, LastItem
  <2> QED BY <2>1, <2>2
<1> QED BY <1>2, <1>3 DEF IInv

\* The steps of a session.
LEMMA SessionSteps ==
    ASSUME IInv, NEW s \in Session,
           \/ PutResumes(s) \/ Disconnect(s) \/ Reconnect(s)
           \/ Request(s, "rest") \/ Request(s, "wait") \/ Body(s) \/ BodyRefused(s)
           \/ Attach(s) \/ Input(s) \/ Detach(s)
    PROVE  IInv'
<1>1. /\ sess[s] \in SessRec /\ cur \in 0..MaxWorkers
      /\ PortTypes /\ QueueInv /\ LimiterInv /\ Engaged
  BY Sizes DEF IInv, PortTypes, QueueInv
<1>2. Idle \in SessRec /\ Idle.pc = "idle"
  BY Sizes DEF Idle, SessRec, Pc, Via
<1>3. CASE PutResumes(s)
  <2>1. sess[s].wk # 0
    BY <1>1, <1>3 DEF PutResumes, Engaged
  <2> QED BY <2>1, <1>1, <1>3, PutKeeps, LimiterStays DEF PutResumes, IInv
<1>4. CASE Body(s) \/ Input(s)
  <2>1. sess[s].wk # 0
    BY <1>1, <1>4 DEF Body, Input, Engaged
  <2> QED BY <2>1, <1>1, <1>4, PutKeeps, LimiterStays DEF Body, Input, Write, IInv
<1>5. CASE Disconnect(s)
  <2>1. [sess[s] EXCEPT !.pc = "gone"] \in SessRec /\ [sess[s] EXCEPT !.pc = "gone"].pc = "gone"
    BY <1>1 DEF SessRec, Pc
  <2>2. s \in Client
    BY <1>5, WritersAssumption DEF Disconnect
  <2>3. sess' = [sess EXCEPT ![s] = [sess[s] EXCEPT !.pc = "gone"]]
    BY <1>5 DEF Disconnect
  <2> QED BY <2>1, <2>2, <2>3, <1>1, <1>5, SessionKeeps, RemoveKeeps DEF Disconnect, IInv
<1>6. CASE Reconnect(s)
  <2>1. [sess[s] EXCEPT !.pc = "idle"] \in SessRec /\ [sess[s] EXCEPT !.pc = "idle"].pc = "idle"
    BY <1>1 DEF SessRec, Pc
  <2>2. sess' = [sess EXCEPT ![s] = [sess[s] EXCEPT !.pc = "idle"]]
    BY <1>6 DEF Reconnect
  <2> QED BY <2>1, <2>2, <1>1, <1>6, SessionKeeps, LimiterStays DEF Reconnect, IInv
<1>7. ASSUME NEW via \in {"rest", "wait"}, Request(s, via) PROVE IInv'
  <2>1. /\ Taken("body", via) \in SessRec /\ Taken("body", via).pc = "body"
        /\ Taken("body", via).wk # 0
    BY <1>1, <1>7 DEF Request, Running, Taken, SessRec, Pc, Via
  <2> QED BY <2>1, <1>1, <1>7, SessionKeeps, LimiterStays DEF Request, IInv
<1>8. CASE Attach(s)
  <2>1. /\ Taken("bridged", "bridge") \in SessRec /\ Taken("bridged", "bridge").pc = "bridged"
        /\ Taken("bridged", "bridge").wk # 0
    BY <1>1, <1>8 DEF Attach, Running, Taken, SessRec, Pc, Via
  <2> QED BY <2>1, <1>1, <1>8, SessionKeeps, LimiterStays DEF Attach, IInv
<1>9. CASE BodyRefused(s) \/ Detach(s)
  BY <1>1, <1>2, <1>9, SessionKeeps, LimiterStays DEF BodyRefused, Detach, IInv
<1> QED BY <1>3, <1>4, <1>5, <1>6, <1>7, <1>8, <1>9

\* The steps of a worker's loops and of whoever stops it.
LEMMA WorkerSteps ==
    ASSUME IInv, NEW i \in Worker,
           Drained(i) \/ WriteFails(i) \/ ReadFails(i) \/ Cancel(i) \/ (Close /\ i = cur)
    PROVE  IInv'
<1>1. /\ worker[i] \in WorkerRec /\ PortTypes /\ QueueInv /\ LimiterInv /\ OneRuns
      /\ worker \in [Worker -> WorkerRec]
  BY DEF IInv, PortTypes, QueueInv
<1>2. LimiterInv'
  BY <1>1, LimiterStays DEF Drained, WriteFails, ReadFails, Cancel, Close
<1>5. \E l \in {"none", "get", "drain", "done"}, b \in BOOLEAN :
         LET w == [worker[i] EXCEPT !.loop = l, !.running = b] IN
         /\ worker' = [worker EXCEPT ![i] = w]
         /\ b => worker[i].running /\ l \in {"get", "drain"}
         /\ l = "get" => worker[i].running \/ worker[i].loop = "get"
         /\ cur' = cur \/ (cur' = 0 /\ cur = i /\ ~b)
  <2>1. CASE Drained(i)
    <3>1. worker' = [worker EXCEPT ![i] = [worker[i] EXCEPT
                        !.loop = IF worker[i].running THEN "get" ELSE "done",
                        !.running = worker[i].running]]
      BY <2>1, <1>1 DEF Drained, WorkerRec
    <3> QED BY <2>1, <3>1, <1>1 DEF Drained, portVars, WorkerRec
  <2>2. CASE WriteFails(i)
    <3>1. worker' = [worker EXCEPT ![i] = [worker[i] EXCEPT !.loop = "done", !.running = FALSE]]
      BY <2>2 DEF WriteFails
    <3> QED BY <2>2, <3>1 DEF WriteFails, portVars
  <2>3. CASE ReadFails(i) \/ (Close /\ i = cur)
    <3>1. worker' = [worker EXCEPT ![i] = [worker[i] EXCEPT
                        !.loop = worker[i].loop, !.running = FALSE]]
      BY <2>3, <1>1 DEF ReadFails, Close, WorkerRec
    <3> QED BY <2>3, <3>1, <1>1 DEF ReadFails, Close, portVars, WorkerRec
  <2>4. CASE Cancel(i)
    <3>1. ~worker[i].running
      BY <2>4, <1>1 DEF Cancel, OneRuns
    <3>2. worker' = [worker EXCEPT ![i] = [worker[i] EXCEPT !.loop = "done", !.running = FALSE]]
      BY <2>4, <3>1, <1>1 DEF Cancel, WorkerRec
    <3> QED BY <2>4, <3>2 DEF Cancel, portVars
  <2> QED BY <2>1, <2>2, <2>3, <2>4
<1>6. sess' = sess /\ UNCHANGED <<holder, locks, made>>
  BY DEF Drained, WriteFails, ReadFails, Cancel, Close, portVars
<1>7. PortTypes' /\ QueueInv'
  <2>1. PICK l \in {"none", "get", "drain", "done"}, b \in BOOLEAN :
           LET w == [worker[i] EXCEPT !.loop = l, !.running = b] IN
           /\ worker' = [worker EXCEPT ![i] = w]
           /\ b => worker[i].running /\ l \in {"get", "drain"}
           /\ l = "get" => worker[i].running \/ worker[i].loop = "get"
           /\ cur' = cur \/ (cur' = 0 /\ cur = i /\ ~b)
    BY <1>5
  <2> DEFINE w == [worker[i] EXCEPT !.loop = l, !.running = b]
  <2>2. /\ w \in WorkerRec /\ w.queue = worker[i].queue /\ w.putters = worker[i].putters
        /\ w.late = worker[i].late /\ w.loop = l /\ w.running = b
    BY <1>1 DEF WorkerRec
  <2>3. /\ worker' = [worker EXCEPT ![i] = w]
        /\ w.running => worker[i].running /\ w.loop \in {"get", "drain"}
        /\ w.loop = "get" => worker[i].running \/ worker[i].loop = "get"
        /\ cur' = cur \/ (cur' = 0 /\ cur = i /\ ~w.running)
    BY <2>1, <2>2
  <2> HIDE DEF w
  <2> QED BY <2>2, <2>3, <1>1, <1>6, WorkerKeeps
<1> QED BY <1>2, <1>7 DEF IInv

\* Steps of the lock, the clock, and none at all.
LEMMA OtherSteps ==
    ASSUME IInv,
           (\E u \in User : LockPort(u) \/ Unlock(u)) \/ Clock \/ UNCHANGED vars
    PROVE  IInv'
<1>1. LimiterInv'
  BY LimiterStays, TickKeeps DEF LockPort, Unlock, Clock, vars, limiterVars, IInv
<1>2. /\ UNCHANGED <<cur, made, worker, sess>>
      /\ holder' \in User \cup {NoUser} /\ locks' \in Nat
  BY DEF LockPort, Unlock, Clock, vars, portVars, IInv, PortTypes
<1>3. \A i \in Worker : WokenFor(i)' = WokenFor(i)
  BY <1>2 DEF WokenFor
<1> QED BY <1>1, <1>2, <1>3
    DEF IInv, PortTypes, QueueInv, OneRuns, Bounded, InLine, Promised, Engaged, LastItem

LEMMA StepKeeps == IInv /\ [Next]_vars => IInv'
<1> SUFFICES ASSUME IInv, [Next]_vars PROVE IInv'
  OBVIOUS
<1>1. CASE \E s \in Session : Message(s)
  BY <1>1, MessageKeeps
<1>2. CASE \E s \in Session :
              \/ PutResumes(s) \/ Disconnect(s) \/ Reconnect(s)
              \/ Request(s, "rest") \/ Request(s, "wait") \/ Body(s) \/ BodyRefused(s)
              \/ Attach(s) \/ Input(s) \/ Detach(s)
  BY <1>2, SessionSteps
<1>3. CASE (\E u \in User : LockPort(u) \/ Unlock(u)) \/ Clock \/ UNCHANGED vars
  BY <1>3, OtherSteps
<1>4. CASE Open
  BY <1>4, OpenKeeps, LimiterStays DEF Open, IInv
<1>5. CASE Close
  <2>1. cur \in Worker
    BY <1>5, Sizes DEF Close, IInv, PortTypes, Worker
  <2> QED BY <1>5, <2>1, WorkerSteps
<1>6. CASE \E i \in Worker : Get(i)
  BY <1>6, GetKeeps, LimiterStays DEF Get, IInv
<1>7. CASE \E i \in Worker : Drained(i) \/ WriteFails(i) \/ ReadFails(i) \/ Cancel(i)
  BY <1>7, WorkerSteps
<1> QED BY <1>1, <1>2, <1>3, <1>4, <1>5, <1>6, <1>7 DEF Next

\* The inductive invariant holds throughout.
THEOREM Invariant == Spec => []IInv
BY Initial, StepKeeps, PTL DEF Spec

\* Every variable of the write path keeps its type.
THEOREM TypeCorrect == Spec => []TypeOK
<1>1. IInv => TypeOK
  BY DEF IInv, LimiterInv, PortTypes, TypeOK, WorkerRec, SessRec
<1> QED BY <1>1, Invariant, PTL

\* Any stretch of time lets no more pass than a burst and what is refilled in it
\* (utils.py:68-74).
THEOREM WindowBoundHolds == Spec => []WindowBound
<1>1. IInv => WindowBound
  BY WindowsBound DEF IInv
<1> QED BY <1>1, Invariant, PTL

\* While puts are in line, each free place of their queue is promised to one that was
\* woken, and a worker that accepts writes has a write loop (serial_worker.py:87-107).
THEOREM NoLostWakeUpHolds == Spec => []NoLostWakeUp
<1>1. IInv => NoLostWakeUp
  BY DEF IInv, QueueInv, OneRuns, Bounded, Promised, NoLostWakeUp
<1> QED BY <1>1, Invariant, PTL

\* A worker that stopped writes at most one more item (serial_worker.py:89-92).
THEOREM OneWriteAfterStopHolds == Spec => []OneWriteAfterStop
<1>1. IInv => OneWriteAfterStop
  BY DEF IInv, QueueInv, LastItem, OneWriteAfterStop
<1> QED BY <1>1, Invariant, PTL
=============================================================================
