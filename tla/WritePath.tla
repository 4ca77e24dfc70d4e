----------------------------- MODULE WritePath -----------------------------
(***************************************************************************)
(* How writes reach the device of one port: the message loop of the web    *)
(* socket with its rate limiter, the REST write, write-wait and the        *)
(* sending halves of the SSH and telnet bridges, the port lock, and the    *)
(* write queue and write loop of the SerialWorker, while the port is       *)
(* closed, fails and is opened again.                                      *)
(*                                                                         *)
(* The write queue is an asyncio.Queue: put() on a full queue waits in     *)
(* line; get() wakes the first in line, who looks again when it runs, so   *)
(* another put may come first and the woken one goes to the end.           *)
(***************************************************************************)
EXTENDS RateLimiter, FiniteSets

CONSTANTS Ws, Rest, Wait, Bridge,   \* who writes, by channel
          User, NoUser, Admin,
          UserOf,        \* the user of each session
          QueueSize,     \* maxsize of the write queue
          MaxWorkers,    \* bound: how often the port is opened
          MaxLocks       \* bound: how often the port is locked

Session == Ws \cup Rest \cup Wait \cup Bridge
Worker == 1..MaxWorkers

ASSUME WritersAssumption ==
    /\ Ws \subseteq Client
    /\ UserOf \in [Session -> User] /\ NoUser \notin User /\ Admin \subseteq User
    /\ {QueueSize, MaxWorkers, MaxLocks} \subseteq Nat /\ QueueSize > 0
    /\ Ws \cap (Rest \cup Wait \cup Bridge) = {}

VARIABLES
  holder,   \* port_locks.json: who holds the lock of the port
  locks,    \* history: how often the port was locked
  cur,      \* the registered worker, 0 without one
  made,     \* number of workers created
  worker,   \* the SerialWorkers in the order they were started
  sess      \* the sessions

portVars == <<holder, locks, cur, made>>
vars == <<now, bucket, passed, holder, locks, cur, made, worker, sess>>

\* A worker: _running, where its write loop is, the write queue, who waits to put
\* into it; history: how many items it wrote after _running fell.
Unborn == [running |-> FALSE, loop |-> "none", queue |-> <<>>, putters |-> <<>>,
           late |-> 0]

\* A session: what its task waits for, the channel and the worker it uses.
Idle == [pc |-> "idle", via |-> "none", wk |-> 0]

Init ==
    /\ LimiterInit
    /\ holder \in User \cup {NoUser} /\ locks = 0
    /\ cur = 0 /\ made = 0
    /\ worker = [i \in Worker |-> Unborn]
    /\ sess = [s \in Session |-> Idle]

Running(i) == i # 0 /\ worker[i].running

-----------------------------------------------------------------------------
(* The write queue                                                         *)

Room(i) == Len(worker[i].queue) < QueueSize

\* A bridge goes on with its worker; every other session is done with it.
Done(r) == IF r.via = "bridge" THEN [r EXCEPT !.pc = "bridged"] ELSE Idle

\* put() by session s, in state r, into the queue of worker r.wk.
Put(s, r) ==
    IF Room(r.wk)
      THEN /\ worker' = [worker EXCEPT ![r.wk].queue = Append(@, s)]
           /\ sess' = [sess EXCEPT ![s] = Done(r)]
      ELSE /\ worker' = [worker EXCEPT ![r.wk].putters = Append(@, s)]
           /\ sess' = [sess EXCEPT ![s] = [r EXCEPT !.pc = "put"]]

\* A put that was woken runs again.
PutResumes(s) ==
    /\ sess[s].pc = "woken"
    /\ Put(s, sess[s])
    /\ UNCHANGED <<limiterVars, portVars>>

\* write(): refused by a worker that no longer runs.
Write(s, r) == worker[r.wk].running /\ Put(s, r)

-----------------------------------------------------------------------------
(* The channels.  Viewers never get this far; an error reply changes       *)
(* nothing and is no step.                                                 *)

Unlocked(s) == holder \in {NoUser, UserOf[s]}

\* The state of a session that takes the registered worker now.
Taken(pc, via) == [pc |-> pc, via |-> via, wk |-> cur]

\* A write message on a web socket: the lock, the rate limit, the worker.
Message(s) ==
    /\ s \in Ws /\ sess[s].pc = "idle"
    /\ Unlocked(s)
    /\ Allow(s)
    /\ IF Allowed(s) /\ Running(cur) THEN Put(s, Taken("put", "ws")) ELSE UNCHANGED <<worker, sess>>
    /\ UNCHANGED portVars

\* The socket's handler ends and its bucket goes; the client may connect again.
Disconnect(s) ==
    /\ s \in Ws /\ sess[s].pc = "idle"
    /\ sess' = [sess EXCEPT ![s].pc = "gone"]
    /\ Remove(s)
    /\ UNCHANGED <<portVars, worker>>

Reconnect(s) ==
    /\ sess[s].pc = "gone" /\ cur # 0
    /\ sess' = [sess EXCEPT ![s].pc = "idle"]
    /\ UNCHANGED <<limiterVars, portVars, worker>>

\* A REST write or a write-wait takes the worker and awaits its body.
Request(s, via) ==
    /\ sess[s].pc = "idle"
    /\ \/ via = "rest" /\ s \in Rest /\ Unlocked(s)
       \/ via = "wait" /\ s \in Wait
    /\ Running(cur)
    /\ sess' = [sess EXCEPT ![s] = Taken("body", via)]
    /\ UNCHANGED <<limiterVars, portVars, worker>>

\* The body is there: it is written, or refused (its size, its encoding, a worker
\* that stopped meanwhile).
Body(s) ==
    /\ sess[s].pc = "body"
    /\ Write(s, sess[s])
    /\ UNCHANGED <<limiterVars, portVars>>

BodyRefused(s) ==
    /\ sess[s].pc = "body"
    /\ sess' = [sess EXCEPT ![s] = Idle]
    /\ UNCHANGED <<limiterVars, portVars, worker>>

\* A bridge takes the worker once, writes what the user types, and ends when the
\* user leaves or the worker refuses.
Attach(s) ==
    /\ s \in Bridge /\ sess[s].pc = "idle" /\ Running(cur)
    /\ sess' = [sess EXCEPT ![s] = Taken("bridged", "bridge")]
    /\ UNCHANGED <<limiterVars, portVars, worker>>

Input(s) ==
    /\ sess[s].pc = "bridged"
    /\ Write(s, sess[s])
    /\ UNCHANGED <<limiterVars, portVars>>

Detach(s) ==
    /\ sess[s].pc = "bridged"
    /\ sess' = [sess EXCEPT ![s] = Idle]
    /\ UNCHANGED <<limiterVars, portVars, worker>>

-----------------------------------------------------------------------------
(* The lock                                                                *)

LockPort(u) ==
    /\ holder = NoUser /\ locks < MaxLocks
    /\ holder' = u /\ locks' = locks + 1
    /\ UNCHANGED <<limiterVars, cur, made, worker, sess>>

Unlock(u) ==
    /\ holder # NoUser
    /\ u = holder \/ u \in Admin
    /\ holder' = NoUser
    /\ UNCHANGED <<limiterVars, locks, cur, made, worker, sess>>

-----------------------------------------------------------------------------
(* The worker                                                              *)

Open ==
    /\ cur = 0 /\ made < MaxWorkers
    /\ made' = made + 1 /\ cur' = made'
    /\ worker' = [worker EXCEPT ![made'] =
                    [Unborn EXCEPT !.running = TRUE, !.loop = "get"]]
    /\ UNCHANGED <<limiterVars, holder, locks, sess>>

\* (A slip: nobody is woken.)
MutWoken(putters) == sess

\* The first of the given waiting puts is woken.
Woken(putters) ==
    [s \in Session |-> IF putters # <<>> /\ s = Head(putters)
                         THEN [sess[s] EXCEPT !.pc = "woken"] ELSE sess[s]]

Rest1(q) == IF q = <<>> THEN q ELSE Tail(q)

\* The write loop takes an item, hands it to the serial link and waits until
\* the link has drained.
Get(i) ==
    /\ worker[i].loop = "get" /\ worker[i].queue # <<>>
    /\ worker' = [worker EXCEPT
                    ![i].loop = "drain",
                    ![i].queue = Tail(@),
                    ![i].putters = Rest1(@),
                    ![i].late = IF worker[i].running THEN @ ELSE @ + 1]
    /\ sess' = Woken(worker[i].putters)
    /\ UNCHANGED <<limiterVars, portVars>>

\* (A slip: the loop does not look at _running.)
MutDrained(i) ==
    /\ worker[i].loop = "drain"
    /\ worker' = [worker EXCEPT ![i].loop = "get"]
    /\ UNCHANGED <<limiterVars, portVars, sess>>

Drained(i) ==
    /\ worker[i].loop = "drain"
    /\ worker' = [worker EXCEPT ![i].loop = IF worker[i].running THEN "get" ELSE "done"]
    /\ UNCHANGED <<limiterVars, portVars, sess>>

\* Writing or draining fails: the loop reports it and ends.
WriteFails(i) ==
    /\ worker[i].loop = "drain"
    /\ worker' = [worker EXCEPT ![i].loop = "done", ![i].running = FALSE]
    /\ UNCHANGED <<limiterVars, portVars, sess>>

\* The read loop fails: the worker no longer runs, its handler is on its way.
ReadFails(i) ==
    /\ worker[i].running
    /\ worker' = [worker EXCEPT ![i].running = FALSE]
    /\ UNCHANGED <<limiterVars, portVars, sess>>

\* close_port or an error handler takes the worker from the registry; stop()
\* waits for the read loop and then cancels the write loop.
Close ==
    /\ cur # 0
    /\ cur' = 0
    /\ worker' = [worker EXCEPT ![cur].running = FALSE]
    /\ UNCHANGED <<limiterVars, holder, locks, made, sess>>

Cancel(i) ==
    /\ i # cur /\ worker[i].loop \in {"get", "drain"}
    /\ worker' = [worker EXCEPT ![i].loop = "done"]
    /\ UNCHANGED <<limiterVars, portVars, sess>>

Clock == Tick /\ UNCHANGED <<portVars, worker, sess>>

Next ==
    \/ \E s \in Session :
          \/ PutResumes(s) \/ Message(s) \/ Disconnect(s) \/ Reconnect(s)
          \/ Request(s, "rest") \/ Request(s, "wait") \/ Body(s) \/ BodyRefused(s)
          \/ Attach(s) \/ Input(s) \/ Detach(s)
    \/ \E u \in User : LockPort(u) \/ Unlock(u)
    \/ Open \/ Close \/ Clock
    \/ \E i \in Worker : Get(i) \/ Drained(i) \/ WriteFails(i) \/ ReadFails(i) \/ Cancel(i)

Spec == Init /\ [][Next]_vars

\* The event loop runs a write loop that can take an item and a put that was woken.
\* That the serial link drains is not assumed (flow control may hold it for ever),
\* nor is anything of those who write.
Fairness ==
    /\ \A i \in Worker : WF_vars(Get(i))
    /\ \A s \in Session : WF_vars(PutResumes(s))

FairSpec == Spec /\ Fairness

-----------------------------------------------------------------------------
(* Properties                                                              *)

Pc == {"idle", "gone", "body", "bridged", "put", "woken"}
Via == {"none", "ws", "rest", "wait", "bridge"}

TypeOK ==
    /\ LimiterTypeOK
    /\ holder \in User \cup {NoUser} /\ locks \in Nat
    /\ cur \in 0..MaxWorkers /\ made \in 0..MaxWorkers
    /\ worker \in [Worker -> [running : BOOLEAN, loop : {"none", "get", "drain", "done"},
                              queue : Seq(Session), putters : Seq(Session),
                              late : Nat]]
    /\ sess \in [Session -> [pc : Pc, via : Via, wk : 0..MaxWorkers]]

\* The puts that were woken and did not run yet.
WokenFor(i) == {s \in Session : sess[s].pc = "woken" /\ sess[s].wk = i}

\* No wake-up is lost: while puts are in line, every free place of the queue is
\* promised to a put that was woken, and a worker that still accepts writes has a
\* write loop, however its loops end; the queue keeps to its size
\* (serial_worker.py:31, 87-107).  Whether a put gets its turn is for LineMoves.
NoLostWakeUp ==
    \A i \in Worker :
       /\ worker[i].putters # <<>> =>
             Len(worker[i].queue) + Cardinality(WokenFor(i)) >= QueueSize
       /\ worker[i].running => worker[i].loop \in {"get", "drain"}
       /\ Len(worker[i].queue) <= QueueSize

\* A put in line gets its turn, provided the link of its worker keeps draining and
\* unless the write loop ends first: a write error, stop() or the end of the read
\* loop leaves the puts in line waiting for ever (serial_worker.py:87-107).
LineMoves ==
    \A i \in Worker :
       []<>(worker[i].loop # "drain") =>
          \A s \in Session :
             sess[s].pc = "put" /\ sess[s].wk = i
                ~> sess[s].pc # "put" \/ worker[i].loop = "done"

\* A worker that no longer runs writes at most the one item its loop was about to
\* take (serial_worker.py:89-92).
OneWriteAfterStop == \A i \in Worker : worker[i].late <= 1

-----------------------------------------------------------------------------
(* What the documentation says and the code does not do                    *)

\* "When locked, only the lock holder can send data": what is put into the write
\* queue while the port is locked is the holder's.
LockIsExclusive ==
    [][\A i \in Worker :
          Len(worker'[i].queue) > Len(worker[i].queue) =>
             holder \in {NoUser, UserOf[worker'[i].queue[Len(worker'[i].queue)]]}]_vars
=============================================================================
