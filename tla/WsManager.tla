----------------------------- MODULE WsManager -----------------------------
(***************************************************************************)
(* serwebs.ws_manager.WsManager for one port: the list of registered web   *)
(* sockets, the replay buffer, and the broadcast tasks that push every     *)
(* chunk read from the device to the clients of the list while clients     *)
(* connect, leave, stall and are closed.                                   *)
(*                                                                         *)
(* The program is single-threaded asyncio: an action is what runs between  *)
(* two suspensions.  The only await of this component that suspends is a   *)
(* send to (or a close of) a client whose transport is above its           *)
(* high-water mark; those that wait for the same client are released in    *)
(* the order they came (the drain lock of the websocket library).          *)
(***************************************************************************)
EXTENDS Naturals, Sequences, FiniteSets

CONSTANTS Client,       \* web sockets, one per connection
          Writer,       \* those whose user may write: no viewers
          MaxChunks,    \* bound: chunks read from the device
          RingCap,      \* chunks the replay buffer holds
          MaxClients,   \* max_clients_per_port
          MaxLists,     \* bound: client lists created
          MaxCloses     \* bound: calls of close_port

ASSUME BoundsAssumption ==
    {MaxChunks, RingCap, MaxClients, MaxLists, MaxCloses} \subseteq Nat

\* Clients and the numbers of chunks share the queues of those who wait.
ASSUME ClientAssumption == Writer \subseteq Client /\ \A c \in Client : c \notin Nat

Chunk == 1..MaxChunks      \* chunks are numbered in the order they are read
ListId == 1..MaxLists

\* Who may wait for a client: its own connect, the broadcast of a chunk, or
\* the broadcast_status of close_port.
Closer == 0
Actor == Client \cup {Closer} \cup Chunk

VARIABLES
  portOpen,   \* get_worker finds a worker for the port
  read,       \* number of chunks read so far
  pending,    \* broadcasts scheduled by broadcast_sync, not started yet
  ring,       \* the replay buffer
  log,        \* the rx entries of the session log
  lists,      \* the list objects, by identity
  reg,        \* _connections[port_id]: a list, or 0 when the key is absent
  bc,         \* the broadcast task of each chunk
  hnd,        \* where the handler of each client is
  writing,    \* the clients whose handler waits in write() of the worker
  sock,       \* state of each socket, as a send sees it
  paused,     \* the transport of the client is above its high-water mark
  waitq,      \* who waits for the client to drain, first come first served
  closer,     \* the part of close_port that concerns the clients
  closes,     \* calls of close_port so far
  got,        \* history: the chunks written to each client as live data
  replayed,   \* history: the chunks of its replay frame
  since,      \* history: broadcasts started when it was registered
  departed    \* history: a client was removed from a list, or close_port called

vars == <<portOpen, read, pending, ring, log, lists, reg, bc, hnd, writing, sock,
          paused, waitq, closer, closes, got, replayed, since, departed>>

\* A loop over a list: the list object, the index it is at, the client it waits
\* for, and the clients whose send failed so far.
Idle == [pc |-> "idle", list |-> 0, idx |-> 0, at |-> Closer, dead |-> {}]
Sending(l, i, c, dead) ==
    [pc |-> "sending", list |-> l, idx |-> i, at |-> c, dead |-> dead]
Closing(l, i, c) == [Sending(l, i, c, {}) EXCEPT !.pc = "closing"]
Done == [Idle EXCEPT !.pc = "done"]

Init ==
    /\ portOpen = TRUE /\ read = 0 /\ pending = <<>>
    /\ ring = <<>> /\ log = <<>>
    /\ lists = [l \in ListId |-> <<>>] /\ reg = 0
    /\ bc = [k \in Chunk |-> Idle]
    /\ hnd = [c \in Client |-> "new"] /\ writing = {}
    /\ sock = [c \in Client |-> "up"]
    /\ paused = [c \in Client |-> FALSE]
    /\ waitq = [c \in Client |-> <<>>]
    /\ closer = [loop |-> Idle, fence |-> 0] /\ closes = 0
    /\ got = [c \in Client |-> <<>>] /\ replayed = [c \in Client |-> <<>>]
    /\ since = [c \in Client |-> 0] /\ departed = FALSE

-----------------------------------------------------------------------------
(* Lists and sends                                                         *)

Members(s) == {s[i] : i \in DOMAIN s}

\* s without the elements of gone, in its order.
Without(s, gone) ==
    LET F[n \in 0..Len(s)] ==
          IF n = 0 THEN <<>>
          ELSE IF s[n] \in gone THEN F[n - 1] ELSE Append(F[n - 1], s[n])
    IN  F[Len(s)]

\* A list object that neither the dictionary nor a running loop refers to.
Unreferenced(l) == /\ l # reg /\ closer.loop.list # l
                   /\ \A k \in Chunk : bc[k].list # l

\* The clients of _connections.get(port_id, []).
Registered == IF reg = 0 THEN {} ELSE Members(lists[reg])

LastN(s, n) == IF Len(s) <= n THEN s ELSE SubSeq(s, Len(s) - n + 1, Len(s))

\* The drain after a write to c suspends the writer.
Blocks(c) == sock[c] = "up" /\ (paused[c] \/ waitq[c] # <<>>)

\* The first index from i on of list l whose client suspends the loop, or one
\* past the end: a send that fails or does not block lets the loop run on.
StopAt(l, i) ==
    LET n == Len(lists[l])
        stops == {j \in i..n : Blocks(lists[l][j])}
    IN  IF stops = {} THEN n + 1
        ELSE CHOOSE j \in stops : \A m \in stops : j <= m

\* The clients the loop sends to before it is suspended or ends.
Reached(l, i) ==
    {lists[l][j] : j \in {m \in i..Len(lists[l]) : m <= StopAt(l, i)}}
Written(l, i) == {c \in Reached(l, i) : sock[c] = "up"}

\* The failed sends of a loop that goes on from index i of list l.
DeadAfter(l, i, dead) == dead \cup (Reached(l, i) \ Written(l, i))

\* A loop "for ws in clients: await ws.send_text(msg)" after it ran on from index
\* i of list l to its next suspension or its end.  The list is iterated in
\* place, by index, whatever was removed from it during a suspension.
LoopAfter(l, i, dead) ==
    IF StopAt(l, i) > Len(lists[l]) THEN Done
    ELSE Sending(l, StopAt(l, i), lists[l][StopAt(l, i)], DeadAfter(l, i, dead))

\* The same for the wait queues (queues, before) and the list: who queues up for
\* the client that suspends it; at the end of the loop the clients whose send
\* failed are removed from the list.
Sweep(who, l, i, dead, queues) ==
    IF StopAt(l, i) > Len(lists[l])
      THEN /\ waitq' = queues
           /\ lists' = [lists EXCEPT ![l] = Without(@, DeadAfter(l, i, dead))]
           /\ departed' = (departed \/
                 DeadAfter(l, i, dead) \cap Members(lists[l]) # {})
      ELSE /\ waitq' = [queues EXCEPT ![lists[l][StopAt(l, i)]] = Append(@, who)]
           /\ UNCHANGED <<lists, departed>>

\* who is first in line for c and the transport of c drained or was lost.
Released(who, c) == /\ waitq[c] # <<>> /\ Head(waitq[c]) = who
                    /\ ~paused[c] \/ sock[c] = "down"
\* (A slip: only the first in line is woken up, the others are forgotten.)
MutDequeued(c) == [waitq EXCEPT ![c] = <<>>]

Dequeued(c) == [waitq EXCEPT ![c] = Tail(@)]

-----------------------------------------------------------------------------
(* The data path: broadcast_sync and broadcast                             *)

\* (A slip: the task is given the number before it is advanced.)
MutBroadcastSync ==
    /\ portOpen /\ read < MaxChunks
    /\ read' = read + 1
    /\ pending' = Append(pending, read)
    /\ UNCHANGED <<portOpen, ring, log, lists, reg, bc, hnd, sock, paused,
                   waitq, closer, closes, got, replayed, since, departed,
                   writing>>

\* The read loop hands a chunk to broadcast_sync, which schedules a task.
BroadcastSync ==
    /\ portOpen /\ read < MaxChunks
    /\ read' = read + 1
    /\ pending' = Append(pending, read + 1)
    /\ UNCHANGED <<portOpen, ring, log, lists, reg, bc, hnd, sock, paused,
                   waitq, closer, closes, got, replayed, since, departed,
                   writing>>

GotAfter(k, l, i) ==
    [c \in Client |-> IF c \in Written(l, i) THEN Append(got[c], k) ELSE got[c]]

\* (A slip: without clients the chunk does not reach the replay buffer.)
MutBroadcastStart ==
    /\ pending # <<>>
    /\ LET k == Head(pending) IN
         /\ log' = Append(log, k)
         /\ IF Registered = {}
              THEN /\ bc' = [bc EXCEPT ![k] = Done]
                   /\ UNCHANGED <<ring, lists, waitq, got, departed>>
              ELSE /\ ring' = LastN(Append(ring, k), RingCap)
                   /\ bc' = [bc EXCEPT ![k] = LoopAfter(reg, 1, {})]
                   /\ got' = GotAfter(k, reg, 1)
                   /\ Sweep(k, reg, 1, {}, waitq)
    /\ pending' = Tail(pending)
    /\ UNCHANGED <<portOpen, read, reg, hnd, sock, paused, closer, closes,
                   replayed, since, writing>>

\* A broadcast task starts; tasks start in the order they were created.  The
\* chunk goes to the replay buffer and to the session log, then to the list
\* that is registered now, if it has any client.
BroadcastStart ==
    /\ pending # <<>>
    /\ LET k == Head(pending) IN
         /\ ring' = LastN(Append(ring, k), RingCap)
         /\ log' = Append(log, k)
         /\ IF Registered = {}
              THEN /\ bc' = [bc EXCEPT ![k] = Done]
                   /\ UNCHANGED <<lists, waitq, got, departed>>
              ELSE /\ bc' = [bc EXCEPT ![k] = LoopAfter(reg, 1, {})]
                   /\ got' = GotAfter(k, reg, 1)
                   /\ Sweep(k, reg, 1, {}, waitq)
    /\ pending' = Tail(pending)
    /\ UNCHANGED <<portOpen, read, reg, hnd, sock, paused, closer, closes,
                   replayed, since, writing>>

\* The failed sends of a loop that waited for its client: one more when the
\* connection was lost meanwhile.
DeadOf(loop) == loop.dead \cup IF sock[loop.at] = "down" THEN {loop.at} ELSE {}

\* (Slips: the loop repeats, or skips, an index after a suspension.)
MutBroadcastResumeSame(k) ==
    /\ bc[k].pc = "sending" /\ Released(k, bc[k].at)
    /\ LET b == bc[k] IN
         /\ bc' = [bc EXCEPT ![k] = LoopAfter(b.list, b.idx, DeadOf(b))]
         /\ got' = GotAfter(k, b.list, b.idx)
         /\ Sweep(k, b.list, b.idx, DeadOf(b), Dequeued(b.at))
    /\ UNCHANGED <<portOpen, read, pending, ring, log, reg, hnd, sock, paused,
                   closer, closes, replayed, since, writing>>
MutBroadcastResumeSkip(k) ==
    /\ bc[k].pc = "sending" /\ Released(k, bc[k].at)
    /\ LET b == bc[k] IN
         /\ bc' = [bc EXCEPT ![k] = LoopAfter(b.list, b.idx + 2, DeadOf(b))]
         /\ got' = GotAfter(k, b.list, b.idx + 2)
         /\ Sweep(k, b.list, b.idx + 2, DeadOf(b), Dequeued(b.at))
    /\ UNCHANGED <<portOpen, read, pending, ring, log, reg, hnd, sock, paused,
                   closer, closes, replayed, since, writing>>

\* A broadcast that waited for a client goes on at the next index.
BroadcastResume(k) ==
    /\ bc[k].pc = "sending" /\ Released(k, bc[k].at)
    /\ LET b == bc[k] IN
         /\ bc' = [bc EXCEPT ![k] = LoopAfter(b.list, b.idx + 1, DeadOf(b))]
         /\ got' = GotAfter(k, b.list, b.idx + 1)
         /\ Sweep(k, b.list, b.idx + 1, DeadOf(b), Dequeued(b.at))
    /\ UNCHANGED <<portOpen, read, pending, ring, log, reg, hnd, sock, paused,
                   closer, closes, replayed, since, writing>>

-----------------------------------------------------------------------------
(* The handler of a web socket: connect, disconnect                        *)

\* (A slip: the limit is passed by one.)
MutAdmits == portOpen /\ Cardinality(Registered) <= MaxClients

\* The checks of the endpoint: a worker is registered for the port and the client
\* limit is not reached.
Admits == portOpen /\ Cardinality(Registered) < MaxClients

\* The checks and connect up to its first suspension, which the handler runs in
\* one go: the client is put on the list (a new one when the
\* key is absent), the replay frame is sent, then the status frame.  A handler
\* that is refused changes nothing.
Connect(c) ==
    /\ hnd[c] = "new" /\ Admits
    /\ IF reg # 0
         THEN /\ lists' = [lists EXCEPT ![reg] = Append(@, c)]
              /\ UNCHANGED reg
         ELSE \E l \in ListId :
                /\ Unreferenced(l) /\ \A m \in 1..(l - 1) : ~Unreferenced(m)
                /\ lists' = [lists EXCEPT ![l] = <<c>>]
                /\ reg' = l
    /\ replayed' = [replayed EXCEPT ![c] = ring]
    /\ since' = [since EXCEPT ![c] = Len(log)]
    /\ IF Blocks(c)
         THEN /\ hnd' = [hnd EXCEPT ![c] = IF ring # <<>> THEN "replaying"
                                                         ELSE "greeting"]
              /\ waitq' = [waitq EXCEPT ![c] = Append(@, c)]
         ELSE /\ hnd' = [hnd EXCEPT ![c] = "open"]
              /\ UNCHANGED waitq
    /\ UNCHANGED <<portOpen, read, pending, ring, log, bc, sock, paused, closer,
                   closes, got, departed, writing>>

\* connect goes on after a suspension.  The status frame follows the replay
\* frame; the log line at the end reads len(self._connections[port_id]) and the
\* KeyError when the key is gone ends the handler without its cleanup.
ConnectResume(c) ==
    /\ hnd[c] \in {"replaying", "greeting"} /\ Released(c, c)
    /\ IF hnd[c] = "replaying" /\ sock[c] = "up" /\ Len(waitq[c]) > 1
         THEN /\ hnd' = [hnd EXCEPT ![c] = "greeting"]
              /\ waitq' = [waitq EXCEPT ![c] = Append(Tail(@), c)]
              /\ UNCHANGED sock
         ELSE /\ waitq' = Dequeued(c)
              /\ IF reg # 0
                   THEN /\ hnd' = [hnd EXCEPT ![c] = "open"]
                        /\ UNCHANGED sock
                   ELSE /\ hnd' = [hnd EXCEPT ![c] = "crashed"]
                        /\ sock' = [sock EXCEPT ![c] =
                                     IF @ = "up" THEN "closing" ELSE @]
    /\ UNCHANGED <<portOpen, read, pending, ring, log, lists, reg, bc, paused,
                   closer, closes, got, replayed, since, departed, writing>>

\* disconnect: the client leaves the list that is registered now, if it is on it;
\* an empty list is dropped from the dictionary.
Disconnect(c) ==
    /\ IF reg = 0
         THEN UNCHANGED <<lists, reg, departed>>
         ELSE /\ lists' = [lists EXCEPT ![reg] = Without(@, {c})]
              /\ reg' = IF Without(lists[reg], {c}) = <<>> THEN 0 ELSE reg
              /\ departed' = (departed \/ c \in Registered)

\* (Slips: the cleanup is not in a finally block; the handler goes on receiving
\* until the port is closed.)
MutHandlerFails(c) ==
    /\ hnd[c] = "open" /\ sock[c] = "up" /\ c \notin writing
    /\ hnd' = [hnd EXCEPT ![c] = "done"]
    /\ sock' = [sock EXCEPT ![c] = "closing"]
    /\ UNCHANGED <<portOpen, read, pending, ring, log, lists, reg, bc, paused,
                   waitq, closer, closes, got, replayed, since, departed,
                   writing>>
MutHandlerEnds(c) ==
    /\ hnd[c] = "open" /\ sock[c] = "down" /\ c \notin writing /\ ~portOpen
    /\ Disconnect(c)
    /\ hnd' = [hnd EXCEPT ![c] = "done"]
    /\ UNCHANGED <<portOpen, read, pending, ring, log, bc, sock, paused, waitq,
                   closer, closes, got, replayed, since, writing>>

\* receive_text raises because the connection is gone; the finally block runs.
HandlerEnds(c) ==
    /\ hnd[c] = "open" /\ sock[c] = "down" /\ c \notin writing
    /\ Disconnect(c)
    /\ hnd' = [hnd EXCEPT ![c] = "done"]
    /\ UNCHANGED <<portOpen, read, pending, ring, log, bc, sock, paused, waitq,
                   closer, closes, got, replayed, since, writing>>

\* A write message, also one that was received before the connection went, takes
\* the handler into write() of the worker registered now, where it waits for room
\* in the write queue; a write that finds room, and any other message, is no step.
WriteBegins(c) ==
    /\ c \in Writer \ writing /\ hnd[c] = "open" /\ portOpen
    /\ writing' = writing \cup {c}
    /\ UNCHANGED <<portOpen, read, pending, ring, log, lists, reg, bc, hnd, sock,
                   paused, waitq, closer, closes, got, replayed, since, departed>>

\* The put got its place.
WriteEnds(c) ==
    /\ c \in writing
    /\ writing' = writing \ {c}
    /\ UNCHANGED <<portOpen, read, pending, ring, log, lists, reg, bc, hnd, sock,
                   paused, waitq, closer, closes, got, replayed, since, departed>>

\* The handler itself raises (a message that is not an object, a payload that is
\* not a string); the finally block runs and the server closes the connection.
HandlerFails(c) ==
    /\ hnd[c] = "open" /\ sock[c] = "up" /\ c \notin writing
    /\ Disconnect(c)
    /\ hnd' = [hnd EXCEPT ![c] = "done"]
    /\ sock' = [sock EXCEPT ![c] = "closing"]
    /\ UNCHANGED <<portOpen, read, pending, ring, log, bc, paused, waitq,
                   closer, closes, got, replayed, since, writing>>

-----------------------------------------------------------------------------
(* close_port, after the worker was popped: broadcast_status,              *)
(* disconnect_all, clear_buffer                                            *)

\* The worker is popped, so no client is admitted and no chunk is read any more.
\* Stopping it suspends close_port: what was scheduled before has started when
\* it goes on.
ClosePort ==
    /\ portOpen /\ closer.loop.pc = "idle" /\ closes < MaxCloses
    /\ portOpen' = FALSE
    /\ closes' = closes + 1
    /\ closer' = [loop |-> [Idle EXCEPT !.pc = "stopping"], fence |-> read]
    /\ departed' = TRUE
    /\ UNCHANGED <<read, pending, ring, log, lists, reg, bc, hnd, sock, paused,
                   waitq, got, replayed, since, writing>>

\* The loop of disconnect_all from index i of the popped list l: closing a socket
\* that is up suspends until its connection is gone, closing another one raises
\* and is ignored.  At the end clear_buffer empties the replay buffer.  The list
\* is read as it is at that moment (lists').
CloseFrom(l, i) ==
    LET ups == {j \in i..(IF l = 0 THEN 0 ELSE Len(lists'[l])) :
                  sock[lists'[l][j]] = "up"}
        j == CHOOSE j \in ups : \A m \in ups : j <= m
    IN  IF ups = {}
          THEN /\ closer' = [loop |-> Idle, fence |-> 0]
               /\ ring' = <<>>
               /\ UNCHANGED sock
          ELSE /\ closer' = [loop |-> Closing(l, j, lists'[l][j]), fence |-> 0]
               /\ sock' = [sock EXCEPT ![lists'[l][j]] = "closing"]
               /\ UNCHANGED ring

\* (A slip: the list stays in the dictionary while its clients are closed.)
MutDisconnectAll ==
    /\ UNCHANGED reg
    /\ CloseFrom(reg, 1)

\* disconnect_all takes the list out of the dictionary before it closes anyone.
DisconnectAll ==
    /\ reg' = 0
    /\ CloseFrom(reg, 1)

\* The loop of broadcast_status from index i of list l; disconnect_all follows in
\* the same stretch when no send suspends it any more.
StatusFrom(l, i, dead, queues) ==
    /\ Sweep(Closer, l, i, dead, queues)
    /\ IF StopAt(l, i) > Len(lists[l])
         THEN DisconnectAll
         ELSE /\ closer' = [closer EXCEPT !.loop = LoopAfter(l, i, dead)]
              /\ UNCHANGED <<reg, sock, ring>>

StatusStart ==
    /\ closer.loop.pc = "stopping" /\ Len(log) >= closer.fence
    /\ IF reg = 0
         THEN /\ UNCHANGED <<lists, waitq, departed>>
              /\ DisconnectAll
         ELSE StatusFrom(reg, 1, {}, waitq)
    /\ UNCHANGED <<portOpen, read, pending, log, bc, hnd, paused, closes, got,
                   replayed, since, writing>>

StatusResume ==
    /\ closer.loop.pc = "sending" /\ Released(Closer, closer.loop.at)
    /\ LET b == closer.loop
       IN  StatusFrom(b.list, b.idx + 1, DeadOf(b), Dequeued(b.at))
    /\ UNCHANGED <<portOpen, read, pending, log, bc, hnd, paused, closes, got,
                   replayed, since, writing>>

DisconnectResume ==
    /\ closer.loop.pc = "closing" /\ sock[closer.loop.at] = "down"
    /\ UNCHANGED <<portOpen, read, pending, log, lists, reg, bc, hnd, paused,
                   waitq, closes, got, replayed, since, departed, writing>>
    /\ CloseFrom(closer.loop.list, closer.loop.idx + 1)

\* open_port registers a new worker for the port, also while close_port runs.
OpenPort ==
    /\ ~portOpen
    /\ portOpen' = TRUE
    /\ UNCHANGED <<read, pending, ring, log, lists, reg, bc, hnd, sock, paused,
                   waitq, closer, closes, got, replayed, since, departed,
                   writing>>

-----------------------------------------------------------------------------
(* The connections                                                         *)

\* A client stops reading and its transport fills up.
Stall(c) ==
    /\ sock[c] = "up" /\ ~paused[c] /\ waitq[c] = <<>>
    /\ paused' = [paused EXCEPT ![c] = TRUE]
    /\ UNCHANGED <<portOpen, read, pending, ring, log, lists, reg, bc, hnd,
                   sock, waitq, closer, closes, got, replayed, since, departed,
                   writing>>

Drain(c) ==
    /\ paused[c]
    /\ paused' = [paused EXCEPT ![c] = FALSE]
    /\ UNCHANGED <<portOpen, read, pending, ring, log, lists, reg, bc, hnd,
                   sock, waitq, closer, closes, got, replayed, since, departed,
                   writing>>

\* The connection is gone: closed by the client, by the server after a close, or
\* by the keepalive of the server.
ConnectionLost(c) ==
    /\ sock[c] # "down" /\ hnd[c] # "new"
    /\ sock' = [sock EXCEPT ![c] = "down"]
    /\ paused' = [paused EXCEPT ![c] = FALSE]
    /\ UNCHANGED <<portOpen, read, pending, ring, log, lists, reg, bc, hnd,
                   waitq, closer, closes, got, replayed, since, departed,
                   writing>>

Next ==
    \/ BroadcastSync \/ BroadcastStart
    \/ \E k \in Chunk : BroadcastResume(k)
    \/ \E c \in Client : \/ Connect(c) \/ ConnectResume(c)
                          \/ HandlerEnds(c) \/ HandlerFails(c)
                          \/ WriteBegins(c) \/ WriteEnds(c)
                          \/ Stall(c) \/ Drain(c) \/ ConnectionLost(c)
    \/ ClosePort \/ StatusStart \/ StatusResume \/ DisconnectResume \/ OpenPort

Spec == Init /\ [][Next]_vars

\* The event loop runs every task that can go on; a stalled client drains or is
\* cut off by the keepalive of the server, and a close ends within its timeout.
\* Only finitely many messages precede a lost connection, so a handler that comes
\* out of every write ends.  Nothing makes WriteEnds happen: a put into the full
\* queue of a worker that has ended, or whose link stands still, waits for ever.
Fairness ==
    /\ WF_vars(BroadcastStart)
    /\ \A k \in Chunk : WF_vars(BroadcastResume(k))
    /\ \A c \in Client : /\ WF_vars(ConnectResume(c))
                          /\ SF_vars(HandlerEnds(c))
                          /\ WF_vars(paused[c] /\ (Drain(c) \/ ConnectionLost(c)))
                          /\ WF_vars(sock[c] = "closing" /\ ConnectionLost(c))
    /\ WF_vars(StatusStart) /\ WF_vars(StatusResume)
    /\ WF_vars(DisconnectResume)

FairSpec == Spec /\ Fairness

-----------------------------------------------------------------------------
(* Properties                                                              *)

\* Every variable has its type.
TypeOK ==
    /\ portOpen \in BOOLEAN /\ read \in 0..MaxChunks
    /\ pending \in Seq(Chunk) /\ ring \in Seq(Chunk) /\ log \in Seq(Chunk)
    /\ reg \in 0..MaxLists
    /\ \A l \in ListId : lists[l] \in Seq(Client)
    /\ \A k \in Chunk : /\ bc[k].pc \in {"idle", "sending", "done"}
                         /\ bc[k].at \in Client \cup {Closer}
                         /\ bc[k].dead \subseteq Client
    /\ hnd \in [Client -> {"new", "replaying", "greeting", "open", "done", "crashed"}]
    /\ writing \subseteq Writer
    /\ sock \in [Client -> {"up", "closing", "down"}]
    /\ paused \in [Client -> BOOLEAN]
    /\ \A c \in Client : waitq[c] \in Seq(Actor)
    /\ closer.loop.pc \in {"idle", "stopping", "sending", "closing"}
    /\ closes \in 0..MaxCloses

Strictly(s) == \A i, j \in DOMAIN s : i < j => s[i] < s[j]

\* No chunk is written twice as live data to a client, although broadcasts iterate
\* a list that others shrink while they are suspended.
AtMostOnceLive ==
    \A c \in Client : \A i, j \in DOMAIN got[c] :
        i # j => got[c][i] # got[c][j]

\* Whatever the suspensions, the session log has the chunks in the order they were
\* read and the replay buffer holds the end of it: as much as fits, unless a
\* close_port has cleared it.
HistoryInReadOrder ==
    /\ log = [i \in 1..Len(log) |-> i]
    /\ \E n \in 0..RingCap : /\ ring = LastN(log, n)
                             /\ closes = 0 => n = RingCap

\* A registered client still has a handler that will take it off the list: a
\* handler that ends, in whatever way, leaves no entry behind.
NoLeakedRegistration ==
    \A c \in Registered : hnd[c] \in {"replaying", "greeting", "open"}

\* The client limit counts the clients of the list, also when handlers stall in
\* connect and broadcasts remove dead clients.
ClientLimit == Cardinality(Registered) <= MaxClients

\* c's connection works and its handler has neither ended nor crashed.
Attached(c) == sock[c] = "up" /\ hnd[c] \in {"replaying", "greeting", "open"}

\* The replay of c holds the end of what was broadcast before its registration,
\* and every broadcast that started after it and is over wrote to c.
GotTheStream(c) ==
    \A k \in Chunk :
       IF k <= since[c] THEN since[c] < k + RingCap => k \in Members(replayed[c])
                        ELSE bc[k].pc = "done" => k \in Members(got[c])

\* As long as no client has been removed from a list, every attached client gets
\* its replay and every chunk that is broadcast after its registration, with no gap
\* between the two, whichever clients stall and whoever connects; and while no connection has gone at all, in the order
\* the chunks were read.
StreamUntilDeparture ==
    /\ ~departed => \A c \in Client : Attached(c) => GotTheStream(c)
    /\ (\A c \in Client : sock[c] = "up") => \A c \in Client : Strictly(got[c])

\* When close_port is over and nobody reopened the port, nothing of the session is
\* left: no replay data and no registered client.
ClosedPortIsClean ==
    closes > 0 /\ closer.loop.pc = "idle" /\ ~portOpen
      => ring = <<>> /\ Registered = {}

\* A broadcast that was scheduled finishes: no wake-up is lost, and a client that
\* leaves takes nobody who waits for it along.
BroadcastsFinish == \A k \in Chunk : read >= k ~> bc[k].pc = "done"

\* A client whose connection is lost does not stay registered, unless its handler
\* never comes out of a write to the worker (routes_ws.py:169), from where it does
\* not reach its cleanup.
LostIsForgotten ==
    \A c \in Client :
       []<>(c \notin writing) =>
          (hnd[c] # "new" /\ sock[c] = "down" ~> c \notin Registered)

=============================================================================
