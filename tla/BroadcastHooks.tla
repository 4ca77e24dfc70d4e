-------------------------- MODULE BroadcastHooks --------------------------
(***************************************************************************)
(* How the SSH and telnet bridges and the write-wait requests tap the data *)
(* of a port: each replaces WsManager.broadcast by a hook that takes the   *)
(* data of its port and calls the broadcast it found, and puts that one    *)
(* back when it ends.                                                      *)
(*                                                                         *)
(* A broadcast function is the sequence of the sessions whose hooks it     *)
(* runs, outermost first, before the broadcast of the class; <<>> is that  *)
(* broadcast itself.  A hook never changes once it is made.                *)
(***************************************************************************)
EXTENDS Naturals, Sequences, FiniteSets

CONSTANTS Port,
          Bridge,      \* SSH and telnet sessions
          Waiter,      \* write-wait requests
          PortOf,      \* the port of each session
          QueueCap,    \* maxsize of rx_queue
          MaxChunks    \* bound: chunks read from the devices

Session == Bridge \cup Waiter

ASSUME SessionsAssumption ==
    /\ Bridge \cap Waiter = {}
    /\ PortOf \in [Session -> Port]
    /\ QueueCap \in Nat /\ MaxChunks \in Nat

VARIABLES
  source,     \* the port of each chunk read so far, in the order of reading
  up,         \* the worker of each port runs
  broadcast,  \* the function the name wsm.broadcast is bound to
  pending,    \* broadcasts scheduled: the chunk, and the function bound then
  buffer,     \* the chunks in the replay buffer of each port
  phase,      \* "new", "replayed", "hooked" or "ended", for each session
  running,    \* the flag that the two tasks of a bridge share
  original,   \* original_broadcast of each session
  replay,     \* the chunks a bridge wrote as replay
  rx,         \* rx_queue of a bridge, the data collected by a request
  out,        \* the chunks a bridge wrote to its user as live data
  lifo        \* history: each session so far put the broadcast back when its own
              \* hook was the outermost

vars == <<source, up, broadcast, pending, buffer, phase, running, original,
          replay, rx, out, lifo>>

Init ==
    /\ source = <<>> /\ up = [p \in Port |-> TRUE]
    /\ broadcast = <<>> /\ pending = <<>>
    /\ buffer = [p \in Port |-> <<>>]
    /\ phase = [s \in Session |-> "new"]
    /\ running = [s \in Session |-> TRUE]
    /\ original = [s \in Session |-> <<>>]
    /\ replay = [s \in Session |-> <<>>] /\ rx = [s \in Session |-> <<>>]
    /\ out = [s \in Session |-> <<>>] /\ lifo = TRUE

Members(seq) == {seq[i] : i \in DOMAIN seq}

-----------------------------------------------------------------------------
(* The data                                                                *)

\* The worker of p hands a chunk to broadcast_sync, which binds self.broadcast
\* now and schedules it.
Read(p) ==
    /\ up[p] /\ Len(source) < MaxChunks
    /\ source' = Append(source, p)
    /\ pending' = Append(pending, [chunk |-> Len(source'), via |-> broadcast])
    /\ UNCHANGED <<up, broadcast, buffer, phase, running, original, replay, rx,
                   out, lifo>>

\* The hook of s takes the data: a bridge while it is running and its queue has
\* room, a request always.
Takes(s, p) ==
    /\ PortOf[s] = p
    /\ s \in Bridge => running[s] /\ Len(rx[s]) < QueueCap

\* (A slip: a hook that runs inside another one takes the data twice.)
MutRunTwice(via, chunk, p) ==
    /\ rx' = [s \in Session |->
                IF s \in Members(via) /\ Takes(s, p)
                  THEN IF Len(via) = 1 THEN Append(rx[s], chunk)
                       ELSE rx[s] \o <<chunk, chunk>>
                  ELSE rx[s]]
    /\ buffer' = [buffer EXCEPT ![p] = Append(@, chunk)]

\* The hooks of the function via, and then the broadcast of the class.
Run(via, chunk, p) ==
    /\ rx' = [s \in Session |-> IF s \in Members(via) /\ Takes(s, p)
                                  THEN Append(rx[s], chunk) ELSE rx[s]]
    /\ buffer' = [buffer EXCEPT ![p] = Append(@, chunk)]

\* The event loop starts the next scheduled broadcast.
Broadcast ==
    /\ pending # <<>>
    /\ LET b == Head(pending) IN Run(b.via, b.chunk, source[b.chunk])
    /\ pending' = Tail(pending)
    /\ UNCHANGED <<source, up, broadcast, phase, running, original, replay, out,
                   lifo>>

-----------------------------------------------------------------------------
(* The sessions                                                            *)

\* A bridge writes the replay buffer to its user, then starts its rx task.
Replay(s) ==
    /\ s \in Bridge /\ phase[s] = "new" /\ up[PortOf[s]]
    /\ replay' = [replay EXCEPT ![s] = buffer[PortOf[s]]]
    /\ phase' = [phase EXCEPT ![s] = "replayed"]
    /\ UNCHANGED <<source, up, broadcast, pending, buffer, running, original, rx,
                   out, lifo>>

\* (A slip: a session saves the broadcast of the class, whatever is bound.)
MutInstall(s) ==
    /\ phase[s] = IF s \in Bridge THEN "replayed" ELSE "new"
    /\ original' = original
    /\ broadcast' = <<s>> \o broadcast
    /\ phase' = [phase EXCEPT ![s] = "hooked"]
    /\ UNCHANGED <<source, up, pending, buffer, running, replay, rx, out, lifo>>

\* (A slip: the hook is put in again by a session whose hook is in already.)
MutInstallAgain(s) ==
    /\ phase[s] \in {IF s \in Bridge THEN "replayed" ELSE "new", "hooked"}
    /\ Len(broadcast) <= Cardinality(Session)
    /\ original' = [original EXCEPT ![s] = broadcast]
    /\ broadcast' = <<s>> \o broadcast
    /\ phase' = [phase EXCEPT ![s] = "hooked"]
    /\ UNCHANGED <<source, up, pending, buffer, running, replay, rx, out, lifo>>

\* The session replaces broadcast by its hook: a bridge when its rx task starts, a
\* request when its body has been read.
Install(s) ==
    /\ phase[s] = IF s \in Bridge THEN "replayed" ELSE "new"
    /\ original' = [original EXCEPT ![s] = broadcast]
    /\ broadcast' = <<s>> \o broadcast
    /\ phase' = [phase EXCEPT ![s] = "hooked"]
    /\ UNCHANGED <<source, up, pending, buffer, running, replay, rx, out, lifo>>

\* The rx task of a bridge writes the next chunk.  (What it may still write to a
\* user who has left is left out.)
Forward(s) ==
    /\ s \in Bridge /\ phase[s] = "hooked" /\ running[s] /\ rx[s] # <<>>
    /\ out' = [out EXCEPT ![s] = Append(@, Head(rx[s]))]
    /\ rx' = [rx EXCEPT ![s] = Tail(@)]
    /\ UNCHANGED <<source, up, broadcast, pending, buffer, phase, running,
                   original, replay, lifo>>

\* The user of a bridge leaves: its tx task, which starts after the rx task has put
\* its hook in, clears the flag and ends.
Leave(s) ==
    /\ s \in Bridge /\ phase[s] \in {"hooked", "ended"} /\ running[s]
    /\ running' = [running EXCEPT ![s] = FALSE]
    /\ UNCHANGED <<source, up, broadcast, pending, buffer, phase, original,
                   replay, rx, out, lifo>>

\* The session puts back the broadcast it found.
PutBack(s) ==
    /\ phase[s] = "hooked"
    /\ broadcast' = original[s]
    /\ lifo' = (lifo /\ broadcast # <<>> /\ Head(broadcast) = s)
    /\ phase' = [phase EXCEPT ![s] = "ended"]
    /\ UNCHANGED <<source, up, pending, buffer, running, original, replay, rx, out>>

\* A bridge ends when its rx task sees the flag, or finds its queue empty and the
\* worker stopped; a request when it has data enough or times out.
Restore(s) ==
    /\ s \in Bridge => ~running[s] \/ (rx[s] = <<>> /\ ~up[PortOf[s]])
    /\ PutBack(s)

\* Writing to the user raises, or the session is cancelled: the rx task ends, and the
\* flag may stay set while the tx task goes on.  (A chunk it had taken is left in rx,
\* which nobody reads any more.)
RxFails(s) == s \in Bridge /\ PutBack(s)

\* The worker of p stops.
Down(p) ==
    /\ up[p]
    /\ up' = [up EXCEPT ![p] = FALSE]
    /\ UNCHANGED <<source, broadcast, pending, buffer, phase, running, original,
                   replay, rx, out, lifo>>

-----------------------------------------------------------------------------
Next ==
    \/ \E p \in Port : Read(p) \/ Down(p)
    \/ Broadcast
    \/ \E s \in Session : Replay(s) \/ Install(s) \/ Forward(s) \/ Leave(s)
                         \/ Restore(s) \/ RxFails(s)

Spec == Init /\ [][Next]_vars

-----------------------------------------------------------------------------
(* Properties                                                              *)

Chunk == 1..MaxChunks

\* Every variable has its type.
TypeOK ==
    /\ source \in Seq(Port) /\ up \in [Port -> BOOLEAN]
    /\ broadcast \in Seq(Session)
    /\ pending \in Seq([chunk : Chunk, via : Seq(Session)])
    /\ buffer \in [Port -> Seq(Chunk)]
    /\ phase \in [Session -> {"new", "replayed", "hooked", "ended"}]
    /\ running \in [Session -> BOOLEAN]
    /\ original \in [Session -> Seq(Session)]
    /\ replay \in [Session -> Seq(Chunk)] /\ rx \in [Session -> Seq(Chunk)]
    /\ out \in [Session -> Seq(Chunk)] /\ lifo \in BOOLEAN

Simple(chain) == \A i, j \in DOMAIN chain : chain[i] = chain[j] => i = j

\* However sessions start and end, no hook is twice in the function that
\* wsm.broadcast is bound to: no session is handed a chunk twice.
ChainIsSimple == Simple(broadcast)

\* As long as the sessions ended in the reverse order of their starts, the hooks
\* in place are those of the sessions that are connected, no more and no fewer.
NestedIsClean ==
    lifo => Members(broadcast) = {s \in Session : phase[s] = "hooked"}

Increasing(seq) == \A i, j \in DOMAIN seq : i < j => seq[i] < seq[j]

\* A bridge forwards live chunks in the order they were read and none twice,
\* whatever hooks come and go between two chunks.
ForwardedInOrder == \A s \in Session : Increasing(out[s] \o rx[s])

=============================================================================
