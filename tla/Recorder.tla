------------------------------ MODULE Recorder ------------------------------
(***************************************************************************)
(* Terminal recordings: start, stop and delete, and how the data of a port *)
(* gets into the recording that is active when its broadcast runs, or when *)
(* a write of a web socket has been queued.                                *)
(*                                                                         *)
(* Every record is flushed.  A flush that fails leaves what it did not     *)
(* write in the buffer of the file object, whose next flush tries it again,*)
(* and raises: out of broadcast before any client got the chunk, or out of *)
(* the web socket's handler.  An SSH or Telnet session, or a write-wait,   *)
(* that hooks into broadcast has taken the chunk before it is recorded.    *)
(***************************************************************************)
EXTENDS Naturals, FiniteSets, Sequences, SequencesExt

CONSTANTS Port,
          NoPort,
          BufferSize,    \* what the buffer of a file object holds, in records
          MaxRecs,       \* bound: recordings that are started
          MaxEvents      \* bound: pieces of data

ASSUME RecorderAssumption ==
    {BufferSize, MaxRecs, MaxEvents} \subseteq Nat /\ BufferSize > 0 /\ NoPort \notin Port

Rec == 1..MaxRecs
Event == [no : 1..MaxEvents, dir : {"o", "i"}]

VARIABLES
  open,      \* the ports that have a worker
  events,    \* number of pieces of data
  pending,   \* broadcasts that are scheduled
  active,    \* _active: the recording of each port, 0 for none
  recs,      \* the recordings in the order they were started
  made,      \* number of recordings
  passed,    \* history: what record_data came back from while a recording was
             \* active: from now on the clients are sent it, one after the other,
             \* or the handler goes on
  shown      \* history: the chunks that a hook took while a recording was active

vars == <<open, events, pending, active, recs, made, passed, shown>>

\* A recording: its port, its file object, what is in the file and what is in the
\* buffer, and whether the file still has its name.
Unborn == [port |-> NoPort, file |-> "none", disk |-> <<>>, buffer |-> <<>>, named |-> FALSE]

Init ==
    /\ open = {} /\ events = 0 /\ pending = <<>>
    /\ active = [p \in Port |-> 0]
    /\ recs = [r \in Rec |-> Unborn] /\ made = 0
    /\ passed = [r \in Rec |-> {}] /\ shown = [r \in Rec |-> {}]

-----------------------------------------------------------------------------
(* The recorder                                                            *)

\* (A slip: whether the port is recorded already is not asked.)
MutMayStart(p) == p \in open

\* start is refused on a port that is not open or that is recorded already.
MayStart(p) == p \in open /\ active[p] = 0

Born(p, f) == [Unborn EXCEPT !.port = p, !.file = f, !.named = TRUE]

\* The file is created; when its header cannot be written, it is closed again and
\* stays, and nothing is recorded.
Start(p) ==
    /\ MayStart(p) /\ made < MaxRecs
    /\ made' = made + 1
    /\ \/ /\ recs' = [recs EXCEPT ![made'] = Born(p, "open")]
          /\ active' = [active EXCEPT ![p] = made']
       \/ /\ recs' = [recs EXCEPT ![made'] = Born(p, "closed")]
          /\ UNCHANGED active
    /\ UNCHANGED <<open, events, pending, passed, shown>>

\* What the file object takes in of a further record: with a full buffer a write
\* that cannot empty it fails and leaves the record out.
Taken(r, e) ==
    {Append(recs[r].buffer, e)} \cup
       IF Len(recs[r].buffer) < BufferSize THEN {} ELSE {recs[r].buffer}

\* (A slip: the caller goes on when recording has failed.)
MutRecordFails(r, e) ==
    /\ recs' = recs
    /\ passed' = [passed EXCEPT ![r] = @ \cup {e}]

\* A part of what is waiting may still get into the file.
RecordFails(r, e) ==
    /\ \E all \in Taken(r, e) : \E n \in 0..(Len(all) - 1) :
          /\ Len(all) - n <= BufferSize
          /\ recs' = [recs EXCEPT ![r].disk = @ \o SubSeq(all, 1, n),
                                  ![r].buffer = SubSeq(all, n + 1, Len(all))]
    /\ UNCHANGED passed

Recorded(r, e) ==
    /\ recs' = [recs EXCEPT ![r].disk = @ \o Append(recs[r].buffer, e),
                            ![r].buffer = <<>>]
    /\ passed' = [passed EXCEPT ![r] = @ \cup {e}]

\* record_data, and whether its caller goes on.
RecordData(p, e) ==
    IF active[p] = 0 THEN UNCHANGED <<recs, passed>>
    ELSE Recorded(active[p], e) \/ RecordFails(active[p], e)

\* The recording is forgotten, then its file is closed: what is in the buffer is
\* written or, when that fails, gone.
Stop(p) ==
    /\ active[p] # 0
    /\ active' = [active EXCEPT ![p] = 0]
    /\ LET r == active[p] IN
       \E n \in 0..Len(recs[r].buffer) :
          recs' = [recs EXCEPT ![r].file = "closed", ![r].buffer = <<>>,
                               ![r].disk = @ \o SubSeq(recs[r].buffer, 1, n)]
    /\ UNCHANGED <<open, events, pending, made, passed, shown>>

\* An admin deletes a recording, perhaps one that is active: the file loses its
\* name, and a recorder that has it open goes on.
Delete(r) ==
    /\ recs[r].named
    /\ recs' = [recs EXCEPT ![r].named = FALSE]
    /\ UNCHANGED <<open, events, pending, active, made, passed, shown>>

-----------------------------------------------------------------------------
(* The data                                                                *)

\* The worker of p reads a chunk and schedules its broadcast.
Read(p) ==
    /\ p \in open /\ events < MaxEvents
    /\ events' = events + 1
    /\ pending' = Append(pending, [port |-> p, event |-> [no |-> events', dir |-> "o"]])
    /\ UNCHANGED <<open, active, recs, made, passed, shown>>

\* A hook on the port takes the chunk, whatever happens to it then.
Shown(p, e) ==
    shown' = [r \in Rec |-> IF r = active[p] THEN shown[r] \cup {e} ELSE shown[r]]

\* The next broadcast runs: the hooks of the port, if there are any, take the chunk,
\* then it is recorded and then sent to the clients.
Broadcast ==
    /\ pending # <<>>
    /\ pending' = Tail(pending)
    /\ Shown(Head(pending).port, Head(pending).event) \/ UNCHANGED shown
    /\ RecordData(Head(pending).port, Head(pending).event)
    /\ UNCHANGED <<open, events, active, made>>

\* A write of a web socket, which waited for its place in the queue perhaps until
\* the port was closed, is recorded.  (Without a recording nothing happens here.)
WebSocketWrote(p) ==
    /\ active[p] # 0 /\ events < MaxEvents
    /\ events' = events + 1
    /\ RecordData(p, [no |-> events', dir |-> "i"])
    /\ UNCHANGED <<open, pending, active, made, shown>>

\* Opening and closing a port leave its recording alone.
OpenPort(p) ==
    /\ p \notin open
    /\ open' = open \cup {p}
    /\ UNCHANGED <<events, pending, active, recs, made, passed, shown>>

ClosePort(p) ==
    /\ p \in open
    /\ open' = open \ {p}
    /\ UNCHANGED <<events, pending, active, recs, made, passed, shown>>

\* The server dies or is stopped, and starts again: nobody stops the recordings,
\* and what is in their buffers is gone, unless the interpreter still closes them.
Restart ==
    /\ open' = {} /\ pending' = <<>>
    /\ active' = [p \in Port |-> 0]
    /\ \E saved \in SUBSET Rec :
          recs' = [r \in Rec |-> IF recs[r].file # "open" THEN recs[r] ELSE
                     [recs[r] EXCEPT !.file = "closed", !.buffer = <<>>,
                                     !.disk = IF r \in saved THEN @ \o recs[r].buffer ELSE @]]
    /\ UNCHANGED <<events, made, passed, shown>>

Next ==
    \/ \E p \in Port : \/ Start(p) \/ Stop(p) \/ Read(p) \/ WebSocketWrote(p)
                       \/ OpenPort(p) \/ ClosePort(p)
    \/ \E r \in Rec : Delete(r)
    \/ Broadcast \/ Restart

Spec == Init /\ [][Next]_vars

-----------------------------------------------------------------------------
(* Properties                                                              *)

TypeOK ==
    /\ open \subseteq Port /\ events \in 0..MaxEvents /\ made \in 0..MaxRecs
    /\ pending \in Seq([port : Port, event : Event])
    /\ active \in [Port -> 0..MaxRecs]
    /\ recs \in [Rec -> [port : Port \cup {NoPort}, file : {"none", "open", "closed"},
                         disk : Seq(Event), buffer : Seq(Event), named : BOOLEAN]]
    /\ passed \in [Rec -> SUBSET Event] /\ shown \in [Rec -> SUBSET Event]

Written(r) == {recs[r].disk[i] : i \in DOMAIN recs[r].disk}

\* What a web client is sent while a recording is active, and what it writes and
\* hears no error of, is in the file, once, and the chunks of the device are there in
\* the order they were read, though flushes fail and are made up for later, ports
\* close and recordings are deleted or cut off by a crash (ws_manager.py:98-114,
\* recording.py:73-77).  Of what hooks have taken see LostOnlyWhenFull.
SeenIsRecorded ==
    \A r \in Rec :
       /\ passed[r] \subseteq Written(r)
       /\ \A i, j \in DOMAIN recs[r].disk :
             LET a == recs[r].disk[i]
                 b == recs[r].disk[j] IN
             i < j => a # b /\ (a.dir = "o" /\ b.dir = "o" => a.no < b.no)

\* A file that is open for recording is the active recording of its own port, so
\* that stop reaches it, and no piece of data goes to two recordings, however
\* ports are closed and opened between start and stop (recording.py:38-64).
OneRecordingAtATime ==
    /\ \A r \in Rec : recs[r].file = "open" => active[recs[r].port] = r
    /\ \A p \in Port : active[p] # 0 =>
          recs[active[p]].file = "open" /\ recs[active[p]].port = p
    /\ \A r, q \in Rec : r # q => Written(r) \cap Written(q) = {}

=============================================================================
