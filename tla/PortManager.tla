---------------------------- MODULE PortManager ----------------------------
(***************************************************************************)
(* serwebs.port_manager.PortManager with the SerialWorkers it creates: the *)
(* registry of open ports, the cached port statuses, the API calls that    *)
(* open and close ports, the device-error handlers that workers spawn, the *)
(* udev loop and the shutdown, all interleaved, while devices are plugged, *)
(* unplugged, locked by other programs and fail.                           *)
(*                                                                         *)
(* Everything runs on one asyncio loop: an action is what a task does      *)
(* between two suspensions.  The awaits that suspend are those of stop()   *)
(* (for the read task and the write task it cancelled) and those that wait *)
(* for slow clients (broadcast_status, broadcast_error, disconnect_all).   *)
(* Opening a serial device does not suspend.                               *)
(***************************************************************************)
EXTENDS Naturals, Sequences, FiniteSets

CONSTANTS Port, NoPort,
          MaxPorts,     \* max_ports
          MaxWorkers,   \* bound: workers created
          MaxCalls,     \* bound: API calls in flight
          UdevCap,      \* size of the queue of the udev monitor thread
          MaxFaults     \* bound: changes of the devices

ASSUME SizesAssumption ==
    /\ {MaxPorts, MaxWorkers, MaxCalls, UdevCap, MaxFaults} \subseteq Nat
    /\ UdevCap > 0
    /\ IsFiniteSet(Port) /\ NoPort \notin Port

Worker == 1..MaxWorkers      \* workers are numbered in the order they start

\* Tasks: the udev loop, the _handle_device_error a worker spawned, the API
\* calls (and the error handlers a failed open spawned), the shutdown.
Udev == 0
Call == MaxWorkers + 1 .. MaxWorkers + MaxCalls
Stopper == MaxWorkers + MaxCalls + 1
Task == 0..Stopper

VARIABLES
  dev,      \* the device of each port: "absent", "free", "locked" (lock file)
  reg,      \* _workers: the worker of each port, 0 when it has none
  status,   \* _ports: the cached status of each port, "none" without entry
  worker,   \* the workers
  made,     \* number of workers created
  task,     \* what each task waits for
  todo,     \* ports the shutdown has still to close
  udevq,    \* events queued by the udev monitor thread
  faults    \* changes of the devices so far

vars == <<dev, reg, status, worker, made, task, todo, udevq, faults>>

Unborn == [port |-> NoPort, running |-> FALSE, rd |-> "done", wr |-> "done",
           link |-> "none", bad |-> FALSE]
Started(p) == [port |-> p, running |-> TRUE, rd |-> "run", wr |-> "run",
               link |-> "open", bad |-> FALSE]

At(kind, pc, p, w) == [kind |-> kind, pc |-> pc, port |-> p, wk |-> w]
Free == At("call", "free", NoPort, 0)

Handling == {"error", "udev"}          \* kinds of tasks in _handle_device_error
Closing == {"close", "shutdown"}       \* kinds of tasks in close_port

\* The server has started and listed the devices; the event of one that had just
\* been plugged in may still be in the queue.
Init ==
    /\ dev \in [Port -> {"absent", "free", "locked"}]
    /\ reg = [p \in Port |-> 0]
    /\ status = [p \in Port |-> CASE dev[p] = "absent" -> "none"
                                  [] dev[p] = "locked" -> "BUSY"
                                  [] dev[p] = "free"   -> "FREE"]
    /\ worker = [w \in Worker |-> Unborn] /\ made = 0
    /\ task = [t \in Task |-> CASE t = Udev    -> At("udev", "idle", NoPort, 0)
                                [] t = Stopper -> At("shutdown", "off", NoPort, 0)
                                [] OTHER       -> Free]
    /\ udevq \in {<<>>} \cup {<<[action |-> "add", port |-> p]>> :
                              p \in {q \in Port : dev[q] # "absent"}}
    /\ todo = {} /\ faults = 0

-----------------------------------------------------------------------------
(* Scanning                                                                *)

\* (A slip: ports that are open but whose device is gone are not kept.)
MutScanned(r) ==
    [p \in Port |-> CASE dev[p] = "absent" -> "none"
                      [] dev[p] # "absent" /\ r[p] # 0 -> "OPEN"
                      [] dev[p] = "locked" /\ r[p] = 0 -> "BUSY"
                      [] dev[p] = "free"   /\ r[p] = 0 -> "FREE"]

\* What scan_ports finds when the registry is r.
Scanned(r) ==
    [p \in Port |-> CASE dev[p] = "absent" /\ r[p] # 0 -> "UNAVAILABLE"
                      [] dev[p] = "absent" /\ r[p] = 0 -> "none"
                      [] dev[p] # "absent" /\ r[p] # 0 -> "OPEN"
                      [] dev[p] = "locked" /\ r[p] = 0 -> "BUSY"
                      [] dev[p] = "free"   /\ r[p] = 0 -> "FREE"]

Serving == task[Stopper].pc = "off"     \* the server still takes requests

\* GET /api/ports and the rename of a port scan; so does a gateway's menu.
ListPorts ==
    /\ Serving
    /\ status' = Scanned(reg)
    /\ UNCHANGED <<dev, reg, worker, made, task, todo, udevq, faults>>

-----------------------------------------------------------------------------
(* open_port                                                               *)

InUse == {p \in Port : reg[p] # 0}

\* The entry open_port goes by: the cached one, or that of a fresh scan.
Looked(p) == IF status[p] = "none" THEN Scanned(reg) ELSE status

MutMayOpen(p) ==
    /\ Serving
    /\ Cardinality(InUse) <= MaxPorts /\ reg[p] = 0

MayOpen(p) ==
    /\ Serving
    /\ Cardinality(InUse) < MaxPorts /\ reg[p] = 0

\* Not found, busy, or no access to the device: the call raises, having scanned
\* when the port was unknown.
OpenRefused(p) ==
    /\ MayOpen(p)
    /\ Looked(p)[p] \in {"none", "BUSY"} \/ dev[p] = "absent"
    /\ status' = Looked(p)
    /\ UNCHANGED <<dev, reg, worker, made, task, todo, udevq, faults>>

Admitted(p) ==
    /\ MayOpen(p)
    /\ Looked(p)[p] \notin {"none", "BUSY"} /\ dev[p] # "absent"

OpenSucceeds(p) ==
    /\ Admitted(p) /\ made < MaxWorkers
    /\ made' = made + 1
    /\ worker' = [worker EXCEPT ![made'] = Started(p)]
    /\ reg' = [reg EXCEPT ![p] = made']
    /\ status' = [Looked(p) EXCEPT ![p] = "OPEN"]
    /\ UNCHANGED <<dev, task, todo, udevq, faults>>

\* The device cannot be opened: start reports the error, which spawns a
\* _handle_device_error, and open_port raises.
OpenFails(p, t) ==
    /\ Admitted(p) /\ task[t] = Free
    /\ task' = [task EXCEPT ![t] = At("error", "notify", p, 0)]
    /\ status' = Looked(p)
    /\ UNCHANGED <<dev, reg, worker, made, todo, udevq, faults>>

-----------------------------------------------------------------------------
(* SerialWorker.stop                                                       *)

\* Where stop() of worker w is suspended first, if it is.
Stage(w) == CASE w = 0 -> "stopped"
              [] w # 0 /\ worker[w].rd = "run" -> "stopRead"
              [] w # 0 /\ worker[w].rd # "run" /\ worker[w].wr = "run" -> "stopWrite"
              [] OTHER -> "stopped"

CloseIf(cond, l) == IF cond THEN "closed" ELSE l

\* A task removes the worker of p from the registry and runs its stop() up to
\* the first suspension.  (A slip: the worker stays registered until it stopped.)
MutPopAndStop(p) ==
    /\ reg' = reg
    /\ worker' = IF reg[p] = 0 THEN worker
                 ELSE [worker EXCEPT
                         ![reg[p]].running = FALSE,
                         ![reg[p]].link = CloseIf(Stage(reg[p]) = "stopped", @)]

\* (A slip: stop() leaves _running set.)
MutStopForgets(p) ==
    /\ reg' = [reg EXCEPT ![p] = 0]
    /\ worker' = IF reg[p] = 0 THEN worker
                 ELSE [worker EXCEPT
                         ![reg[p]].link = CloseIf(Stage(reg[p]) = "stopped", @)]

PopAndStop(p) ==
    /\ reg' = [reg EXCEPT ![p] = 0]
    /\ worker' = IF reg[p] = 0 THEN worker
                 ELSE [worker EXCEPT
                         ![reg[p]].running = FALSE,
                         ![reg[p]].link = CloseIf(Stage(reg[p]) = "stopped", @)]

Rest(kind) == IF kind = "udev" THEN At("udev", "idle", NoPort, 0) ELSE Free

\* Where a task is once its stop() of worker w of port p is at the given stage.
Goes(kind, p, w, stage) ==
    CASE stage # "stopped" -> At(kind, stage, p, w)
      [] stage = "stopped" /\ kind \in Closing -> At(kind, "farewell", p, 0)
      [] stage = "stopped" /\ kind \in Handling -> Rest(kind)

\* A device-error handler ends with a scan.
StatusAt(kind, stage, r) ==
    IF stage = "stopped" /\ kind \in Handling THEN Scanned(r) ELSE status

\* The loop that stop() cancelled has ended.
NextStage(t) ==
    IF task[t].pc = "stopRead" /\ worker[task[t].wk].wr = "run"
      THEN "stopWrite" ELSE "stopped"

\* (A slip: the link is not closed when the write loop was still running.)
MutStopResumes(t) ==
    /\ task[t].pc \in {"stopRead", "stopWrite"}
    /\ worker' = [worker EXCEPT
                    ![task[t].wk].rd = "done",
                    ![task[t].wk].wr = IF task[t].pc = "stopWrite" THEN "done" ELSE @]
    /\ task' = [task EXCEPT ![t] = Goes(@.kind, @.port, @.wk, NextStage(t))]
    /\ status' = StatusAt(task[t].kind, NextStage(t), reg)
    /\ UNCHANGED <<dev, reg, made, todo, udevq, faults>>

StopResumes(t) ==
    /\ task[t].pc \in {"stopRead", "stopWrite"}
    /\ worker' = [worker EXCEPT
                    ![task[t].wk].rd = "done",
                    ![task[t].wk].wr = IF task[t].pc = "stopWrite" THEN "done" ELSE @,
                    ![task[t].wk].link = CloseIf(NextStage(t) = "stopped", @)]
    /\ task' = [task EXCEPT ![t] = Goes(@.kind, @.port, @.wk, NextStage(t))]
    /\ status' = StatusAt(task[t].kind, NextStage(t), reg)
    /\ UNCHANGED <<dev, reg, made, todo, udevq, faults>>

-----------------------------------------------------------------------------
(* close_port                                                              *)

ClosePort(p, t) ==
    /\ Serving /\ reg[p] # 0 /\ task[t] = Free
    /\ PopAndStop(p)
    /\ task' = [task EXCEPT ![t] = Goes("close", p, reg[p], Stage(reg[p]))]
    /\ UNCHANGED <<dev, status, made, todo, udevq, faults>>

\* The clients have been told and closed: the entry of the port becomes FREE.
Freed(p) == IF status[p] = "none" THEN status ELSE [status EXCEPT ![p] = "FREE"]

CloseEnds(t) ==
    /\ task[t].pc = "farewell" /\ task[t].kind = "close"
    /\ status' = Freed(task[t].port)
    /\ task' = [task EXCEPT ![t] = Free]
    /\ UNCHANGED <<dev, reg, worker, made, todo, udevq, faults>>

-----------------------------------------------------------------------------
(* The loops of a worker, and _handle_device_error                         *)

\* A loop of worker w fails with a device error while the worker runs: it
\* reports the error, which spawns a _handle_device_error, and ends.
Report(w) == task' = [task EXCEPT ![w] = At("error", "notify", worker[w].port, 0)]

\* (A slip: the error is reported only when the device is gone.)
MutReadError(w) ==
    /\ worker[w].rd = "run" /\ worker[w].running /\ worker[w].bad
    /\ worker' = [worker EXCEPT ![w].rd = "done", ![w].running = FALSE]
    /\ IF dev[worker[w].port] = "absent" THEN Report(w) ELSE UNCHANGED task
    /\ UNCHANGED <<dev, reg, status, made, todo, udevq, faults>>

ReadError(w) ==
    /\ worker[w].rd = "run" /\ worker[w].running /\ worker[w].bad
    /\ worker' = [worker EXCEPT ![w].rd = "done", ![w].running = FALSE]
    /\ Report(w)
    /\ UNCHANGED <<dev, reg, status, made, todo, udevq, faults>>

WriteError(w) ==
    /\ worker[w].wr = "run" /\ worker[w].running /\ worker[w].bad
    /\ worker' = [worker EXCEPT ![w].wr = "done", ![w].running = FALSE]
    /\ Report(w)
    /\ UNCHANGED <<dev, reg, status, made, todo, udevq, faults>>

\* A loop of a worker that no longer runs ends by itself: the read loop when data
\* or an error comes, the write loop when it has written one more item.
ReadLoopEnds(w) ==
    /\ worker[w].rd = "run" /\ ~worker[w].running
    /\ worker' = [worker EXCEPT ![w].rd = "done"]
    /\ UNCHANGED <<dev, reg, status, made, task, todo, udevq, faults>>

WriteLoopEnds(w) ==
    /\ worker[w].wr = "run" /\ ~worker[w].running
    /\ worker' = [worker EXCEPT ![w].wr = "done"]
    /\ UNCHANGED <<dev, reg, status, made, task, todo, udevq, faults>>

\* The handler has told the clients: it takes whatever worker is registered now.
\* (A slip: it returns at once when it finds the device back.)
MutHandlerPops(t) ==
    /\ task[t].pc = "notify"
    /\ IF dev[task[t].port] = "free"
         THEN /\ task' = [task EXCEPT ![t] = Rest(task[t].kind)]
              /\ UNCHANGED <<reg, worker, status>>
         ELSE LET p == task[t].port  w == reg[p]  kind == task[t].kind IN
              /\ PopAndStop(p)
              /\ task' = [task EXCEPT ![t] = Goes(kind, p, w, Stage(w))]
              /\ status' = StatusAt(kind, Stage(w), reg')
    /\ UNCHANGED <<dev, made, todo, udevq, faults>>

HandlerPops(t) ==
    /\ task[t].pc = "notify"
    /\ LET p == task[t].port  w == reg[p]  kind == task[t].kind IN
       /\ PopAndStop(p)
       /\ task' = [task EXCEPT ![t] = Goes(kind, p, w, Stage(w))]
       /\ status' = StatusAt(kind, Stage(w), reg')
    /\ UNCHANGED <<dev, made, todo, udevq, faults>>

-----------------------------------------------------------------------------
(* The udev loop                                                           *)

UdevEvent ==
    /\ task[Udev].pc = "idle" /\ udevq # <<>>
    /\ udevq' = Tail(udevq)
    /\ LET e == Head(udevq) IN
       IF e.action = "remove" /\ reg[e.port] # 0
         THEN /\ task' = [task EXCEPT ![Udev] = At("udev", "notify", e.port, 0)]
              /\ UNCHANGED status
         ELSE /\ status' = Scanned(reg)
              /\ UNCHANGED task
    /\ UNCHANGED <<dev, reg, worker, made, todo, faults>>

-----------------------------------------------------------------------------
(* shutdown                                                                *)

\* shutdown cancels the udev loop and waits for its end.  The cancellation ends
\* it where it waits for events or clients; inside stop() it is swallowed, by the
\* loop that is awaited there or by the except clause around the await.
Shutdown ==
    /\ Serving /\ \A t \in Call : task[t].kind # "close"
    /\ task' = [task EXCEPT
                  ![Stopper].pc = "awaitUdev",
                  ![Udev].pc = IF @ \in {"idle", "notify"} THEN "ended" ELSE @]
    /\ UNCHANGED <<dev, reg, status, worker, made, todo, udevq, faults>>

\* close_port of one of the given ports up to its first suspension.  (The code
\* takes them in the order of the dictionary.)
CloseNext(ports) ==
    \/ /\ ports = {}
       /\ task' = [task EXCEPT ![Stopper] = At("shutdown", "over", NoPort, 0)]
       /\ todo' = {}
       /\ UNCHANGED <<reg, worker>>
    \/ \E p \in ports :
       /\ PopAndStop(p)
       /\ task' = [task EXCEPT ![Stopper] =
                     Goes("shutdown", p, reg[p], Stage(reg[p]))]
       /\ todo' = ports \ {p}

\* (A slip: only ports whose worker has stopped running are closed, as if
\* a handler would see to the others.)
MutUdevEnded ==
    /\ task[Stopper].pc = "awaitUdev" /\ task[Udev].pc = "ended"
    /\ CloseNext({p \in InUse : ~worker[reg[p]].running})
    /\ UNCHANGED <<dev, status, made, udevq, faults>>

UdevEnded ==
    /\ task[Stopper].pc = "awaitUdev" /\ task[Udev].pc = "ended"
    /\ CloseNext(InUse)
    /\ UNCHANGED <<dev, status, made, udevq, faults>>

ShutdownGoesOn ==
    /\ task[Stopper].pc = "farewell"
    /\ status' = Freed(task[Stopper].port)
    /\ CloseNext(todo)
    /\ UNCHANGED <<dev, made, udevq, faults>>

-----------------------------------------------------------------------------
(* The environment: devices and other programs                             *)

\* The monitor thread drops the event when the queue is full.
Queued(action, p) ==
    IF Len(udevq) < UdevCap THEN Append(udevq, [action |-> action, port |-> p])
    ELSE udevq

Fault == faults < MaxFaults /\ faults' = faults + 1

LinksTo(p) == {w \in Worker : worker[w].link = "open" /\ worker[w].port = p}

Unplug(p) ==
    /\ Fault
    /\ dev[p] # "absent"
    /\ dev' = [dev EXCEPT ![p] = "absent"]
    /\ worker' = [w \in Worker |-> [worker[w] EXCEPT !.bad = @ \/ w \in LinksTo(p)]]
    /\ udevq' = Queued("remove", p)
    /\ UNCHANGED <<reg, status, made, task, todo>>

Plug(p) ==
    /\ Fault
    /\ dev[p] = "absent"
    /\ \E d \in {"free", "locked"} : dev' = [dev EXCEPT ![p] = d]
    /\ udevq' = Queued("add", p)
    /\ UNCHANGED <<reg, status, worker, made, task, todo>>

\* Another program takes or releases the lock file of the device.
Lock(p) ==
    /\ Fault
    /\ dev[p] # "absent"
    /\ dev' = [dev EXCEPT ![p] = IF @ = "free" THEN "locked" ELSE "free"]
    /\ UNCHANGED <<reg, status, worker, made, task, todo, udevq>>

\* The link fails though the device node stays.
Glitch(w) ==
    /\ Fault
    /\ worker[w].link = "open" /\ ~worker[w].bad
    /\ worker' = [worker EXCEPT ![w].bad = TRUE]
    /\ UNCHANGED <<dev, reg, status, made, task, todo, udevq>>

-----------------------------------------------------------------------------
Next ==
    \/ ListPorts
    \/ \E p \in Port : OpenRefused(p) \/ OpenSucceeds(p)
    \/ \E p \in Port, t \in Call : OpenFails(p, t) \/ ClosePort(p, t)
    \/ \E t \in Task : StopResumes(t) \/ CloseEnds(t) \/ HandlerPops(t)
    \/ \E w \in Worker : ReadError(w) \/ WriteError(w)
    \/ \E w \in Worker : ReadLoopEnds(w) \/ WriteLoopEnds(w)
    \/ UdevEvent \/ Shutdown \/ UdevEnded \/ ShutdownGoesOn
    \/ \E p \in Port : Unplug(p) \/ Plug(p) \/ Lock(p)
    \/ \E w \in Worker : Glitch(w)

Spec == Init /\ [][Next]_vars

\* A task whose await is over is resumed; a failed link fails the read that
\* waits on it; clients that stall are dropped, so notify and farewell end.
Fairness ==
    /\ \A t \in Task : /\ WF_vars(StopResumes(t)) /\ WF_vars(CloseEnds(t))
                       /\ WF_vars(HandlerPops(t))
    /\ \A w \in Worker : WF_vars(ReadError(w))
    /\ WF_vars(UdevEvent) /\ WF_vars(UdevEnded) /\ WF_vars(ShutdownGoesOn)

FairSpec == Spec /\ Fairness

-----------------------------------------------------------------------------
(* Properties                                                              *)

PortStatus == {"none", "FREE", "OPEN", "BUSY", "UNAVAILABLE"}
Pc == {"free", "idle", "ended", "notify", "stopRead", "stopWrite", "farewell",
       "off", "awaitUdev", "over"}

Event == [action : {"add", "remove"}, port : Port]

\* Every variable has its type.
TypeOK ==
    /\ dev \in [Port -> {"absent", "free", "locked"}]
    /\ reg \in [Port -> 0..MaxWorkers]
    /\ status \in [Port -> PortStatus]
    /\ worker \in [Worker -> [port : Port \cup {NoPort}, running : BOOLEAN,
                              rd : {"run", "done"}, wr : {"run", "done"},
                              link : {"none", "open", "closed"}, bad : BOOLEAN]]
    /\ made \in 0..MaxWorkers
    /\ task \in [Task -> [kind : {"call", "close", "error", "udev", "shutdown"},
                          pc : Pc, port : Port \cup {NoPort}, wk : 0..MaxWorkers]]
    /\ todo \subseteq Port
    /\ udevq \in Seq(Event)
    /\ faults \in 0..MaxFaults

HasPort(w) == \E p \in Port : reg[p] = w

Stopping(w) == {t \in Task : task[t].pc \in {"stopRead", "stopWrite"}
                             /\ task[t].wk = w}

\* A running worker is the registered worker of its port: once close_port or an
\* error handler took it from the registry, no second worker of the port ever
\* runs beside it, however opens, closes and handlers interleave.
RunningIsRegistered ==
    \A w \in Worker : worker[w].running => reg[worker[w].port] = w

\* An open link is that of a registered worker, or exactly one task is stopping
\* its worker: no link is leaked and none is torn down twice (lines 133 and 150).
NoOrphanLink ==
    \A w \in Worker :
       worker[w].link = "open" =>
          Cardinality(Stopping(w)) = IF HasPort(w) THEN 0 ELSE 1

\* A registered worker that stopped running has a handler on its way that will
\* take it from the registry: a port never stays open with a dead worker.
DeadIsBeingHandled ==
    \A p \in Port :
       reg[p] # 0 /\ ~worker[reg[p]].running =>
          \E t \in Task : task[t].pc = "notify" /\ task[t].port = p

\* No more than max_ports ports are open at a time (README "Max simultaneously
\* open ports"), whatever handlers and closes are in flight.
PortLimit == Cardinality(InUse) <= MaxPorts

\* A port that is open never drops out of the cached list, though every scan
\* rebuilds the list from the devices that are present.
OpenIsListed ==
    \A p \in Port : reg[p] # 0 => status[p] # "none"

\* When the shutdown is over, no port is open, and a link that is still open is
\* being closed by a handler that had taken its worker before.
ShutdownReleases ==
    task[Stopper].pc = "over" =>
       /\ InUse = {}
       /\ \A w \in Worker : worker[w].link = "open" => Stopping(w) # {}

\* The link of a worker that was taken from the registry is closed eventually.
LinkIsReleased ==
    \A w \in Worker : (w <= made /\ ~HasPort(w)) ~> worker[w].link = "closed"

\* A worker whose device fails is taken from the registry eventually, also when
\* the udev queue dropped the event.
BrokenIsUnregistered ==
    \A w \in Worker : worker[w].bad ~> ~HasPort(w)

-----------------------------------------------------------------------------
(* What the documentation says and the code does not do                    *)

\* "Gracefully close all ports and stop monitoring.": a shutdown ends.
ShutdownEnds == task[Stopper].pc = "awaitUdev" ~> task[Stopper].pc = "over"
=============================================================================
