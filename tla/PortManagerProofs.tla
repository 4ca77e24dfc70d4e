------------------------- MODULE PortManagerProofs -------------------------
(***************************************************************************)
(* For every number of ports, workers, calls and faults: the registry, the *)
(* workers, their links and the tasks that handle them stay consistent     *)
(* under every interleaving.                                               *)
(***************************************************************************)
EXTENDS PortManager, FiniteSetTheorems, SequenceTheorems, TLAPS

InStop(t) == task[t].pc \in {"stopRead", "stopWrite"}

\* What a task that is at work knows about its port.
TaskShape ==
    \A t \in Task :
       /\ task[t].pc = "notify" => /\ task[t].port \in Port
                                   /\ task[t].kind \in Handling
       /\ task[t].pc = "farewell" => task[t].port \in Port
       /\ InStop(t) => /\ task[t].port \in Port
                       /\ task[t].kind \in Handling \cup Closing

\* A registered worker has been started for its port and its link is open.
RegisteredIsOpen ==
    \A p \in Port : reg[p] # 0 =>
       /\ reg[p] <= made
       /\ worker[reg[p]].port = p
       /\ worker[reg[p]].link = "open"

\* A running worker is registered, under its own port.
RunningHasPort ==
    \A w \in Worker : worker[w].running =>
       worker[w].port \in Port /\ reg[worker[w].port] = w

\* The handler a worker spawns is free until the worker stops running.
ReporterIdle ==
    \A w \in Worker : worker[w].running \/ w > made => task[w].pc = "free"

\* A registered worker that does not run is awaited by the handler it spawned.
ReporterWillPop ==
    \A p \in Port : reg[p] # 0 /\ ~worker[reg[p]].running =>
       task[reg[p]].pc = "notify" /\ task[reg[p]].port = p

\* A task in stop() has taken its worker from the registry and will close its link.
StopperOwns ==
    \A t \in Task : InStop(t) =>
       /\ task[t].wk \in Worker /\ task[t].wk <= made
       /\ worker[task[t].wk].link = "open"
       /\ \A p \in Port : reg[p] # task[t].wk

\* No worker is stopped by two tasks.
OneStopper ==
    \A t, u \in Task :
       InStop(t) /\ InStop(u) /\ task[t].wk = task[u].wk => t = u

\* An open link belongs to a registered worker or to one that is being stopped.
OpenIsOwned ==
    \A w \in Worker : worker[w].link = "open" =>
       \/ \E p \in Port : reg[p] = w
       \/ \E t \in Task : InStop(t) /\ task[t].wk = w

Core == /\ TaskShape /\ RegisteredIsOpen /\ RunningHasPort /\ ReporterIdle
        /\ ReporterWillPop /\ StopperOwns /\ OneStopper /\ OpenIsOwned

\* The inductive invariant.
IInv == TypeOK /\ Core

TaskType == [kind : {"call", "close", "error", "udev", "shutdown"},
             pc : Pc, port : Port \cup {NoPort}, wk : 0..MaxWorkers]
WorkerType == [port : Port \cup {NoPort}, running : BOOLEAN,
               rd : {"run", "done"}, wr : {"run", "done"},
               link : {"none", "open", "closed"}, bad : BOOLEAN]

-----------------------------------------------------------------------------
(* The helpers                                                             *)

\* Tasks are numbered apart: the handlers that workers spawn, the API calls, the
\* udev loop and the shutdown.
LEMMA TaskNumbers ==
    /\ Worker \subseteq Task /\ Call \subseteq Task
    /\ Udev \in Task /\ Stopper \in Task
    /\ Udev \notin Worker /\ Stopper \notin Worker
    /\ Worker \cap Call = {}
BY SizesAssumption DEF Worker, Call, Udev, Stopper, Task

\* scan_ports gives every port a status.
LEMMA ScannedType ==
    ASSUME TypeOK, NEW r \in [Port -> 0..MaxWorkers]
    PROVE  Scanned(r) \in [Port -> PortStatus]
<1> SUFFICES ASSUME NEW p \in Port PROVE Scanned(r)[p] \in PortStatus
  BY DEF Scanned
<1>1. dev[p] \in {"absent", "free", "locked"}
  BY DEF TypeOK
<1> QED BY <1>1 DEF Scanned, PortStatus

\* Where a task goes after stop(): it waits for the loop, says farewell, or rests.
LEMMA GoesSomewhere ==
    ASSUME NEW kind \in Handling \cup Closing, NEW p \in Port,
           NEW w \in 0..MaxWorkers,
           NEW stage \in {"stopRead", "stopWrite", "stopped"}
    PROVE  /\ Goes(kind, p, w, stage) \in TaskType
           /\ stage # "stopped" =>
                 Goes(kind, p, w, stage) = At(kind, stage, p, w)
           /\ stage = "stopped" =>
                 /\ Goes(kind, p, w, stage).pc \in {"farewell", "idle", "free"}
                 /\ Goes(kind, p, w, stage).pc = "farewell" =>
                       Goes(kind, p, w, stage).port = p
<1>1. CASE stage # "stopped"
  BY <1>1 DEF Goes, At, TaskType, Pc, Handling, Closing
<1>2. CASE stage = "stopped" /\ kind \in Closing
  BY <1>2, SizesAssumption DEF Goes, At, TaskType, Pc, Handling, Closing
<1>3. CASE stage = "stopped" /\ kind \in Handling
  BY <1>3, SizesAssumption DEF Goes, Rest, Free, At, TaskType, Pc, Handling, Closing
<1> QED BY <1>1, <1>2, <1>3

LEMMA StageType ==
    ASSUME NEW w
    PROVE  Stage(w) \in {"stopRead", "stopWrite", "stopped"}
BY DEF Stage

\* What taking the worker of a port from the registry does: the worker no longer
\* runs, its link is closed at once only if both loops had ended.
LEMMA PopEffect ==
    ASSUME TypeOK, NEW p \in Port, PopAndStop(p)
    PROVE  /\ reg' \in [Port -> 0..MaxWorkers]
           /\ reg'[p] = 0
           /\ \A q \in Port : q # p => reg'[q] = reg[q]
           /\ worker' \in [Worker -> WorkerType]
           /\ \A v \in Worker : v # reg[p] => worker'[v] = worker[v]
           /\ \A v \in Worker : v = reg[p] =>
                 /\ ~worker'[v].running
                 /\ worker'[v].port = worker[v].port
                 /\ worker'[v].link =
                       IF Stage(v) = "stopped" THEN "closed" ELSE worker[v].link
<1>1. reg' = [reg EXCEPT ![p] = 0] /\ reg \in [Port -> 0..MaxWorkers]
  BY DEF PopAndStop, TypeOK
<1>2. 0 \in 0..MaxWorkers
  BY SizesAssumption
<1>3. reg' \in [Port -> 0..MaxWorkers] /\ reg'[p] = 0
  BY <1>1, <1>2
<1>4. \A q \in Port : q # p => reg'[q] = reg[q]
  BY <1>1
<1>5. worker \in [Worker -> WorkerType]
  BY DEF TypeOK, WorkerType
<1>6. CASE reg[p] = 0
  <2>1. worker' = worker /\ 0 \notin Worker
    BY <1>6 DEF PopAndStop, Worker
  <2> QED BY <2>1, <1>3, <1>4, <1>5, <1>6
<1>7. CASE reg[p] # 0
  <2>1. reg[p] \in Worker
    BY <1>7, <1>1 DEF Worker
  <2>2. worker' = [worker EXCEPT
                     ![reg[p]].running = FALSE,
                     ![reg[p]].link = CloseIf(Stage(reg[p]) = "stopped", @)]
    BY <1>7 DEF PopAndStop
  <2>3. PICK w \in Worker : w = reg[p]
    BY <2>1
  <2>4. PICK l \in {"none", "open", "closed"} :
           l = IF Stage(w) = "stopped" THEN "closed" ELSE worker[w].link
    BY <1>5 DEF WorkerType
  <2>5. worker' = [worker EXCEPT ![w] =
                     [worker[w] EXCEPT !.running = FALSE, !.link = l]]
    BY <2>2, <2>3, <2>4, <1>5 DEF CloseIf, WorkerType
  <2>6. [worker[w] EXCEPT !.running = FALSE, !.link = l] \in WorkerType
    BY <1>5 DEF WorkerType
  <2>7. worker' \in [Worker -> WorkerType]
    BY <2>5, <2>6, <1>5
  <2>8. \A v \in Worker : v # w => worker'[v] = worker[v]
    BY <2>5, <1>5
  <2>9. /\ ~worker'[w].running /\ worker'[w].port = worker[w].port
        /\ worker'[w].link = l
    BY <2>5, <1>5 DEF WorkerType
  <2> QED BY <2>3, <2>4, <2>7, <2>8, <2>9, <1>3, <1>4
<1> QED BY <1>6, <1>7

\* A task that was in no stop() takes the worker of a port from the registry and
\* goes on: nothing is lost track of.  The task may be the handler of a worker
\* only if it is handling this port.
LEMMA PopKeepsCore ==
    ASSUME TypeOK, Core, NEW p \in Port, NEW t \in Task,
           NEW kind \in Handling \cup Closing,
           ~InStop(t), t \in Worker => task[t].pc = "notify" /\ task[t].port = p,
           PopAndStop(p), made' = made,
           task' = [task EXCEPT ![t] = Goes(kind, p, reg[p], Stage(reg[p]))]
    PROVE  Core'
<1> DEFINE g == Goes(kind, p, reg[p], Stage(reg[p]))
<1>1. /\ reg' \in [Port -> 0..MaxWorkers]
      /\ reg'[p] = 0
      /\ \A q \in Port : q # p => reg'[q] = reg[q]
      /\ worker' \in [Worker -> WorkerType]
      /\ \A v \in Worker : v # reg[p] => worker'[v] = worker[v]
      /\ \A v \in Worker : v = reg[p] =>
            /\ ~worker'[v].running
            /\ worker'[v].port = worker[v].port
            /\ worker'[v].link =
                  IF Stage(v) = "stopped" THEN "closed" ELSE worker[v].link
  BY PopEffect
<1>2. /\ reg \in [Port -> 0..MaxWorkers] /\ worker \in [Worker -> WorkerType]
      /\ task \in [Task -> TaskType] /\ made \in 0..MaxWorkers
  BY DEF TypeOK, WorkerType, TaskType
<1>3. Stage(reg[p]) \in {"stopRead", "stopWrite", "stopped"}
  BY StageType
<1>4. /\ g \in TaskType
      /\ Stage(reg[p]) # "stopped" => g = At(kind, Stage(reg[p]), p, reg[p])
      /\ Stage(reg[p]) = "stopped" =>
            /\ g.pc \in {"farewell", "idle", "free"}
            /\ g.pc = "farewell" => g.port = p
  BY <1>2, <1>3, GoesSomewhere
<1>5. task'[t] = g /\ \A u \in Task : u # t => task'[u] = task[u]
  BY <1>2
<1>6. \A v \in Worker : v = reg[p] => v <= made /\ worker[v].link = "open"
                                      /\ worker[v].port = p
  BY DEF Core, RegisteredIsOpen, Worker
<1>7. \A q, r \in Port : reg[q] = reg[r] /\ reg[q] # 0 => q = r
  BY <1>2 DEF Core, RegisteredIsOpen
<1>8. Stage(reg[p]) # "stopped" => reg[p] \in Worker
  BY <1>2 DEF Stage, Worker
<1> HIDE DEF g
<1>9. TaskShape'
  BY <1>3, <1>4, <1>5 DEF Core, TaskShape, InStop, At
<1>10. RegisteredIsOpen'
  BY <1>1, <1>2, <1>7 DEF Core, RegisteredIsOpen, Worker
<1>11. RunningHasPort'
  BY <1>1, <1>2, <1>6 DEF Core, RunningHasPort, Worker
<1>12. ReporterIdle'
  BY <1>1, <1>2, <1>5, <1>6, TaskNumbers DEF Core, ReporterIdle, ReporterWillPop, RunningHasPort
<1>13. ReporterWillPop'
  <2> SUFFICES ASSUME NEW q \in Port, reg'[q] # 0, ~worker'[reg'[q]].running
               PROVE  task'[reg'[q]].pc = "notify" /\ task'[reg'[q]].port = q
    BY DEF ReporterWillPop
  <2>1. q # p /\ reg'[q] = reg[q] /\ reg[q] # reg[p]
    BY <1>1, <1>7
  <2>2. reg[q] \in Worker /\ reg[q] \in Task
    BY <2>1, <1>2, TaskNumbers DEF Worker
  <2>3. worker'[reg[q]] = worker[reg[q]]
    BY <2>1, <2>2, <1>1
  <2>4. task[reg[q]].pc = "notify" /\ task[reg[q]].port = q
    BY <2>1, <2>3 DEF Core, ReporterWillPop
  <2>5. task'[reg[q]] = task[reg[q]]
    BY <2>1, <2>2, <2>4, <1>5
  <2> QED BY <2>1, <2>4, <2>5
<1>14. StopperOwns'
  BY <1>1, <1>2, <1>3, <1>4, <1>5, <1>6, <1>7, <1>8 DEF Core, StopperOwns, InStop, At, Worker
<1>15. OneStopper'
  BY <1>3, <1>4, <1>5, <1>8 DEF Core, OneStopper, StopperOwns, InStop, At
<1>16. OpenIsOwned'
  <2> SUFFICES ASSUME NEW w \in Worker, worker'[w].link = "open"
               PROVE  \/ \E q \in Port : reg'[q] = w
                      \/ \E u \in Task : InStop(u)' /\ task'[u].wk = w
    BY DEF OpenIsOwned
  <2>1. CASE w = reg[p]
    <3>1. Stage(w) # "stopped"
      BY <1>1, <2>1
    <3>2. InStop(t)' /\ task'[t].wk = w
      BY <3>1, <2>1, <1>3, <1>4, <1>5 DEF InStop, At
    <3> QED BY <3>2
  <2>2. CASE w # reg[p]
    <3>1. worker[w].link = "open"
      BY <1>1, <2>2
    <3>2. CASE \E q \in Port : reg[q] = w
      BY <3>2, <2>2, <1>1
    <3>3. CASE \E u \in Task : InStop(u) /\ task[u].wk = w
      BY <3>3, <1>5 DEF InStop
    <3> QED BY <3>1, <3>2, <3>3 DEF Core, OpenIsOwned
  <2> QED BY <2>1, <2>2
<1> QED
  BY <1>9, <1>10, <1>11, <1>12, <1>13, <1>14, <1>15, <1>16 DEF Core

\* A step that leaves the registry, the tasks and what Core says of the workers
\* alone: scans, changes of the devices, loops that end by themselves.
LEMMA QuietKeepsCore ==
    ASSUME Core, UNCHANGED <<reg, made, task>>,
           \A w \in Worker : /\ worker'[w].port = worker[w].port
                             /\ worker'[w].running = worker[w].running
                             /\ worker'[w].link = worker[w].link,
           reg \in [Port -> 0..MaxWorkers]
    PROVE  Core'
<1>1. \A p \in Port : reg[p] # 0 => reg[p] \in Worker
  BY DEF Worker
<1>2. TaskShape' /\ OneStopper'
  BY DEF Core, TaskShape, OneStopper, InStop
<1>3. RegisteredIsOpen'
  BY <1>1 DEF Core, RegisteredIsOpen
<1>4. RunningHasPort' /\ ReporterIdle'
  BY DEF Core, RunningHasPort, ReporterIdle
<1>5. ReporterWillPop'
  BY <1>1 DEF Core, ReporterWillPop
<1>6. StopperOwns'
  BY DEF Core, StopperOwns, InStop
<1>7. OpenIsOwned'
  BY DEF Core, OpenIsOwned, InStop
<1> QED BY <1>2, <1>3, <1>4, <1>5, <1>6, <1>7 DEF Core

\* A task that is not stopping a worker moves to a place where it is not either,
\* and is no handler that a worker counts on.
LEMMA TaskKeepsCore ==
    ASSUME TypeOK, Core, UNCHANGED <<reg, made, worker>>,
           NEW t \in Task, NEW g \in TaskType, ~InStop(t),
           task' = [task EXCEPT ![t] = g],
           g.pc \notin {"stopRead", "stopWrite"},
           g.pc = "notify" => g.port \in Port /\ g.kind \in Handling,
           g.pc = "farewell" => g.port \in Port,
           t \in Worker => task[t].pc = "farewell" /\ g.pc = "free"
    PROVE  Core'
<1>1. task'[t] = g /\ \A u \in Task : u # t => task'[u] = task[u]
  BY DEF TypeOK
<1>2. \A u \in Task : InStop(u)' <=> InStop(u)
  BY <1>1 DEF InStop
<1>3. \A u \in Task : InStop(u) => task'[u] = task[u]
  BY <1>1
<1>4. \A p \in Port : reg[p] # 0 => reg[p] \in Worker
  BY DEF TypeOK, Worker
<1>5. TaskShape'
  BY <1>1 DEF Core, TaskShape, InStop
<1>6. RegisteredIsOpen' /\ RunningHasPort'
  BY DEF Core, RegisteredIsOpen, RunningHasPort
<1>7. ReporterIdle'
  BY <1>1, TaskNumbers DEF Core, ReporterIdle
<1>8. ReporterWillPop'
  BY <1>1, <1>4, TaskNumbers DEF Core, ReporterWillPop
<1>9. StopperOwns'
  BY <1>2, <1>3 DEF Core, StopperOwns
<1>10. OneStopper'
  BY <1>2, <1>3 DEF Core, OneStopper
<1>11. OpenIsOwned'
  BY <1>2, <1>3 DEF Core, OpenIsOwned
<1> QED BY <1>5, <1>6, <1>7, <1>8, <1>9, <1>10, <1>11 DEF Core

-----------------------------------------------------------------------------
(* The steps                                                               *)

\* A new worker is registered, runs, and counts on nothing.
LEMMA OpenSucceedsKeepsCore ==
    ASSUME TypeOK, Core, NEW p \in Port, OpenSucceeds(p)
    PROVE  Core'
<1> DEFINE n == made + 1
<1>1. /\ n \in Worker /\ made' = n /\ UNCHANGED task /\ reg[p] = 0
      /\ made \in Nat
  BY SizesAssumption DEF OpenSucceeds, Admitted, MayOpen, TypeOK, Worker
<1>2. /\ reg'[p] = n /\ \A q \in Port : q # p => reg'[q] = reg[q]
      /\ reg \in [Port -> 0..MaxWorkers]
  BY <1>1 DEF OpenSucceeds, TypeOK
<1>3. /\ worker'[n] = Started(p)
      /\ \A w \in Worker : w # n => worker'[w] = worker[w]
  BY <1>1 DEF OpenSucceeds, TypeOK
<1>4. \A q \in Port : reg[q] # 0 => reg[q] \in Worker /\ reg[q] <= made /\ reg[q] # n
  BY <1>1, <1>2 DEF Core, RegisteredIsOpen, Worker
<1>5. worker'[n].port = p /\ worker'[n].running /\ worker'[n].link = "open"
  BY <1>3 DEF Started
<1>6. \A w \in Worker : w > n => w > made /\ w # n
  BY <1>1 DEF Worker
<1>7. n > made /\ n # 0
  BY <1>1
<1> HIDE DEF n
<1>8. TaskShape' /\ OneStopper'
  BY <1>1 DEF Core, TaskShape, OneStopper, InStop
<1>9. RegisteredIsOpen'
  <2>1. \A q \in Port : q # p /\ reg'[q] # 0 => reg'[q] <= made'
    BY <1>1, <1>2, <1>4, <1>7 DEF Worker
  <2>2. n <= made'
    BY <1>1 DEF Worker
  <2> QED BY <2>1, <2>2, <1>2, <1>3, <1>4, <1>5 DEF Core, RegisteredIsOpen
<1>10. RunningHasPort'
  <2> SUFFICES ASSUME NEW w \in Worker, worker'[w].running
               PROVE  worker'[w].port \in Port /\ reg'[worker'[w].port] = w
    BY DEF RunningHasPort
  <2>1. CASE w = n
    BY <2>1, <1>2, <1>5
  <2>2. CASE w # n
    <3>1. worker[w].port \in Port /\ reg[worker[w].port] = w /\ worker'[w] = worker[w]
      BY <2>2, <1>3 DEF Core, RunningHasPort
    <3>2. worker[w].port # p
      BY <3>1, <1>1 DEF Worker
    <3> QED BY <3>1, <3>2, <1>2
  <2> QED BY <2>1, <2>2
<1>11. ReporterIdle'
  <2>1. task[n].pc = "free"
    BY <1>1, <1>7 DEF Core, ReporterIdle
  <2> QED BY <2>1, <1>1, <1>3, <1>6 DEF Core, ReporterIdle
<1>12. ReporterWillPop'
  BY <1>1, <1>2, <1>3, <1>4, <1>5 DEF Core, ReporterWillPop
<1>13. StopperOwns'
  <2> SUFFICES ASSUME NEW t \in Task, InStop(t)
               PROVE  /\ task[t].wk \in Worker /\ task[t].wk <= made'
                      /\ worker'[task[t].wk].link = "open"
                      /\ \A q \in Port : reg'[q] # task[t].wk
    BY <1>1 DEF StopperOwns, InStop
  <2>1. /\ task[t].wk \in Worker /\ task[t].wk <= made
        /\ worker[task[t].wk].link = "open"
        /\ \A q \in Port : reg[q] # task[t].wk
    BY DEF Core, StopperOwns
  <2>2. task[t].wk # n /\ task[t].wk <= n
    BY <2>1, <1>1 DEF Worker, n
  <2> QED BY <2>1, <2>2, <1>1, <1>2, <1>3
<1>14. OpenIsOwned'
  BY <1>1, <1>2, <1>3, <1>4 DEF Core, OpenIsOwned, InStop, Worker
<1> QED
  BY <1>8, <1>9, <1>10, <1>11, <1>12, <1>13, <1>14 DEF Core

\* A failing loop of a running worker: the worker stops running and the handler
\* it spawns will take it from the registry.
LEMMA ReportKeepsCore ==
    ASSUME TypeOK, Core, NEW w \in Worker, worker[w].running, Report(w),
           UNCHANGED <<reg, made>>,
           \A v \in Worker : v # w => worker'[v] = worker[v],
           ~worker'[w].running, worker'[w].port = worker[w].port,
           worker'[w].link = worker[w].link
    PROVE  Core'
<1> DEFINE g == At("error", "notify", worker[w].port, 0)
<1>1. w \in Task /\ task'[w] = g /\ \A u \in Task : u # w => task'[u] = task[u]
  BY TaskNumbers DEF Report, TypeOK
<1>2. worker[w].port \in Port /\ reg[worker[w].port] = w
  BY DEF Core, RunningHasPort
<1>3. task[w].pc = "free"
  BY DEF Core, ReporterIdle
<1>4. w <= made /\ made \in Nat
  BY <1>2 DEF Core, RegisteredIsOpen, Worker, TypeOK
<1>5. g.pc = "notify" /\ g.port = worker[w].port /\ g.kind \in Handling
  BY DEF At, Handling
<1>6. \A u \in Task : (InStop(u)' <=> InStop(u)) /\ (InStop(u) => task'[u] = task[u])
  BY <1>1, <1>3, <1>5 DEF InStop
<1>7. \A p \in Port : reg[p] # 0 => reg[p] \in Worker
  BY DEF TypeOK, Worker
<1> HIDE DEF g
<1>8. TaskShape'
  BY <1>1, <1>2, <1>5 DEF Core, TaskShape, InStop
<1>9. RegisteredIsOpen'
  BY <1>7 DEF Core, RegisteredIsOpen
<1>10. RunningHasPort'
  BY DEF Core, RunningHasPort
<1>11. ReporterIdle'
  BY <1>1, <1>4, TaskNumbers DEF Core, ReporterIdle, Worker
<1>12. ReporterWillPop'
  BY <1>1, <1>2, <1>5, <1>7, TaskNumbers DEF Core, ReporterWillPop, RegisteredIsOpen
<1>13. StopperOwns'
  BY <1>6 DEF Core, StopperOwns
<1>14. OneStopper'
  BY <1>6 DEF Core, OneStopper
<1>15. OpenIsOwned'
  BY <1>6 DEF Core, OpenIsOwned
<1> QED
  BY <1>8, <1>9, <1>10, <1>11, <1>12, <1>13, <1>14, <1>15 DEF Core

\* What stop() does when the loop it waited for has ended.
LEMMA StopEffect ==
    ASSUME TypeOK, Core, NEW t \in Task, StopResumes(t)
    PROVE  /\ task[t].wk \in Worker
           /\ worker' \in [Worker -> WorkerType]
           /\ \A v \in Worker : v # task[t].wk => worker'[v] = worker[v]
           /\ worker'[task[t].wk].port = worker[task[t].wk].port
           /\ worker'[task[t].wk].running = worker[task[t].wk].running
           /\ worker'[task[t].wk].link =
                 IF NextStage(t) = "stopped" THEN "closed"
                 ELSE worker[task[t].wk].link
<1>1. PICK w \in Worker : w = task[t].wk
  BY DEF StopResumes, Core, StopperOwns, InStop
<1>2. worker \in [Worker -> WorkerType]
  BY DEF TypeOK, WorkerType
<1>3. PICK l \in {"none", "open", "closed"} :
         l = IF NextStage(t) = "stopped" THEN "closed" ELSE worker[w].link
  BY <1>2 DEF WorkerType
<1>4. PICK x \in {"run", "done"} :
         x = IF task[t].pc = "stopWrite" THEN "done" ELSE worker[w].wr
  BY <1>2 DEF WorkerType
<1>5. worker' = [worker EXCEPT ![w] =
                   [worker[w] EXCEPT !.rd = "done", !.wr = x, !.link = l]]
  BY <1>1, <1>2, <1>3, <1>4 DEF StopResumes, CloseIf, WorkerType
<1>6. [worker[w] EXCEPT !.rd = "done", !.wr = x, !.link = l] \in WorkerType
  BY <1>2 DEF WorkerType
<1>7. /\ worker'[w].port = worker[w].port /\ worker'[w].running = worker[w].running
      /\ worker'[w].link = l
  BY <1>2, <1>5 DEF WorkerType
<1>8. \A v \in Worker : v # w => worker'[v] = worker[v]
  BY <1>5, <1>2
<1>9. worker' \in [Worker -> WorkerType]
  BY <1>5, <1>6, <1>2
<1> QED BY <1>1, <1>3, <1>7, <1>8, <1>9

\* The task stays the only stopper of its worker until it has closed the link.
LEMMA StopResumesKeepsCore ==
    ASSUME TypeOK, Core, NEW t \in Task, StopResumes(t)
    PROVE  Core'
<1> DEFINE g == Goes(task[t].kind, task[t].port, task[t].wk, NextStage(t))
<1>1. PICK w \in Worker : w = task[t].wk
  BY DEF StopResumes, Core, StopperOwns, InStop
<1>2. /\ \A v \in Worker : v # w => worker'[v] = worker[v]
      /\ worker'[w].port = worker[w].port
      /\ worker'[w].running = worker[w].running
      /\ worker'[w].link = IF NextStage(t) = "stopped" THEN "closed"
                           ELSE worker[w].link
  BY <1>1, StopEffect
<1>3. /\ InStop(t) /\ task[t].port \in Port /\ task[t].kind \in Handling \cup Closing
      /\ task[t].wk \in 0..MaxWorkers
  BY DEF StopResumes, InStop, Core, TaskShape, TypeOK
<1>4. NextStage(t) \in {"stopRead", "stopWrite", "stopped"}
  BY DEF NextStage
<1>5. /\ g \in TaskType
      /\ NextStage(t) # "stopped" => g = At(task[t].kind, NextStage(t), task[t].port, w)
      /\ NextStage(t) = "stopped" =>
            /\ g.pc \in {"farewell", "idle", "free"}
            /\ g.pc = "farewell" => g.port = task[t].port
  BY <1>1, <1>3, <1>4, GoesSomewhere
<1>6. UNCHANGED <<reg, made>> /\ task \in [Task -> TaskType]
  BY DEF StopResumes, TypeOK, TaskType
<1>7. task'[t] = g /\ \A u \in Task : u # t => task'[u] = task[u]
  BY <1>6 DEF StopResumes
<1> HIDE DEF g
<1>8. \A u \in Task : InStop(u) /\ task[u].wk = w => u = t
  BY <1>1, <1>3 DEF Core, OneStopper
<1>9. \A p \in Port : reg[p] # w
  BY <1>1, <1>3 DEF Core, StopperOwns
<1>10. \A p \in Port : reg[p] # 0 => reg[p] \in Worker
  BY DEF TypeOK, Worker
<1>11. TaskShape'
  BY <1>3, <1>4, <1>5, <1>7 DEF Core, TaskShape, InStop, At
<1>12. RegisteredIsOpen'
  BY <1>2, <1>6, <1>9, <1>10 DEF Core, RegisteredIsOpen
<1>13. RunningHasPort'
  BY <1>2, <1>6 DEF Core, RunningHasPort
<1>14. ReporterIdle'
  <2>1. ~worker[w].running /\ w <= made
    BY <1>1, <1>3, <1>9 DEF Core, RunningHasPort, StopperOwns
  <2>2. \A v \in Worker : v # w /\ (worker[v].running \/ v > made) => v # t
    BY <1>3 DEF Core, ReporterIdle, InStop
  <2>3. ~(w > made)
    BY <2>1 DEF TypeOK, Worker
  <2> QED BY <2>1, <2>2, <2>3, <1>2, <1>6, <1>7, TaskNumbers DEF Core, ReporterIdle
<1>15. ReporterWillPop'
  BY <1>2, <1>3, <1>6, <1>7, <1>9, <1>10, TaskNumbers
     DEF Core, ReporterWillPop, InStop
<1>16. StopperOwns'
  <2> SUFFICES ASSUME NEW u \in Task, InStop(u)'
               PROVE  /\ task'[u].wk \in Worker /\ task'[u].wk <= made
                      /\ worker'[task'[u].wk].link = "open"
                      /\ \A p \in Port : reg[p] # task'[u].wk
    BY <1>6 DEF StopperOwns
  <2>1. CASE u = t
    <3>1. NextStage(t) # "stopped"
      BY <2>1, <1>5, <1>7 DEF InStop
    <3>2. task'[t].wk = w
      BY <3>1, <1>5, <1>7 DEF At
    <3> QED BY <3>1, <3>2, <2>1, <1>1, <1>2, <1>3 DEF Core, StopperOwns
  <2>2. CASE u # t
    <3>1. InStop(u) /\ task'[u] = task[u] /\ task[u].wk # w
      BY <2>2, <1>7, <1>8 DEF InStop
    <3> QED BY <3>1, <1>2 DEF Core, StopperOwns
  <2> QED BY <2>1, <2>2
<1>17. OneStopper'
  BY <1>1, <1>3, <1>5, <1>7, <1>8 DEF Core, OneStopper, InStop, At
<1>18. OpenIsOwned'
  <2> SUFFICES ASSUME NEW v \in Worker, worker'[v].link = "open"
               PROVE  \/ \E q \in Port : reg[q] = v
                      \/ \E u \in Task : InStop(u)' /\ task'[u].wk = v
    BY <1>6 DEF OpenIsOwned
  <2>1. CASE v = w
    <3>1. NextStage(t) # "stopped"
      BY <2>1, <1>2
    <3>2. InStop(t)' /\ task'[t].wk = w
      BY <3>1, <1>4, <1>5, <1>7 DEF InStop, At
    <3> QED BY <3>2, <2>1
  <2>2. CASE v # w
    <3>1. \/ \E q \in Port : reg[q] = v
          \/ \E u \in Task : InStop(u) /\ task[u].wk = v
      BY <2>2, <1>2 DEF Core, OpenIsOwned
    <3> QED BY <3>1, <2>2, <1>1, <1>7 DEF InStop
  <2> QED BY <2>1, <2>2
<1> QED
  BY <1>11, <1>12, <1>13, <1>14, <1>15, <1>16, <1>17, <1>18 DEF Core

\* The environment touches of a worker only whether its link is bad.
LEMMA DevicesKeepWorkers ==
    ASSUME TypeOK, (\E p \in Port : Unplug(p)) \/ (\E w \in Worker : Glitch(w))
    PROVE  /\ worker' \in [Worker -> WorkerType]
           /\ \A w \in Worker : /\ worker'[w].port = worker[w].port
                                /\ worker'[w].running = worker[w].running
                                /\ worker'[w].link = worker[w].link
<1>1. worker \in [Worker -> WorkerType]
  BY DEF TypeOK, WorkerType
<1>2. CASE \E p \in Port : Unplug(p)
  <2>1. PICK p \in Port : Unplug(p)
    BY <1>2
  <2>2. PICK b \in [Worker -> BOOLEAN] :
           \A w \in Worker : b[w] = (worker[w].bad \/ w \in LinksTo(p))
    <3>1. [w \in Worker |-> (worker[w].bad \/ w \in LinksTo(p))] \in [Worker -> BOOLEAN]
      OBVIOUS
    <3> QED BY <3>1, Zenon
  <2>3. worker' = [w \in Worker |-> [worker[w] EXCEPT !.bad = b[w]]]
    BY <2>1, <2>2, <1>1, Zenon DEF Unplug, WorkerType
  <2> QED BY <1>1, <2>3 DEF WorkerType
<1>3. CASE \E w \in Worker : Glitch(w)
  <2>1. PICK w \in Worker : Glitch(w)
    BY <1>3
  <2>2. worker' = [worker EXCEPT ![w] = [worker[w] EXCEPT !.bad = TRUE]]
    BY <2>1, <1>1 DEF Glitch
  <2>3. [worker[w] EXCEPT !.bad = TRUE] \in WorkerType
    BY <1>1 DEF WorkerType
  <2>4. worker' \in [Worker -> WorkerType]
    BY <1>1, <2>2, <2>3
  <2>5. /\ worker'[w] = [worker[w] EXCEPT !.bad = TRUE]
        /\ \A v \in Worker : v # w => worker'[v] = worker[v]
    BY <1>1, <2>2
  <2> QED BY <1>1, <2>4, <2>5 DEF WorkerType
<1> QED BY <1>2, <1>3

\* One of the loops of a worker that stopped running ends.
LEMMA LoopEndsEffect ==
    ASSUME TypeOK, NEW w \in Worker, ReadLoopEnds(w) \/ WriteLoopEnds(w)
    PROVE  /\ worker' \in [Worker -> WorkerType]
           /\ \A v \in Worker : /\ worker'[v].port = worker[v].port
                                /\ worker'[v].running = worker[v].running
                                /\ worker'[v].link = worker[v].link
<1>1. worker \in [Worker -> WorkerType]
  BY DEF TypeOK, WorkerType
<1>2. PICK r \in {"run", "done"}, x \in {"run", "done"} :
         worker' = [worker EXCEPT ![w] = [worker[w] EXCEPT !.rd = r, !.wr = x]]
  <2>1. CASE ReadLoopEnds(w)
    <3>1. worker' = [worker EXCEPT ![w] =
                       [worker[w] EXCEPT !.rd = "done", !.wr = worker[w].wr]]
      BY <1>1, <2>1 DEF ReadLoopEnds, WorkerType
    <3> QED BY <1>1, <3>1 DEF WorkerType
  <2>2. CASE WriteLoopEnds(w)
    <3>1. worker' = [worker EXCEPT ![w] =
                       [worker[w] EXCEPT !.rd = worker[w].rd, !.wr = "done"]]
      BY <1>1, <2>2 DEF WriteLoopEnds, WorkerType
    <3> QED BY <1>1, <3>1 DEF WorkerType
  <2> QED BY <2>1, <2>2
<1>3. [worker[w] EXCEPT !.rd = r, !.wr = x] \in WorkerType
  BY <1>1 DEF WorkerType
<1>4. worker' \in [Worker -> WorkerType]
  BY <1>1, <1>2, <1>3
<1>5. /\ worker'[w] = [worker[w] EXCEPT !.rd = r, !.wr = x]
      /\ \A v \in Worker : v # w => worker'[v] = worker[v]
  BY <1>1, <1>2
<1>6. /\ worker'[w].port = worker[w].port /\ worker'[w].running = worker[w].running
      /\ worker'[w].link = worker[w].link
  BY <1>1, <1>5 DEF WorkerType
<1> QED BY <1>4, <1>5, <1>6

\* A failing loop stops the worker and reports.
LEMMA ErrorEffect ==
    ASSUME TypeOK, NEW w \in Worker, ReadError(w) \/ WriteError(w)
    PROVE  /\ worker' \in [Worker -> WorkerType]
           /\ worker[w].running /\ Report(w)
           /\ \A v \in Worker : v # w => worker'[v] = worker[v]
           /\ ~worker'[w].running /\ worker'[w].port = worker[w].port
           /\ worker'[w].link = worker[w].link
<1>1. worker \in [Worker -> WorkerType]
  BY DEF TypeOK, WorkerType
<1>2. CASE ReadError(w)
  <2>1. worker' = [worker EXCEPT ![w] = [worker[w] EXCEPT !.rd = "done", !.running = FALSE]]
    BY <1>1, <1>2 DEF ReadError
  <2> QED BY <1>1, <1>2, <2>1 DEF ReadError, WorkerType
<1>3. CASE WriteError(w)
  <2>1. worker' = [worker EXCEPT ![w] = [worker[w] EXCEPT !.wr = "done", !.running = FALSE]]
    BY <1>1, <1>3 DEF WriteError
  <2> QED BY <1>1, <1>3, <2>1 DEF WriteError, WorkerType
<1> QED BY <1>2, <1>3

\* close_port of the next port by the shutdown, which is in no stop() then.
LEMMA CloseNextKeepsCore ==
    ASSUME TypeOK, Core, NEW ports \in SUBSET Port, CloseNext(ports), made' = made,
           ~InStop(Stopper)
    PROVE  Core'
<1>1. CASE /\ ports = {}
           /\ task' = [task EXCEPT ![Stopper] = At("shutdown", "over", NoPort, 0)]
           /\ UNCHANGED <<reg, worker>>
  <2>1. At("shutdown", "over", NoPort, 0) \in TaskType
    BY SizesAssumption DEF At, TaskType, Pc
  <2>2. At("shutdown", "over", NoPort, 0).pc = "over"
    BY DEF At
  <2> QED BY <1>1, <2>1, <2>2, TaskNumbers, TaskKeepsCore
<1>2. ASSUME NEW p \in ports, PopAndStop(p),
             task' = [task EXCEPT ![Stopper] =
                        Goes("shutdown", p, reg[p], Stage(reg[p]))]
      PROVE  Core'
  <2>1. "shutdown" \in Handling \cup Closing
    BY DEF Closing
  <2> QED BY <1>2, <2>1, TaskNumbers, PopKeepsCore
<1> QED BY <1>1, <1>2 DEF CloseNext

\* Every step keeps track of the workers.
LEMMA StepKeepsCore ==
    ASSUME IInv, [Next]_vars
    PROVE  Core'
<1> USE DEF IInv
<1>0. reg \in [Port -> 0..MaxWorkers]
  BY DEF TypeOK
<1>1. CASE UNCHANGED vars
  BY <1>0, <1>1, QuietKeepsCore DEF vars
<1>2. CASE ListPorts
  BY <1>0, <1>2, QuietKeepsCore DEF ListPorts
<1>3. ASSUME NEW p \in Port, OpenRefused(p)
      PROVE  Core'
  BY <1>0, <1>3, QuietKeepsCore DEF OpenRefused
<1>4. ASSUME NEW p \in Port, OpenSucceeds(p)
      PROVE  Core'
  BY <1>4, OpenSucceedsKeepsCore
<1>5. ASSUME NEW p \in Port, NEW t \in Call, OpenFails(p, t)
      PROVE  Core'
  <2>1. t \in Task /\ t \notin Worker
    BY TaskNumbers
  <2>2. ~InStop(t)
    BY <1>5 DEF OpenFails, Free, At, InStop
  <2>3. At("error", "notify", p, 0) \in TaskType
    BY SizesAssumption DEF At, TaskType, Pc
  <2>4. /\ At("error", "notify", p, 0).pc = "notify"
        /\ At("error", "notify", p, 0).port = p
        /\ At("error", "notify", p, 0).kind \in Handling
    BY DEF At, Handling
  <2>5. /\ task' = [task EXCEPT ![t] = At("error", "notify", p, 0)]
        /\ UNCHANGED <<reg, made, worker>>
    BY <1>5 DEF OpenFails
  <2> QED BY <2>1, <2>2, <2>3, <2>4, <2>5, TaskKeepsCore
<1>6. ASSUME NEW p \in Port, NEW t \in Call, ClosePort(p, t)
      PROVE  Core'
  <2>1. t \in Task /\ t \notin Worker /\ "close" \in Handling \cup Closing
    BY TaskNumbers DEF Closing
  <2>2. ~InStop(t)
    BY <1>6 DEF ClosePort, Free, At, InStop
  <2>3. PopAndStop(p) /\ made' = made
    BY <1>6 DEF ClosePort
  <2>4. task' = [task EXCEPT ![t] = Goes("close", p, reg[p], Stage(reg[p]))]
    BY <1>6 DEF ClosePort
  <2> QED BY <2>1, <2>2, <2>3, <2>4, PopKeepsCore
<1>7. ASSUME NEW t \in Task, StopResumes(t)
      PROVE  Core'
  BY <1>7, StopResumesKeepsCore
<1>8. ASSUME NEW t \in Task, CloseEnds(t)
      PROVE  Core'
  <2>1. Free \in TaskType /\ Free.pc = "free"
    BY SizesAssumption DEF Free, At, TaskType, Pc
  <2>2. /\ task[t].pc = "farewell" /\ task' = [task EXCEPT ![t] = Free]
        /\ UNCHANGED <<reg, made, worker>>
    BY <1>8 DEF CloseEnds
  <2>3. ~InStop(t)
    BY <2>2 DEF InStop
  <2> QED BY <2>1, <2>2, <2>3, TaskKeepsCore
<1>9. ASSUME NEW t \in Task, HandlerPops(t)
      PROVE  Core'
  <2>1. /\ task[t].pc = "notify" /\ made' = made /\ PopAndStop(task[t].port)
        /\ task' = [task EXCEPT ![t] =
              Goes(task[t].kind, task[t].port, reg[task[t].port],
                   Stage(reg[task[t].port]))]
    BY <1>9 DEF HandlerPops
  <2>2. task[t].port \in Port /\ task[t].kind \in Handling \cup Closing
    BY <2>1 DEF Core, TaskShape
  <2>3. ~InStop(t)
    BY <2>1 DEF InStop
  <2> QED BY <2>1, <2>2, <2>3, PopKeepsCore
<1>10. ASSUME NEW w \in Worker, ReadError(w) \/ WriteError(w)
       PROVE  Core'
  <2>1. UNCHANGED <<reg, made>>
    BY <1>10 DEF ReadError, WriteError
  <2> QED BY <1>10, <2>1, ErrorEffect, ReportKeepsCore
<1>11. ASSUME NEW w \in Worker, ReadLoopEnds(w) \/ WriteLoopEnds(w)
       PROVE  Core'
  <2>1. UNCHANGED <<reg, made, task>>
    BY <1>11 DEF ReadLoopEnds, WriteLoopEnds
  <2> QED BY <1>0, <1>11, <2>1, LoopEndsEffect, QuietKeepsCore
<1>12. CASE UdevEvent
  <2>1. CASE UNCHANGED task
    BY <1>0, <1>12, <2>1, QuietKeepsCore DEF UdevEvent
  <2>2. CASE task' = [task EXCEPT ![Udev] = At("udev", "notify", Head(udevq).port, 0)]
    <3>1. Head(udevq) \in Event
      BY <1>12, HeadTailProperties DEF UdevEvent, TypeOK
    <3>2. At("udev", "notify", Head(udevq).port, 0) \in TaskType
      BY <3>1, SizesAssumption DEF At, TaskType, Pc, Event
    <3>3. /\ At("udev", "notify", Head(udevq).port, 0).pc = "notify"
          /\ At("udev", "notify", Head(udevq).port, 0).port \in Port
          /\ At("udev", "notify", Head(udevq).port, 0).kind \in Handling
      BY <3>1 DEF At, Handling, Event
    <3>4. ~InStop(Udev) /\ UNCHANGED <<reg, made, worker>>
      BY <1>12 DEF UdevEvent, InStop
    <3> QED BY <2>2, <3>2, <3>3, <3>4, TaskNumbers, TaskKeepsCore
  <2> QED BY <1>12, <2>1, <2>2 DEF UdevEvent
<1>13. CASE Shutdown
  <2>1. UNCHANGED <<reg, made, worker>>
    BY <1>13 DEF Shutdown
  <2>2. \A u \in Task : u # Udev /\ u # Stopper => task'[u] = task[u]
    BY <1>13 DEF Shutdown, TypeOK
  <2>3. task'[Stopper].pc = "awaitUdev" /\ ~InStop(Stopper)
    BY <1>13, TaskNumbers DEF Shutdown, Serving, TypeOK, InStop, Udev, Stopper
  <2>4. /\ task'[Udev].pc = IF task[Udev].pc \in {"idle", "notify"} THEN "ended"
                            ELSE task[Udev].pc
        /\ task'[Udev].port = task[Udev].port /\ task'[Udev].kind = task[Udev].kind
        /\ task'[Udev].wk = task[Udev].wk
    BY <1>13, TaskNumbers DEF Shutdown, TypeOK
  <2>5. \A u \in Task : (InStop(u)' <=> InStop(u))
                       /\ (InStop(u) => task'[u].wk = task[u].wk)
    BY <2>2, <2>3, <2>4 DEF InStop
  <2>6. \A w \in Worker : task'[w] = task[w]
    BY <2>2, TaskNumbers
  <2>7. \A p \in Port : reg[p] # 0 => reg[p] \in Worker
    BY <1>0 DEF Worker
  <2>8. TaskShape'
    BY <2>2, <2>3, <2>4 DEF Core, TaskShape, InStop
  <2>9. RegisteredIsOpen' /\ RunningHasPort' /\ ReporterIdle' /\ ReporterWillPop'
    BY <2>1, <2>6, <2>7
       DEF Core, RegisteredIsOpen, RunningHasPort, ReporterIdle, ReporterWillPop
  <2>10. StopperOwns' /\ OneStopper' /\ OpenIsOwned'
    BY <2>1, <2>5 DEF Core, StopperOwns, OneStopper, OpenIsOwned
  <2> QED BY <2>8, <2>9, <2>10 DEF Core
<1>14. CASE UdevEnded
  <2>1. InUse \in SUBSET Port
    BY DEF InUse
  <2>2. CloseNext(InUse) /\ made' = made /\ ~InStop(Stopper)
    BY <1>14 DEF UdevEnded, InStop
  <2> QED BY <2>1, <2>2, CloseNextKeepsCore
<1>15. CASE ShutdownGoesOn
  <2>1. CloseNext(todo) /\ made' = made /\ ~InStop(Stopper)
    BY <1>15 DEF ShutdownGoesOn, InStop
  <2>2. todo \in SUBSET Port
    BY DEF TypeOK
  <2> QED BY <2>1, <2>2, CloseNextKeepsCore
<1>16. ASSUME NEW p \in Port, Unplug(p)
       PROVE  Core'
  <2>1. UNCHANGED <<reg, made, task>>
    BY <1>16 DEF Unplug
  <2> QED BY <1>0, <1>16, <2>1, DevicesKeepWorkers, QuietKeepsCore
<1>17. ASSUME NEW p \in Port, Plug(p) \/ Lock(p)
       PROVE  Core'
  BY <1>0, <1>17, QuietKeepsCore DEF Plug, Lock
<1>18. ASSUME NEW w \in Worker, Glitch(w)
       PROVE  Core'
  <2>1. UNCHANGED <<reg, made, task>>
    BY <1>18 DEF Glitch
  <2> QED BY <1>0, <1>18, <2>1, DevicesKeepWorkers, QuietKeepsCore
<1> QED
  BY <1>1, <1>2, <1>3, <1>4, <1>5, <1>6, <1>7, <1>8, <1>9, <1>10, <1>11, <1>12,
     <1>13, <1>14, <1>15, <1>16, <1>17, <1>18, Zenon DEF Next

-----------------------------------------------------------------------------
(* Types                                                                   *)

\* The cached entries open_port goes by have their type.
LEMMA LookedType ==
    ASSUME TypeOK, NEW p \in Port
    PROVE  Looked(p) \in [Port -> PortStatus]
BY ScannedType DEF Looked, TypeOK

\* An event is queued or dropped.
LEMMA QueuedType ==
    ASSUME TypeOK, NEW p \in Port, NEW action \in {"add", "remove"}
    PROVE  Queued(action, p) \in Seq(Event)
<1>1. [action |-> action, port |-> p] \in Event
  BY DEF Event
<1>2. udevq \in Seq(Event)
  BY DEF TypeOK
<1> QED BY <1>1, <1>2 DEF Queued

\* The step of a task that pops a worker keeps the types of the registry, the
\* workers and the tasks.
LEMMA PopType ==
    ASSUME TypeOK, NEW p \in Port, NEW t \in Task, NEW kind \in Handling \cup Closing,
           PopAndStop(p),
           task' = [task EXCEPT ![t] = Goes(kind, p, reg[p], Stage(reg[p]))]
    PROVE  /\ reg' \in [Port -> 0..MaxWorkers] /\ worker' \in [Worker -> WorkerType]
           /\ task' \in [Task -> TaskType]
<1>1. reg[p] \in 0..MaxWorkers /\ task \in [Task -> TaskType]
  BY DEF TypeOK, TaskType
<1>2. Goes(kind, p, reg[p], Stage(reg[p])) \in TaskType
  BY <1>1, StageType, GoesSomewhere
<1> QED BY <1>1, <1>2, PopEffect

\* The same for the shutdown.
LEMMA CloseNextType ==
    ASSUME TypeOK, NEW ports \in SUBSET Port, CloseNext(ports)
    PROVE  /\ reg' \in [Port -> 0..MaxWorkers] /\ worker' \in [Worker -> WorkerType]
           /\ task' \in [Task -> TaskType] /\ todo' \subseteq Port
<1>1. CASE /\ ports = {}
           /\ task' = [task EXCEPT ![Stopper] = At("shutdown", "over", NoPort, 0)]
           /\ todo' = {}
           /\ UNCHANGED <<reg, worker>>
  <2>1. At("shutdown", "over", NoPort, 0) \in TaskType
    BY SizesAssumption DEF At, TaskType, Pc
  <2>2. task \in [Task -> TaskType]
    BY DEF TypeOK, TaskType
  <2> QED BY <1>1, <2>1, <2>2 DEF TypeOK, WorkerType
<1>2. ASSUME NEW p \in ports, PopAndStop(p), todo' = ports \ {p},
             task' = [task EXCEPT ![Stopper] =
                        Goes("shutdown", p, reg[p], Stage(reg[p]))]
      PROVE  /\ reg' \in [Port -> 0..MaxWorkers] /\ worker' \in [Worker -> WorkerType]
             /\ task' \in [Task -> TaskType] /\ todo' \subseteq Port
  <2>1. "shutdown" \in Handling \cup Closing
    BY DEF Closing
  <2> QED BY <1>2, <2>1, TaskNumbers, PopType
<1> QED BY <1>1, <1>2 DEF CloseNext

\* The entry of a closed port keeps its type.
LEMMA FreedType ==
    ASSUME TypeOK, NEW p
    PROVE  Freed(p) \in [Port -> PortStatus]
BY DEF Freed, TypeOK, PortStatus

\* Every step keeps the types.
LEMMA StepKeepsTypes ==
    ASSUME IInv, [Next]_vars
    PROVE  TypeOK'
<1> DEFINE T == /\ reg' \in [Port -> 0..MaxWorkers]
                /\ worker' \in [Worker -> WorkerType]
                /\ made' \in 0..MaxWorkers
                /\ task' \in [Task -> TaskType]
                /\ dev' \in [Port -> {"absent", "free", "locked"}]
                /\ status' \in [Port -> PortStatus]
                /\ todo' \subseteq Port /\ udevq' \in Seq(Event)
                /\ faults' \in 0..MaxFaults
<1> SUFFICES T
  BY DEF TypeOK, WorkerType, TaskType
<1> USE DEF IInv
<1>0. /\ reg \in [Port -> 0..MaxWorkers] /\ worker \in [Worker -> WorkerType]
      /\ made \in 0..MaxWorkers /\ task \in [Task -> TaskType]
      /\ dev \in [Port -> {"absent", "free", "locked"}]
      /\ status \in [Port -> PortStatus]
      /\ todo \subseteq Port /\ udevq \in Seq(Event)
      /\ faults \in 0..MaxFaults
  BY DEF TypeOK, WorkerType, TaskType
<1>1. CASE UNCHANGED vars
  BY <1>0, <1>1 DEF vars
<1>2. CASE ListPorts
  BY <1>0, <1>2, ScannedType DEF ListPorts
<1>3. ASSUME NEW p \in Port, OpenRefused(p)
      PROVE  T
  BY <1>0, <1>3, LookedType DEF OpenRefused
<1>4. ASSUME NEW p \in Port, OpenSucceeds(p)
      PROVE  T
  <2>1. made' = made + 1 /\ made' \in 0..MaxWorkers /\ Started(p) \in WorkerType
    BY <1>0, <1>4, SizesAssumption DEF OpenSucceeds, Started, WorkerType
  <2>2. reg' \in [Port -> 0..MaxWorkers] /\ worker' \in [Worker -> WorkerType]
    BY <1>0, <1>4, <2>1 DEF OpenSucceeds
  <2>3. "OPEN" \in PortStatus
    BY DEF PortStatus
  <2>4. status' \in [Port -> PortStatus]
    BY <1>4, <2>3, LookedType DEF OpenSucceeds
  <2> QED BY <1>0, <1>4, <2>1, <2>2, <2>4 DEF OpenSucceeds
<1>5. ASSUME NEW p \in Port, NEW t \in Call, OpenFails(p, t)
      PROVE  T
  <2>1. At("error", "notify", p, 0) \in TaskType
    BY SizesAssumption DEF At, TaskType, Pc
  <2> QED BY <1>0, <1>5, <2>1, LookedType DEF OpenFails
<1>6. ASSUME NEW p \in Port, NEW t \in Call, ClosePort(p, t)
      PROVE  T
  <2>1. t \in Task /\ "close" \in Handling \cup Closing
    BY TaskNumbers DEF Closing
  <2>2. /\ PopAndStop(p)
        /\ task' = [task EXCEPT ![t] = Goes("close", p, reg[p], Stage(reg[p]))]
    BY <1>6 DEF ClosePort
  <2>3. /\ reg' \in [Port -> 0..MaxWorkers] /\ worker' \in [Worker -> WorkerType]
        /\ task' \in [Task -> TaskType]
    BY <2>1, <2>2, PopType
  <2> QED BY <1>0, <1>6, <2>3 DEF ClosePort
<1>7. ASSUME NEW t \in Task, StopResumes(t)
      PROVE  T
  <2>1. task[t].port \in Port /\ task[t].kind \in Handling \cup Closing
    BY <1>7 DEF StopResumes, Core, TaskShape, InStop
  <2>2. Goes(task[t].kind, task[t].port, task[t].wk, NextStage(t)) \in TaskType
    BY <1>0, <2>1, GoesSomewhere DEF NextStage, TaskType
  <2>3. task' \in [Task -> TaskType]
    BY <1>0, <1>7, <2>2 DEF StopResumes
  <2>4. status' \in [Port -> PortStatus]
    BY <1>0, <1>7, ScannedType DEF StopResumes, StatusAt
  <2> QED BY <1>0, <1>7, <2>3, <2>4, StopEffect DEF StopResumes
<1>8. ASSUME NEW t \in Task, CloseEnds(t)
      PROVE  T
  <2>1. Free \in TaskType
    BY SizesAssumption DEF Free, At, TaskType, Pc
  <2> QED BY <1>0, <1>8, <2>1, FreedType DEF CloseEnds
<1>9. ASSUME NEW t \in Task, HandlerPops(t)
      PROVE  T
  <2>1. PICK p \in Port : p = task[t].port
    BY <1>9 DEF HandlerPops, Core, TaskShape
  <2>2. task[t].kind \in Handling \cup Closing
    BY <1>9 DEF HandlerPops, Core, TaskShape
  <2>3. /\ PopAndStop(p)
        /\ task' = [task EXCEPT ![t] = Goes(task[t].kind, p, reg[p], Stage(reg[p]))]
    BY <1>9, <2>1 DEF HandlerPops
  <2>4. /\ reg' \in [Port -> 0..MaxWorkers] /\ worker' \in [Worker -> WorkerType]
        /\ task' \in [Task -> TaskType]
    BY <2>2, <2>3, PopType
  <2>5. status' \in [Port -> PortStatus]
    <3>1. Scanned(reg') \in [Port -> PortStatus]
      BY <2>4, ScannedType
    <3> QED BY <1>0, <1>9, <3>1 DEF HandlerPops, StatusAt
  <2> QED BY <1>0, <1>9, <2>4, <2>5 DEF HandlerPops
<1>10. ASSUME NEW w \in Worker, ReadError(w) \/ WriteError(w)
       PROVE  T
  <2>1. worker[w].running /\ Report(w) /\ worker' \in [Worker -> WorkerType]
    BY <1>10, ErrorEffect
  <2>2. At("error", "notify", worker[w].port, 0) \in TaskType
    BY <1>0, SizesAssumption DEF At, TaskType, Pc, WorkerType
  <2>3. task' \in [Task -> TaskType]
    BY <1>0, <2>1, <2>2, TaskNumbers DEF Report
  <2> QED BY <1>0, <1>10, <2>1, <2>3 DEF ReadError, WriteError
<1>11. ASSUME NEW w \in Worker, ReadLoopEnds(w) \/ WriteLoopEnds(w)
       PROVE  T
  <2>1. worker' \in [Worker -> WorkerType]
    BY <1>11, LoopEndsEffect
  <2> QED BY <1>0, <1>11, <2>1 DEF ReadLoopEnds, WriteLoopEnds
<1>12. CASE UdevEvent
  <2>1. Head(udevq) \in Event /\ udevq' \in Seq(Event)
    BY <1>0, <1>12, HeadTailProperties DEF UdevEvent
  <2>2. At("udev", "notify", Head(udevq).port, 0) \in TaskType
    BY <2>1, SizesAssumption DEF At, TaskType, Pc, Event
  <2>3. task' \in [Task -> TaskType] /\ status' \in [Port -> PortStatus]
    BY <1>0, <1>12, <2>2, ScannedType DEF UdevEvent
  <2> QED BY <1>0, <1>12, <2>1, <2>3 DEF UdevEvent
<1>13. CASE Shutdown
  <2>1. PICK pc \in Pc : pc = IF task[Udev].pc \in {"idle", "notify"} THEN "ended"
                              ELSE task[Udev].pc
    BY <1>0, TaskNumbers DEF TaskType, Pc
  <2>2. "awaitUdev" \in Pc /\ Udev # Stopper
    BY SizesAssumption DEF Pc, Udev, Stopper
  <2>3. task' = [task EXCEPT ![Stopper] = [task[Stopper] EXCEPT !.pc = "awaitUdev"],
                             ![Udev] = [task[Udev] EXCEPT !.pc = pc]]
    BY <1>0, <1>13, <2>1, <2>2, TaskNumbers DEF Shutdown, TaskType
  <2>4. /\ [task[Stopper] EXCEPT !.pc = "awaitUdev"] \in TaskType
        /\ [task[Udev] EXCEPT !.pc = pc] \in TaskType
    BY <1>0, <2>2, TaskNumbers DEF TaskType
  <2>5. task' \in [Task -> TaskType]
    BY <1>0, <2>3, <2>4
  <2> QED BY <1>0, <1>13, <2>5 DEF Shutdown
<1>14. CASE UdevEnded
  <2>1. InUse \in SUBSET Port
    BY DEF InUse
  <2>2. CloseNext(InUse)
    BY <1>14 DEF UdevEnded
  <2>3. /\ reg' \in [Port -> 0..MaxWorkers] /\ worker' \in [Worker -> WorkerType]
        /\ task' \in [Task -> TaskType] /\ todo' \subseteq Port
    BY <2>1, <2>2, CloseNextType
  <2> QED BY <1>0, <1>14, <2>3 DEF UdevEnded
<1>15. CASE ShutdownGoesOn
  <2>1. CloseNext(todo)
    BY <1>15 DEF ShutdownGoesOn
  <2>2. /\ reg' \in [Port -> 0..MaxWorkers] /\ worker' \in [Worker -> WorkerType]
        /\ task' \in [Task -> TaskType] /\ todo' \subseteq Port
    BY <1>0, <2>1, CloseNextType
  <2> QED BY <1>0, <1>15, <2>2, FreedType DEF ShutdownGoesOn
<1>16. ASSUME NEW p \in Port, Unplug(p)
       PROVE  T
  <2>1. worker' \in [Worker -> WorkerType]
    BY <1>16, DevicesKeepWorkers
  <2> QED BY <1>0, <1>16, <2>1, QueuedType, SizesAssumption DEF Unplug, Fault
<1>17. ASSUME NEW p \in Port, Plug(p) \/ Lock(p)
       PROVE  T
  <2>1. \A d \in {"free", "locked"} :
           [dev EXCEPT ![p] = d] \in [Port -> {"absent", "free", "locked"}]
    BY <1>0
  <2>2. dev' \in [Port -> {"absent", "free", "locked"}]
    BY <1>0, <1>17, <2>1 DEF Plug, Lock
  <2>3. faults' \in 0..MaxFaults
    BY <1>0, <1>17, SizesAssumption DEF Plug, Lock, Fault
  <2>4. udevq' \in Seq(Event)
    BY <1>0, <1>17, QueuedType DEF Plug, Lock
  <2>5. UNCHANGED <<reg, worker, made, task, status, todo>>
    BY <1>17 DEF Plug, Lock
  <2> QED BY <1>0, <2>2, <2>3, <2>4, <2>5
<1>18. ASSUME NEW w \in Worker, Glitch(w)
       PROVE  T
  <2>1. worker' \in [Worker -> WorkerType]
    BY <1>18, DevicesKeepWorkers
  <2> QED BY <1>0, <1>18, <2>1, SizesAssumption DEF Glitch, Fault
<1> QED
  BY <1>1, <1>2, <1>3, <1>4, <1>5, <1>6, <1>7, <1>8, <1>9, <1>10, <1>11, <1>12,
     <1>13, <1>14, <1>15, <1>16, <1>17, <1>18, Zenon DEF Next

-----------------------------------------------------------------------------
(* The theorems                                                            *)

\* Nothing is open when the program starts.
LEMMA InitHolds == Init => IInv
<1> SUFFICES ASSUME Init PROVE IInv
  OBVIOUS
<1>1. 0 \in 0..MaxWorkers /\ 0 \in 0..MaxFaults
  BY SizesAssumption
<1>2. Unborn \in WorkerType /\ ~Unborn.running /\ Unborn.link = "none"
  BY DEF Unborn, WorkerType
<1>3. /\ Free \in TaskType /\ Free.pc = "free"
      /\ At("udev", "idle", NoPort, 0) \in TaskType
      /\ At("udev", "idle", NoPort, 0).pc = "idle"
      /\ At("shutdown", "off", NoPort, 0) \in TaskType
      /\ At("shutdown", "off", NoPort, 0).pc = "off"
  BY <1>1 DEF Free, At, TaskType, Pc
<1>4. \A w \in Worker : worker[w] = Unborn
  BY DEF Init
<1>5. /\ \A t \in Task : task[t] \in TaskType /\ task[t].pc \in {"free", "idle", "off"}
      /\ \A w \in Worker : task[w] = Free
      /\ task \in [Task -> TaskType]
  BY <1>3, TaskNumbers DEF Init
<1>6. status \in [Port -> PortStatus]
  <2> SUFFICES ASSUME NEW p \in Port PROVE status[p] \in PortStatus
    BY DEF Init
  <2>1. dev[p] \in {"absent", "free", "locked"}
    BY DEF Init
  <2> QED BY <2>1 DEF Init, PortStatus
<1>7. /\ dev \in [Port -> {"absent", "free", "locked"}]
      /\ reg \in [Port -> 0..MaxWorkers] /\ worker \in [Worker -> WorkerType]
      /\ made \in 0..MaxWorkers /\ todo \subseteq Port /\ faults \in 0..MaxFaults
      /\ \A p \in Port : reg[p] = 0
  BY <1>1, <1>2 DEF Init
<1>8. udevq \in Seq(Event)
  <2>1. \A p \in Port : [action |-> "add", port |-> p] \in Event
    BY DEF Event
  <2>2. \A e \in Event : <<e>> \in Seq(Event)
    OBVIOUS
  <2>3. udevq = <<>> \/ \E p \in Port : udevq = <<[action |-> "add", port |-> p]>>
    BY DEF Init
  <2>4. CASE udevq = <<>>
    BY <2>4
  <2>5. CASE \E p \in Port : udevq = <<[action |-> "add", port |-> p]>>
    BY <2>1, <2>2, <2>5
  <2> QED BY <2>3, <2>4, <2>5
<1>9. TypeOK
  BY <1>5, <1>6, <1>7, <1>8 DEF TypeOK, WorkerType, TaskType
<1>10. TaskShape /\ StopperOwns /\ OneStopper
  BY <1>5 DEF TaskShape, StopperOwns, OneStopper, InStop
<1>11. RegisteredIsOpen /\ ReporterWillPop
  BY <1>7 DEF RegisteredIsOpen, ReporterWillPop
<1>12. RunningHasPort /\ ReporterIdle /\ OpenIsOwned
  BY <1>2, <1>3, <1>4, <1>5 DEF RunningHasPort, ReporterIdle, OpenIsOwned
<1> QED BY <1>9, <1>10, <1>11, <1>12 DEF IInv, Core

\* The registry, the workers, their links and the tasks stay consistent.
THEOREM InductiveInvariant == Spec => []IInv
<1>1. IInv /\ [Next]_vars => IInv'
  BY StepKeepsTypes, StepKeepsCore DEF IInv
<1> QED BY <1>1, InitHolds, PTL DEF Spec

\* Every variable keeps its type (all of port_manager.py and the life of a
\* SerialWorker).
THEOREM TypeCorrect == Spec => []TypeOK
BY InductiveInvariant, PTL DEF IInv

\* For any number of ports, opens, closes and device errors in flight: a running
\* worker is the one registered for its port.
THEOREM RunningIsRegisteredHolds == Spec => []RunningIsRegistered
<1>1. IInv => RunningIsRegistered
  BY DEF IInv, Core, RunningHasPort, RunningIsRegistered
<1> QED BY <1>1, InductiveInvariant, PTL

\* No link is leaked and none is closed twice: a worker with an open link is
\* registered, or exactly one task is in its stop().
THEOREM NoOrphanLinkHolds == Spec => []NoOrphanLink
<1>1. ASSUME IInv, NEW w \in Worker, worker[w].link = "open"
      PROVE  Cardinality(Stopping(w)) = IF HasPort(w) THEN 0 ELSE 1
  <2> USE DEF IInv
  <2>1. CASE HasPort(w)
    <3>0. \A t \in Task : InStop(t) => task[t].wk # w
      BY <1>1, <2>1 DEF HasPort, Core, StopperOwns
    <3>1. Stopping(w) = {}
      BY <3>0 DEF Stopping, InStop
    <3> QED BY <3>1, <2>1, FS_EmptySet
  <2>2. CASE ~HasPort(w)
    <3>1. PICK t \in Task : InStop(t) /\ task[t].wk = w
      BY <1>1, <2>2 DEF Core, OpenIsOwned, HasPort
    <3>0. \A u \in Task : InStop(u) /\ task[u].wk = w => u = t
      BY <1>1, <3>1 DEF Core, OneStopper
    <3>2. Stopping(w) = {t}
      BY <3>0, <3>1 DEF Stopping, InStop
    <3>3. Cardinality({t}) = 1
      BY FS_Singleton
    <3> QED BY <3>2, <3>3, <2>2
  <2> QED BY <2>1, <2>2
<1>2. IInv => NoOrphanLink
  BY <1>1 DEF NoOrphanLink
<1> QED BY <1>2, InductiveInvariant, PTL

\* A port never stays open with a worker that stopped running: the handler that
\* the worker spawned is still to take it from the registry.
THEOREM DeadIsBeingHandledHolds == Spec => []DeadIsBeingHandled
<1>1. IInv => DeadIsBeingHandled
  <2> SUFFICES ASSUME IInv, NEW p \in Port, reg[p] # 0, ~worker[reg[p]].running
               PROVE  \E t \in Task : task[t].pc = "notify" /\ task[t].port = p
    BY DEF DeadIsBeingHandled
  <2>1. reg[p] \in Task
    BY TaskNumbers DEF IInv, TypeOK, Worker
  <2>2. task[reg[p]].pc = "notify" /\ task[reg[p]].port = p
    BY DEF IInv, Core, ReporterWillPop
  <2> QED BY <2>1, <2>2
<1> QED BY <1>1, InductiveInvariant, PTL

-----------------------------------------------------------------------------
(* The limit, the list and the shutdown                                    *)

\* The ports a step opens: none, or the one open_port admitted.
LEMMA OnlyOpenPortOpens ==
    ASSUME IInv, [Next]_vars
    PROVE  \/ \A p \in Port : reg'[p] # 0 => reg[p] # 0
           \/ \E p \in Port : OpenSucceeds(p)
<1> SUFFICES ASSUME \A p \in Port : ~OpenSucceeds(p)
             PROVE  \A p \in Port : reg'[p] # 0 => reg[p] # 0
  OBVIOUS
<1> USE DEF IInv
<1>1. ASSUME NEW q \in Port, PopAndStop(q)
      PROVE  \A p \in Port : reg'[p] # 0 => reg[p] # 0
  BY <1>1, PopEffect
<1>2. ASSUME NEW ports \in SUBSET Port, CloseNext(ports)
      PROVE  \A p \in Port : reg'[p] # 0 => reg[p] # 0
  BY <1>1, <1>2 DEF CloseNext
<1>3. ASSUME NEW t \in Task, HandlerPops(t)
      PROVE  \A p \in Port : reg'[p] # 0 => reg[p] # 0
  <2>1. task[t].port \in Port
    BY <1>3 DEF HandlerPops, Core, TaskShape
  <2> QED BY <1>1, <1>3, <2>1 DEF HandlerPops
<1>4. ASSUME NEW p \in Port, NEW t \in Call, ClosePort(p, t)
      PROVE  \A q \in Port : reg'[q] # 0 => reg[q] # 0
  BY <1>1, <1>4 DEF ClosePort
<1>5. ASSUME UdevEnded \/ ShutdownGoesOn
      PROVE  \A p \in Port : reg'[p] # 0 => reg[p] # 0
  <2>1. InUse \in SUBSET Port /\ todo \in SUBSET Port
    BY DEF InUse, TypeOK
  <2> QED BY <1>2, <1>5, <2>1 DEF UdevEnded, ShutdownGoesOn
<1>6. CASE UNCHANGED reg
  BY <1>6
<1> QED
  BY <1>3, <1>4, <1>5, <1>6
     DEF Next, vars, ListPorts, OpenRefused, OpenFails, StopResumes, CloseEnds,
         ReadError, WriteError, ReadLoopEnds, WriteLoopEnds, UdevEvent, Shutdown,
         Unplug, Plug, Lock, Glitch

\* At most max_ports ports are open at a time, for any number of ports (the check
\* at line 84 of port_manager.py is never outrun).
THEOREM PortLimitHolds == Spec => []PortLimit
<1>1. Init => PortLimit
  <2> SUFFICES ASSUME Init PROVE PortLimit
    OBVIOUS
  <2>1. InUse = {}
    BY DEF Init, InUse
  <2> QED BY <2>1, FS_EmptySet, SizesAssumption DEF PortLimit
<1>2. ASSUME IInv, PortLimit, [Next]_vars
      PROVE  PortLimit'
  <2>1. IsFiniteSet(InUse) /\ Cardinality(InUse) \in Nat
    <3>1. InUse \subseteq Port
      BY DEF InUse
    <3> QED BY <3>1, SizesAssumption, FS_Subset, FS_CardinalityType
  <2>2. CASE \A p \in Port : reg'[p] # 0 => reg[p] # 0
    <3>1. InUse' \subseteq InUse
      BY <2>2 DEF InUse
    <3>2. Cardinality(InUse') <= Cardinality(InUse) /\ Cardinality(InUse') \in Nat
      BY <2>1, <3>1, FS_Subset, FS_CardinalityType
    <3> QED BY <1>2, <2>1, <3>2, SizesAssumption DEF PortLimit
  <2>3. CASE \E p \in Port : OpenSucceeds(p)
    <3>1. PICK p \in Port : OpenSucceeds(p)
      BY <2>3
    <3>2. /\ Cardinality(InUse) < MaxPorts
          /\ \A q \in Port : q # p => reg'[q] = reg[q]
      BY <3>1 DEF OpenSucceeds, Admitted, MayOpen, IInv, TypeOK
    <3>3. InUse' \subseteq InUse \cup {p}
      BY <3>2 DEF InUse
    <3>4. /\ IsFiniteSet(InUse \cup {p})
          /\ Cardinality(InUse \cup {p}) <= Cardinality(InUse) + 1
          /\ Cardinality(InUse \cup {p}) \in Nat
      BY <2>1, FS_AddElement, FS_CardinalityType, SMTT(30)
    <3>5. Cardinality(InUse') <= Cardinality(InUse \cup {p}) /\ Cardinality(InUse') \in Nat
      BY <3>3, <3>4, FS_Subset, FS_CardinalityType
    <3> QED BY <2>1, <3>2, <3>4, <3>5, SizesAssumption DEF PortLimit
  <2> QED BY <1>2, <2>2, <2>3, OnlyOpenPortOpens
<1> QED BY <1>1, <1>2, InductiveInvariant, PTL DEF Spec

\* A scan lists every registered port.
LEMMA ScanListsOpen ==
    ASSUME IInv, NEW r \in [Port -> 0..MaxWorkers], NEW p \in Port, r[p] # 0
    PROVE  Scanned(r)[p] # "none"
<1>1. dev[p] \in {"absent", "free", "locked"}
  BY DEF IInv, TypeOK
<1> QED BY <1>1 DEF Scanned

\* A port that is open never drops out of the cached list.
THEOREM OpenIsListedHolds == Spec => []OpenIsListed
<1>1. Init => OpenIsListed
  BY DEF Init, OpenIsListed
<1>2. ASSUME IInv, OpenIsListed, [Next]_vars
      PROVE  OpenIsListed'
  <2>1. reg' \in [Port -> 0..MaxWorkers] /\ reg \in [Port -> 0..MaxWorkers]
    BY <1>2, StepKeepsTypes DEF TypeOK, IInv
  <2>2. CASE \E p \in Port : OpenSucceeds(p)
    <3>1. PICK p \in Port : OpenSucceeds(p)
      BY <2>2
    <3>2. \A q \in Port : q # p => reg'[q] = reg[q]
      BY <3>1, <2>1 DEF OpenSucceeds
    <3>3. Looked(p) \in [Port -> PortStatus]
      BY <1>2, LookedType DEF IInv
    <3>4. /\ status'[p] = "OPEN"
          /\ \A q \in Port : q # p => status'[q] = Looked(p)[q]
      BY <3>1, <3>3 DEF OpenSucceeds
    <3>5. \A q \in Port : reg[q] # 0 => Looked(p)[q] # "none"
      BY <1>2, <2>1, ScanListsOpen DEF Looked, OpenIsListed
    <3> QED BY <3>2, <3>4, <3>5 DEF OpenIsListed
  <2>3. CASE \A p \in Port : ~OpenSucceeds(p)
    <3> SUFFICES ASSUME NEW q \in Port, reg'[q] # 0
                 PROVE  status'[q] # "none"
      BY DEF OpenIsListed
    <3>1. reg[q] # 0
      BY <1>2, <2>3, OnlyOpenPortOpens
    <3>2. status[q] # "none" /\ Scanned(reg)[q] # "none" /\ Scanned(reg')[q] # "none"
      BY <1>2, <2>1, <3>1, ScanListsOpen DEF OpenIsListed
    <3>3. \A p \in Port : Looked(p)[q] # "none"
      BY <3>2 DEF Looked
    <3>4. \A p : Freed(p)[q] # "none"
      BY <1>2, <3>2 DEF Freed, IInv, TypeOK
    <3>5. \A kind, stage : /\ StatusAt(kind, stage, reg)[q] # "none"
                           /\ StatusAt(kind, stage, reg')[q] # "none"
      BY <3>2 DEF StatusAt
    <3>6. \/ status' = status \/ status' = Scanned(reg)
          \/ \E p \in Port : status' = Looked(p)
          \/ \E p : status' = Freed(p)
          \/ \E kind, stage : \/ status' = StatusAt(kind, stage, reg)
                              \/ status' = StatusAt(kind, stage, reg')
      BY <1>2, <2>3
         DEF Next, vars, ListPorts, OpenRefused, OpenFails, ClosePort, StopResumes,
             CloseEnds, HandlerPops, ReadError, WriteError, ReadLoopEnds,
             WriteLoopEnds, UdevEvent, Shutdown, UdevEnded, ShutdownGoesOn,
             Unplug, Plug, Lock, Glitch
    <3> QED BY <3>2, <3>3, <3>4, <3>5, <3>6
  <2> QED BY <2>2, <2>3
<1> QED BY <1>1, <1>2, InductiveInvariant, PTL DEF Spec

\* The shutdown while it closes ports: every port that is still open is on its list.
ShutdownCovers ==
    /\ task[Stopper].kind = "shutdown"
    /\ task[Stopper].pc \in {"off", "awaitUdev", "stopRead", "stopWrite", "farewell", "over"}
    /\ task[Stopper].pc \in {"stopRead", "stopWrite", "farewell"} => InUse \subseteq todo
    /\ task[Stopper].pc = "over" => InUse = {}

\* After stop() the shutdown says farewell to the clients.
LEMMA ShutdownGoes ==
    ASSUME NEW p, NEW w, NEW stage \in {"stopRead", "stopWrite", "stopped"}
    PROVE  /\ Goes("shutdown", p, w, stage).kind = "shutdown"
           /\ Goes("shutdown", p, w, stage).pc
                 = IF stage = "stopped" THEN "farewell" ELSE stage
<1>1. CASE stage # "stopped"
  BY <1>1 DEF Goes, At, Closing, Handling
<1>2. CASE stage = "stopped"
  <2>1. Goes("shutdown", p, w, stage) = At("shutdown", "farewell", p, 0)
    BY <1>2 DEF Goes, Closing, Handling
  <2> QED BY <1>2, <2>1 DEF At
<1> QED BY <1>1, <1>2

\* From a list that covers the open ports, closing the next one leaves a list that
\* covers the rest.
LEMMA CloseNextCovers ==
    ASSUME IInv, NEW ports \in SUBSET Port, InUse \subseteq ports, CloseNext(ports)
    PROVE  ShutdownCovers'
<1>1. task \in [Task -> TaskType] /\ Stopper \in Task
  BY TaskNumbers DEF IInv, TypeOK, TaskType
<1>2. CASE /\ ports = {}
           /\ task' = [task EXCEPT ![Stopper] = At("shutdown", "over", NoPort, 0)]
           /\ UNCHANGED <<reg, worker>>
  <2>1. task'[Stopper] = At("shutdown", "over", NoPort, 0) /\ InUse' = {}
    BY <1>1, <1>2 DEF InUse
  <2> QED BY <2>1 DEF ShutdownCovers, At
<1>3. ASSUME NEW p \in ports, PopAndStop(p), todo' = ports \ {p},
             task' = [task EXCEPT ![Stopper] =
                        Goes("shutdown", p, reg[p], Stage(reg[p]))]
      PROVE  ShutdownCovers'
  <2>1. reg'[p] = 0 /\ \A q \in Port : q # p => reg'[q] = reg[q]
    BY <1>3, PopEffect DEF IInv
  <2>2. InUse' \subseteq todo'
    BY <1>3, <2>1 DEF InUse
  <2>3. Stage(reg[p]) \in {"stopRead", "stopWrite", "stopped"}
    BY StageType
  <2>4. task'[Stopper] = Goes("shutdown", p, reg[p], Stage(reg[p]))
    BY <1>1, <1>3
  <2>5. /\ task'[Stopper].kind = "shutdown"
        /\ task'[Stopper].pc \in {"stopRead", "stopWrite", "farewell"}
    BY <2>3, <2>4, ShutdownGoes
  <2> QED BY <2>2, <2>5 DEF ShutdownCovers
<1> QED BY <1>2, <1>3 DEF CloseNext

\* When the shutdown is over, no port is open, and every link that is still open
\* is being closed by a handler that had taken its worker before.
THEOREM ShutdownReleasesHolds == Spec => []ShutdownReleases
<1>1. Init => ShutdownCovers
  BY TaskNumbers, SizesAssumption
     DEF Init, ShutdownCovers, At, Udev, Stopper
<1>2. ASSUME IInv, ShutdownCovers, [Next]_vars
      PROVE  ShutdownCovers'
  <2>1. task \in [Task -> TaskType] /\ Stopper \in Task
    BY <1>2, TaskNumbers DEF IInv, TypeOK, TaskType
  <2>2. Stopper \notin Call /\ Stopper \notin Worker /\ Stopper # Udev
    BY SizesAssumption DEF Stopper, Call, Worker, Udev
  <2>3. CASE UdevEnded
    <3>1. InUse \in SUBSET Port /\ InUse \subseteq InUse /\ CloseNext(InUse)
      BY <2>3 DEF UdevEnded, InUse
    <3> QED BY <1>2, <3>1, CloseNextCovers
  <2>4. CASE ShutdownGoesOn
    <3>1. InUse \subseteq todo /\ CloseNext(todo) /\ todo \in SUBSET Port
      BY <1>2, <2>4 DEF ShutdownGoesOn, ShutdownCovers, IInv, TypeOK
    <3> QED BY <1>2, <3>1, CloseNextCovers
  <2>5. CASE \E p \in Port : OpenSucceeds(p)
    <3>1. task[Stopper].pc = "off" /\ UNCHANGED task
      BY <2>5 DEF OpenSucceeds, Admitted, MayOpen, Serving
    <3> QED BY <1>2, <3>1 DEF ShutdownCovers
  <2>6. CASE Shutdown
    <3>1. task'[Stopper] = [task[Stopper] EXCEPT !.pc = "awaitUdev"]
      BY <2>1, <2>2, <2>6 DEF Shutdown
    <3>2. task'[Stopper].pc = "awaitUdev" /\ task'[Stopper].kind = task[Stopper].kind
      BY <2>1, <3>1 DEF TaskType
    <3> QED BY <1>2, <3>2 DEF ShutdownCovers
  <2>7. CASE /\ ~UdevEnded /\ ~ShutdownGoesOn /\ ~Shutdown
             /\ \A p \in Port : ~OpenSucceeds(p)
    <3>1. InUse' \subseteq InUse
      BY <1>2, <2>7, OnlyOpenPortOpens DEF InUse
    <3>2. todo' = todo
      BY <1>2, <2>7
         DEF Next, vars, ListPorts, OpenRefused, OpenFails, ClosePort, StopResumes,
             CloseEnds, HandlerPops, ReadError, WriteError, ReadLoopEnds,
             WriteLoopEnds, UdevEvent, Unplug, Plug, Lock, Glitch
    <3>3. CASE StopResumes(Stopper)
      <4>1. task'[Stopper] = Goes(task[Stopper].kind, task[Stopper].port,
                                  task[Stopper].wk, NextStage(Stopper))
        BY <2>1, <3>3 DEF StopResumes
      <4>2. NextStage(Stopper) \in {"stopWrite", "stopped"}
        BY DEF NextStage
      <4>3. task[Stopper].kind = "shutdown"
        BY <1>2 DEF ShutdownCovers
      <4>4. /\ task'[Stopper].kind = "shutdown"
            /\ task'[Stopper].pc \in {"stopWrite", "farewell"}
        BY <4>1, <4>2, <4>3, ShutdownGoes
      <4>5. InUse \subseteq todo
        BY <1>2, <3>3 DEF ShutdownCovers, StopResumes
      <4> QED BY <3>1, <3>2, <4>4, <4>5 DEF ShutdownCovers
    <3>4. CASE ~StopResumes(Stopper)
      <4>1. ~CloseEnds(Stopper) /\ ~HandlerPops(Stopper)
        BY <1>2 DEF ShutdownCovers, CloseEnds, HandlerPops
      <4>2. task'[Stopper] = task[Stopper]
        <5>1. ASSUME NEW t \in Task, StopResumes(t) \/ CloseEnds(t) \/ HandlerPops(t)
              PROVE  task'[Stopper] = task[Stopper]
          <6>1. t # Stopper
            BY <5>1, <3>4, <4>1
          <6>2. \E s : task' = [task EXCEPT ![t] = s]
            BY <5>1 DEF StopResumes, CloseEnds, HandlerPops
          <6> QED BY <6>1, <6>2, <2>1
        <5>2. ASSUME NEW w \in Worker, ReadError(w) \/ WriteError(w)
              PROVE  task'[Stopper] = task[Stopper]
          BY <5>2, <2>1, TaskNumbers DEF ReadError, WriteError, Report
        <5>3. ASSUME NEW p \in Port, NEW t \in Call, OpenFails(p, t) \/ ClosePort(p, t)
              PROVE  task'[Stopper] = task[Stopper]
          <6>1. t # Stopper
            BY SizesAssumption DEF Call, Stopper
          <6> QED BY <5>3, <6>1, <2>1 DEF OpenFails, ClosePort
        <5>4. CASE UdevEvent
          <6>1. Udev # Stopper
            BY SizesAssumption DEF Udev, Stopper
          <6> QED BY <5>4, <6>1, <2>1 DEF UdevEvent
        <5>5. CASE \/ ListPorts \/ UNCHANGED vars
                   \/ \E p \in Port : \/ OpenRefused(p)
                                        \/ Unplug(p) \/ Plug(p) \/ Lock(p)
                   \/ \E w \in Worker : \/ ReadLoopEnds(w) \/ WriteLoopEnds(w)
                                          \/ Glitch(w)
          BY <5>5 DEF vars, ListPorts, OpenRefused, Unplug, Plug, Lock,
                      ReadLoopEnds, WriteLoopEnds, Glitch
        <5> QED BY <1>2, <2>7, <5>1, <5>2, <5>3, <5>4, <5>5 DEF Next
      <4> QED BY <1>2, <3>1, <3>2, <4>2 DEF ShutdownCovers
    <3> QED BY <3>3, <3>4
  <2> QED BY <2>3, <2>4, <2>5, <2>6, <2>7
<1>3. IInv /\ ShutdownCovers => ShutdownReleases
  <2> SUFFICES ASSUME IInv, ShutdownCovers, task[Stopper].pc = "over"
               PROVE  /\ InUse = {}
                      /\ \A w \in Worker : worker[w].link = "open" => Stopping(w) # {}
    BY DEF ShutdownReleases
  <2>1. InUse = {}
    BY DEF ShutdownCovers
  <2>2. ASSUME NEW w \in Worker, worker[w].link = "open"
        PROVE  Stopping(w) # {}
    <3>1. \A p \in Port : reg[p] # w
      BY <2>1 DEF InUse, Worker
    <3>2. PICK t \in Task : InStop(t) /\ task[t].wk = w
      BY <2>2, <3>1 DEF IInv, Core, OpenIsOwned
    <3> QED BY <3>2 DEF Stopping, InStop
  <2> QED BY <2>1, <2>2
<1> QED BY <1>1, <1>2, <1>3, InductiveInvariant, PTL DEF Spec

=============================================================================
