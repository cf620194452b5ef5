----------------------------- MODULE Lifecycle -----------------------------
(***************************************************************************)
(* The life of the process: main, the signal handler, the construction,    *)
(* Run, Stop and destruction of the Server (main.cpp, server.cpp), and the *)
(* thread that publishes metrics (metrics.cpp).                            *)
(*                                                                         *)
(* A signal interrupts any thread, and its handler runs on that thread:    *)
(* it takes g_shutdown_mutex, asks for the shutdown, calls Stop and        *)
(* notifies main.  main may find the request before the handler has come   *)
(* that far, or with no server published yet, and calls Stop itself.       *)
(* Meanwhile the workers are in the middle of the callbacks of io_context. *)
(*                                                                         *)
(* Data abstraction: one client session stands for all; pending sends and  *)
(* queued messages are counted; the two timers are one.  Which task gives  *)
(* way to sending_in_progress_ is the subject of module SendQueue and a    *)
(* free choice here.  registry_mutex_ shows where it is never released: a  *)
(* cleanup that removed a session locks it twice.                          *)
(***************************************************************************)
EXTENDS Naturals, FiniteSets

CONSTANTS
  Workers,                \* the threads of Run
  Main, Server, Updater,  \* main, server_thread and the metrics' thread
  NoThread,               \* nobody: a mutex that is free
  MaxSignals,             \* a bound on the signals sent to the process
  MaxSends                \* a bound on the messages handlers send

Threads == Workers \cup {Main, Server, Updater}

ASSUME LifecycleAssumption ==
  /\ {Main, Server, Updater} \cap Workers = {}
  /\ Cardinality({Main, Server, Updater}) = 3
  /\ NoThread \notin Threads
  /\ MaxSignals \in Nat /\ MaxSends \in Nat

VARIABLES
  pc,          \* where each thread is, apart from Stop and the handler
  handler,     \* where the signal handler is that interrupts each thread
  stopAt,      \* where each thread is in Stop
  requested,   \* g_shutdown_requested
  shutdownMx,  \* who holds g_shutdown_mutex
  notified,    \* has g_shutdown_cv been notified while main waits?
  published,   \* g_server_ptr is not null
  running,     \* running_
  socket,      \* router_socket_ is open
  stopped,     \* io_context_.stop() has been called
  armed,       \* an async_wait on the descriptor is outstanding
  timer,       \* a timer is set
  tasks,       \* the tasks posted to io_context_
  pending,     \* the size of pending_sends_
  sendsMx,     \* who holds pending_sends_mutex_ across a step
  online,      \* is_online_ of the session
  queued,      \* the size of its outgoing_queue_
  store,       \* storage_ exists
  updating,    \* updater_running_
  aborted,     \* std::terminate was called
  signals,     \* the signals sent so far
  sends        \* the sends handlers have started

mainVars == <<requested, shutdownMx, notified, published>>
ioVars == <<socket, stopped, armed, timer, tasks>>
sendVars == <<pending, sendsMx, online, queued, sends>>
serverVars == <<running, ioVars, sendVars, store, updating>>
vars == <<pc, handler, stopAt, mainVars, serverVars, aborted, signals>>

Init ==
  /\ pc = [t \in Threads |-> IF t = Main THEN "args" ELSE "unborn"]
  /\ handler = [t \in Threads |-> "none"]
  /\ stopAt = [t \in Threads |-> "none"]
  /\ requested = FALSE
  /\ shutdownMx = NoThread
  /\ notified = FALSE
  /\ published = FALSE
  /\ running = TRUE
  /\ socket = FALSE
  /\ stopped = FALSE
  /\ armed = FALSE
  /\ timer = FALSE
  /\ tasks = 0
  /\ pending = 0
  /\ sendsMx = NoThread
  /\ online = TRUE
  /\ queued = 0
  /\ store = FALSE
  /\ updating = FALSE
  /\ aborted = FALSE
  /\ signals = 0
  /\ sends = 0

\* t is at `from` and goes on: no handler interrupts it, it is not in Stop.
At(t, from) ==
  /\ ~aborted
  /\ handler[t] = "none"
  /\ stopAt[t] = "none"
  /\ pc[t] = from

Goto(t, to) ==
  /\ pc' = [pc EXCEPT ![t] = to]
  /\ UNCHANGED <<handler, aborted, signals>>

-----------------------------------------------------------------------------
(* Stop *)

\* A Stop that looks at the flag and leaves it set.
StopExchange_LoadOnly(t) ==
  /\ stopAt[t] = "exchange"
  /\ stopAt' = [stopAt EXCEPT ![t] = IF running THEN "drain" ELSE "none"]
  /\ UNCHANGED <<running, ioVars, pending, online>>

\* Only the first caller goes on.
StopExchange(t) ==
  /\ stopAt[t] = "exchange"
  /\ running' = FALSE
  /\ stopAt' = [stopAt EXCEPT ![t] = IF running THEN "drain" ELSE "none"]
  /\ UNCHANGED <<ioVars, pending, online>>

\* The callbacks of the sends that are pending mark their sessions offline.
StopDrain(t) ==
  /\ stopAt[t] = "drain"
  /\ sendsMx = NoThread
  /\ pending' = 0
  /\ online' = (online /\ pending = 0)
  /\ stopAt' = [stopAt EXCEPT ![t] = "timers"]
  /\ UNCHANGED <<running, ioVars>>

StopTimers(t) ==
  /\ stopAt[t] = "timers"
  /\ timer' = FALSE
  /\ stopAt' = [stopAt EXCEPT ![t] = "close"]
  /\ UNCHANGED <<running, socket, stopped, armed, tasks, pending, online>>

StopClose(t) ==
  /\ stopAt[t] = "close"
  /\ socket' = FALSE
  /\ stopAt' = [stopAt EXCEPT ![t] = "release"]
  /\ UNCHANGED <<running, stopped, armed, timer, tasks, pending, online>>

\* The work guard goes and io_context_.stop() lets every worker return.
StopRelease(t) ==
  /\ stopAt[t] = "release"
  /\ stopped' = TRUE
  /\ stopAt' = [stopAt EXCEPT ![t] = "none"]
  /\ UNCHANGED <<running, socket, armed, timer, tasks, pending, online>>

Stop(t) ==
  /\ ~aborted
  /\ handler[t] \in {"none", "stopping"}
  /\ \/ StopExchange(t) \/ StopDrain(t) \/ StopTimers(t) \/ StopClose(t)
     \/ StopRelease(t)
  /\ UNCHANGED <<pc, handler, mainVars, sendsMx, queued, sends, store, updating,
                 aborted, signals>>

-----------------------------------------------------------------------------
(* SignalHandler *)

Installed == pc[Main] \notin {"args", "exit"}

\* A signal interrupts a thread that exists.
Signal(t) ==
  /\ ~aborted
  /\ Installed
  /\ signals < MaxSignals
  /\ pc[t] \notin {"unborn", "done"}
  /\ handler[t] = "none"
  /\ handler' = [handler EXCEPT ![t] = "lock"]
  /\ signals' = signals + 1
  /\ UNCHANGED <<pc, stopAt, mainVars, aborted, serverVars>>

HandlerFrame ==
  UNCHANGED <<pc, aborted, signals, serverVars>>

\* Its critical section: the first one asks, a later one returns.
HandlerRequest(t) ==
  /\ ~aborted
  /\ handler[t] = "lock"
  /\ shutdownMx = NoThread
  /\ handler' = [handler EXCEPT ![t] = IF requested THEN "none" ELSE "load"]
  /\ requested' = TRUE
  /\ HandlerFrame
  /\ UNCHANGED <<stopAt, shutdownMx, notified, published>>

\* The server is stopped if there is one.
HandlerLoad(t) ==
  /\ ~aborted
  /\ handler[t] = "load"
  /\ handler' = [handler EXCEPT ![t] = "stopping"]
  /\ stopAt' = IF published THEN [stopAt EXCEPT ![t] = "exchange"] ELSE stopAt
  /\ HandlerFrame
  /\ UNCHANGED mainVars

HandlerNotify(t) ==
  /\ ~aborted
  /\ handler[t] = "stopping"
  /\ stopAt[t] = "none"
  /\ handler' = [handler EXCEPT ![t] = "none"]
  /\ notified' = (notified \/ pc[Main] = "waiting")
  /\ HandlerFrame
  /\ UNCHANGED <<stopAt, requested, shutdownMx, published>>

Handler(t) == HandlerRequest(t) \/ HandlerLoad(t) \/ HandlerNotify(t)

-----------------------------------------------------------------------------
(* main *)

\* ParseArgs: a wrong option, or --help, ends the program; otherwise the
\* handlers of the signals are installed.
MainArgs ==
  /\ At(Main, "args")
  /\ \E to \in {"construct", "exit"} : Goto(Main, to)
  /\ UNCHANGED <<stopAt, mainVars, serverVars>>

\* The constructor: the metrics' thread, if metrics are enabled and their port
\* is free, the store, the router, the socket and the first async_wait.  When
\* it throws, what it made is destroyed and main returns.
MainConstruct ==
  /\ At(Main, "construct")
  /\ \/ /\ \E metrics \in BOOLEAN :
             /\ pc' = [pc EXCEPT ![Main] = "publish",
                                 ![Updater] = IF metrics THEN "loop" ELSE @]
             /\ updating' = metrics
        /\ store' = TRUE
        /\ socket' = TRUE
        /\ armed' = TRUE
        /\ UNCHANGED <<handler, aborted, signals>>
     \/ /\ Goto(Main, "exit")
        /\ UNCHANGED <<store, socket, armed, updating>>
  /\ UNCHANGED <<stopAt, mainVars, running, stopped, timer, tasks, sendVars>>

\* The pointer is published and the thread that runs the server starts.
MainPublish ==
  /\ At(Main, "publish")
  /\ published' = TRUE
  /\ pc' = [pc EXCEPT ![Main] = "lock", ![Server] = "run"]
  /\ UNCHANGED <<handler, stopAt, requested, shutdownMx, notified, serverVars,
                 aborted, signals>>

\* The unique_lock, and the lock that wait takes again when it returns, notified
\* or not; a wake-up that finds no request changes nothing and is left out.
MainLock ==
  /\ \/ At(Main, "lock")
     \/ At(Main, "waiting") /\ (notified \/ requested)
  /\ shutdownMx = NoThread
  /\ shutdownMx' = Main
  /\ notified' = FALSE
  /\ Goto(Main, "locked")
  /\ UNCHANGED <<stopAt, requested, published, serverVars>>

\* The predicate of the wait, with the mutex held; either way it is released.
MainPredicate ==
  /\ At(Main, "locked")
  /\ shutdownMx' = NoThread
  /\ Goto(Main, IF requested THEN "check" ELSE "waiting")
  /\ UNCHANGED <<stopAt, requested, notified, published, serverVars>>

\* A main that leaves Stop to the signal handler.
MainCheck_NoStop ==
  /\ At(Main, "check")
  /\ Goto(Main, "join")
  /\ UNCHANGED <<stopAt, mainVars, serverVars>>

\* main stops the server if nobody has begun to.
MainCheck ==
  /\ At(Main, "check")
  /\ Goto(Main, "join")
  /\ stopAt' = IF running THEN [stopAt EXCEPT ![Main] = "exchange"] ELSE stopAt
  /\ UNCHANGED <<mainVars, serverVars>>

\* server_thread is joined, then the pointer is cleared.
MainJoin ==
  /\ At(Main, "join")
  /\ pc[Server] = "done"
  /\ published' = FALSE
  /\ Goto(Main, "destroy")
  /\ UNCHANGED <<stopAt, requested, shutdownMx, notified, serverVars>>

\* ~Server calls Stop, which returns at once by now, and StopUpdater,
MainDestroy ==
  /\ At(Main, "destroy")
  /\ stopAt' = [stopAt EXCEPT ![Main] = "exchange"]
  /\ updating' = FALSE
  /\ Goto(Main, "joinUpdater")
  /\ UNCHANGED <<mainVars, running, ioVars, sendVars, store>>

\* which joins the thread if there is one.
MainJoinUpdater ==
  /\ At(Main, "joinUpdater")
  /\ pc[Updater] \in {"unborn", "done"}
  /\ Goto(Main, "members")
  /\ UNCHANGED <<stopAt, mainVars, serverVars>>

\* The members go in the reverse order of their declaration: pending_sends_
\* and storage_ first,
MainDropStorage ==
  /\ At(Main, "members")
  /\ store' = FALSE
  /\ pending' = 0
  /\ Goto(Main, "router")
  /\ UNCHANGED <<stopAt, mainVars, running, ioVars, sendsMx, online, queued,
                 sends, updating>>

\* router_ with its sessions after it, whose queues ~Session persists.
MainDropRouter ==
  /\ At(Main, "router")
  /\ queued' = 0
  /\ Goto(Main, "exit")
  /\ UNCHANGED <<stopAt, mainVars, running, ioVars, pending, sendsMx, online,
                 sends, store, updating>>

MainStep ==
  \/ MainArgs \/ MainConstruct \/ MainPublish \/ MainPredicate \/ MainCheck
  \/ MainJoin \/ MainDestroy \/ MainJoinUpdater \/ MainDropStorage
  \/ MainDropRouter

-----------------------------------------------------------------------------
(* Run, on server_thread *)

RunFrame == UNCHANGED <<stopAt, mainVars, running, socket, stopped, armed,
                        tasks, sendVars, store, updating>>

\* SetupCleanupTimer and SetupAckTimeoutTimer, called by Run and by the callback
\* of a timer: a look at running_, then the timer is replaced and waited for.
SetTimer(next) == IF running THEN "replace" ELSE next

ReplaceTimer(t, next) ==
  /\ At(t, "replace")
  /\ timer' = TRUE
  /\ Goto(t, next)
  /\ RunFrame

RunStart ==
  /\ At(Server, "run")
  /\ Goto(Server, SetTimer("workers"))
  /\ RunFrame
  /\ UNCHANGED timer

RunSpawn ==
  /\ At(Server, "workers")
  /\ pc' = [t \in Threads |-> IF t \in Workers THEN "idle"
                              ELSE IF t = Server THEN "joining" ELSE pc[t]]
  /\ RunFrame
  /\ UNCHANGED <<handler, timer, aborted, signals>>

\* A Run that does not join its workers.
RunJoin_NoJoin ==
  /\ At(Server, "joining")
  /\ Goto(Server, "done")
  /\ RunFrame
  /\ UNCHANGED timer

RunJoin ==
  /\ At(Server, "joining")
  /\ \A w \in Workers : pc[w] = "done"
  /\ Goto(Server, "done")
  /\ RunFrame
  /\ UNCHANGED timer

RunStep ==
  \/ RunStart
  \/ ReplaceTimer(Server, "workers")
  \/ RunSpawn
  \/ RunJoin

-----------------------------------------------------------------------------
(* The updater of the metrics *)

UpdaterExit ==
  /\ At(Updater, "loop")
  /\ ~updating
  /\ Goto(Updater, "done")
  /\ UNCHANGED <<stopAt, mainVars, serverVars>>

-----------------------------------------------------------------------------
(* The workers: io_context_.run() and its callbacks *)

WorkerFrame == UNCHANGED <<stopAt, mainVars, running, socket, stopped, store,
                           updating>>

\* run() returns once the context is stopped.
WorkerExit(w) ==
  /\ At(w, "idle")
  /\ stopped
  /\ Goto(w, "done")
  /\ WorkerFrame
  /\ UNCHANGED <<armed, timer, tasks, sendVars>>

\* A callback starts: OnZmqEvent, the task of ScheduleSendProcessing, a timer.
\* Each looks at running_ first.
Dispatch(w) ==
  /\ At(w, "idle")
  /\ ~stopped
  /\ \/ /\ armed
        /\ \E failed \in BOOLEAN :
             /\ armed' = (failed /\ running)
             /\ Goto(w, IF running /\ ~failed THEN "evSend" ELSE "idle")
        /\ UNCHANGED <<timer, tasks>>
     \/ /\ tasks > 0
        /\ tasks' = tasks - 1
        /\ \E to \in {"send", "idle"} : (to = "send" => running) /\ Goto(w, to)
        /\ UNCHANGED <<armed, timer>>
     \/ /\ timer
        /\ timer' = FALSE
        /\ Goto(w, IF running THEN "body" ELSE "idle")
        /\ UNCHANGED <<armed, tasks>>
  /\ WorkerFrame
  /\ UNCHANGED sendVars

\* ProcessPendingSends catches what a closed socket throws: the callbacks hear
\* of the failure.
SendBatch(w, from, next) ==
  /\ At(w, from)
  /\ sendsMx = NoThread
  /\ pending' = 0
  /\ online' \in {online /\ (pending = 0 \/ socket), online /\ pending = 0}
  /\ Goto(w, next)
  /\ WorkerFrame
  /\ UNCHANGED <<armed, timer, tasks, sendsMx, queued, sends>>

\* A call on the socket outside of a try block: on a closed socket it throws
\* through run() and the thread, which ends the process.
SocketThrows(w, from) ==
  /\ At(w, from)
  /\ ~socket
  /\ aborted' = TRUE
  /\ UNCHANGED <<pc, handler, stopAt, mainVars, serverVars, signals>>

\* The head of the receive loop; while the event is handled nothing is armed.
NextRecv == IF running THEN "recv" ELSE "idle"

Rearm(w) ==
  /\ armed' = running
  /\ Goto(w, "idle")

\* router_socket_.get(events), with or without ZMQ_POLLIN.
EventPoll(w) ==
  /\ At(w, "poll")
  /\ socket
  /\ (Goto(w, NextRecv) /\ UNCHANGED armed) \/ Rearm(w)
  /\ WorkerFrame
  /\ UNCHANGED <<timer, tasks, sendVars>>

\* recv finds a message or an empty socket.
EventRecv(w) ==
  /\ At(w, "recv")
  /\ socket
  /\ (Goto(w, "handle") /\ UNCHANGED armed) \/ Rearm(w)
  /\ WorkerFrame
  /\ UNCHANGED <<timer, tasks, sendVars>>

\* A cleanup waits for registry_mutex_, which its own thread holds.
Relocked == \E w \in Workers : pc[w] = "relock"

\* RouteMessage, which locks the registry, and a handler, which may find a session
\* online to send to.
EventHandle(w) ==
  /\ At(w, "handle")
  /\ ~Relocked
  /\ \/ Goto(w, NextRecv) /\ UNCHANGED sends
     \/ /\ online
        /\ sends < MaxSends
        /\ sends' = sends + 1
        /\ Goto(w, "evSendTo")
  /\ WorkerFrame
  /\ UNCHANGED <<armed, timer, tasks, pending, sendsMx, online, queued>>

\* CheckExpiredAcks may send; CleanupInactiveSessions may end the session, and
\* then asks for the mutex it holds, because Server always has metrics: its
\* thread stays at "relock" for good.
TimerBody(w) ==
  /\ At(w, "body")
  /\ \/ Goto(w, SetTimer("idle")) /\ UNCHANGED <<online, queued, sends>>
     \/ /\ ~Relocked
        /\ online
        /\ sends < MaxSends
        /\ sends' = sends + 1
        /\ Goto(w, "tmSendTo")
        /\ UNCHANGED <<online, queued>>
     \/ /\ ~Relocked
        /\ online' = FALSE
        /\ queued' = 0
        /\ Goto(w, "relock")
        /\ UNCHANGED sends
  /\ WorkerFrame
  /\ UNCHANGED <<armed, timer, tasks, pending, sendsMx>>

\* Session::SendMessage: an online session pushes under pending_sends_mutex_,
\* another one queues.
SendTo(w, from, push, next) ==
  /\ At(w, from)
  /\ \/ /\ online
        /\ sendsMx = NoThread
        /\ sendsMx' = w
        /\ Goto(w, push)
        /\ UNCHANGED queued
     \/ /\ ~online
        /\ queued' = queued + 1
        /\ Goto(w, next)
        /\ UNCHANGED sendsMx
  /\ WorkerFrame
  /\ UNCHANGED <<armed, timer, tasks, pending, online, sends>>

\* A push that leaves the mutex locked.
Push_Locked(w, from, next) ==
  /\ At(w, from)
  /\ pending' = pending + 1
  /\ tasks' = tasks + 1
  /\ Goto(w, next)
  /\ WorkerFrame
  /\ UNCHANGED <<armed, timer, sendsMx, online, queued, sends>>

\* SendToClient: the push, and the task that is posted after it.
Push(w, from, next) ==
  /\ At(w, from)
  /\ pending' = pending + 1
  /\ tasks' = tasks + 1
  /\ sendsMx' = NoThread
  /\ Goto(w, next)
  /\ WorkerFrame
  /\ UNCHANGED <<armed, timer, online, queued, sends>>

WorkerStep(w) ==
  \/ WorkerExit(w)
  \/ SendBatch(w, "evSend", "poll") \/ SendBatch(w, "send", "idle")
  \/ EventPoll(w) \/ EventRecv(w) \/ EventHandle(w)
  \/ SocketThrows(w, "poll") \/ SocketThrows(w, "recv")
  \/ SendTo(w, "evSendTo", "evPush", NextRecv) \/ Push(w, "evPush", NextRecv)
  \/ TimerBody(w) \/ ReplaceTimer(w, "idle")
  \/ SendTo(w, "tmSendTo", "tmPush", SetTimer("idle"))
  \/ Push(w, "tmPush", SetTimer("idle"))

-----------------------------------------------------------------------------

\* A handler waits for a mutex that the thread it interrupts holds.
SelfLocked ==
  \E t \in Threads :
    \/ handler[t] = "lock" /\ shutdownMx = t
    \/ stopAt[t] = "drain" /\ sendsMx = t

\* The process has ended.
Ended == pc[Main] = "exit" \/ aborted

\* Where nothing more need happen.
Halted == (Ended \/ SelfLocked \/ Relocked) /\ UNCHANGED vars

ThreadStep(t) ==
  \/ Stop(t)
  \/ Handler(t)
  \/ t = Main /\ MainStep
  \/ t = Server /\ RunStep
  \/ t = Updater /\ UpdaterExit
  \/ t \in Workers /\ WorkerStep(t)

Next ==
  \/ \E t \in Threads : ThreadStep(t) \/ Signal(t)
  \/ MainLock
  \/ \E w \in Workers : Dispatch(w)
  \/ Halted

Spec == Init /\ [][Next]_vars

\* Every thread goes on with what it is doing, and main from its wait when it
\* was notified; nothing is assumed of signals, messages, timers and of wake-ups
\* that nobody asked for.
FairSpec ==
  /\ Spec
  /\ \A t \in Threads : WF_vars(ThreadStep(t))
  /\ WF_vars(MainLock /\ (pc[Main] = "lock" \/ notified))

-----------------------------------------------------------------------------
(* Properties *)

MainPCs == {"args", "construct", "publish", "lock", "locked", "waiting",
            "check", "join", "destroy", "joinUpdater", "members", "router",
            "exit"}
ServerPCs == {"unborn", "run", "replace", "workers", "joining", "done"}
WorkerPCs == {"unborn", "idle", "evSend", "send", "poll", "recv", "handle",
              "evSendTo", "evPush", "body", "relock", "tmSendTo", "tmPush",
              "replace", "done"}

\* Every variable keeps its type, and a mutex is held exactly where a thread is
\* in its critical section.
TypeOK ==
  /\ pc[Main] \in MainPCs
  /\ pc[Server] \in ServerPCs
  /\ pc[Updater] \in {"unborn", "loop", "done"}
  /\ \A w \in Workers : pc[w] \in WorkerPCs
  /\ handler \in [Threads -> {"none", "lock", "load", "stopping"}]
  /\ stopAt \in [Threads -> {"none", "exchange", "drain", "timers", "close",
                             "release"}]
  /\ {requested, notified, published, running, socket, stopped, armed, timer,
      online, store, updating, aborted} \subseteq BOOLEAN
  /\ {tasks, pending, queued, signals, sends} \subseteq Nat
  /\ shutdownMx = IF pc[Main] = "locked" THEN Main ELSE NoThread
  /\ \A w \in Workers : pc[w] \in {"evPush", "tmPush"} <=> sendsMx = w

\* Stop has one performer: whoever else calls it, from a handler on any thread,
\* from main or from the destructor, returns at once, so the socket is closed
\* once and the queue drained once.
StopsOnce ==
  Cardinality({t \in Threads : stopAt[t] \in {"drain", "timers", "close",
                                              "release"}}) <= 1

\* The server outlives everyone who uses it.  When main destroys its members,
\* server_thread, the workers and the updater have ended, and no signal handler
\* has read the pointer and is still to call Stop or inside it, whichever
\* thread the signal interrupted.
ServerOutlivesUsers ==
  pc[Main] \in {"members", "router", "exit"} =>
    /\ \A t \in Threads \ {Main} : pc[t] \in {"unborn", "done"}
    /\ \A t \in Threads : stopAt[t] = "none"

\* A signal is never lost: whenever it comes, before the server exists, before
\* the pointer is published, while main is about to wait, the process ends,
\* unless the handler interrupted a thread that holds a mutex it needs.  A worker
\* that cleanup has stuck in a lock of its own never ends, and main waits for it:
\* then the signal stops the server, but not the process.
ShutdownCompletes ==
  (signals > 0) ~> (Ended \/ SelfLocked \/ (Relocked /\ stopped))

\* The thread t is about to receive, to send a batch or to close.
Receives(t) == pc[t] \in {"poll", "recv"}
Sends(t) == pc[t] \in {"evSend", "send"} /\ pending > 0
Closes(t) == stopAt[t] = "close"

\* What threads share is used by one at a time, and not after it is gone: the
\* socket, which handlers read, tasks write and Stop closes; the timer that Stop
\* cancels and a callback replaces; the store that ~Session writes to.
SharedStateGuarded ==
  /\ \A t, u \in Threads :
       /\ Receives(t) /\ Sends(u) => t = u
       /\ (Receives(t) \/ Sends(t)) /\ Closes(u) => t = u
       /\ ~(stopAt[t] = "timers" /\ pc[u] = "replace")
  /\ ~socket => \A t \in Threads : ~Receives(t)
  /\ pc[Main] = "router" => queued = 0
=============================================================================
