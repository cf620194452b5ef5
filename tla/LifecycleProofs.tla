-------------------------- MODULE LifecycleProofs --------------------------
(***************************************************************************)
(* The end of the process, for any number of workers, signals and sends:   *)
(* Stop has one performer, and the server outlives everyone who uses it.   *)
(*                                                                         *)
(* Neither is inductive.  LifeInv adds in which order the threads begin    *)
(* and end (Phases), that a thread that has not begun or has ended is      *)
(* neither in Stop nor in a signal handler, and that nobody is in Stop     *)
(* before a shutdown is asked for (Interruptions).                         *)
(***************************************************************************)
EXTENDS Lifecycle, FiniteSetTheorems, TLAPS

Asleep == {"unborn", "done"}
Performing == {"drain", "timers", "close", "release"}
AllPCs == MainPCs \cup ServerPCs \cup WorkerPCs \cup {"loop"}

PcsOK == pc \in [Threads -> AllPCs]

\* main starts server_thread, which starts the workers; they end in the reverse
\* order.  The pointer is published while server_thread may live.
Phases ==
  /\ pc[Main] \in {"args", "construct", "publish"} => pc[Server] = "unborn"
  /\ pc[Main] \in {"args", "construct"} => pc[Updater] = "unborn"
  /\ pc[Main] \in {"destroy", "joinUpdater", "members", "router"} =>
       pc[Server] = "done"
  /\ pc[Main] = "exit" => pc[Server] \in Asleep
  /\ pc[Main] \in {"members", "router", "exit"} => pc[Updater] \in Asleep
  /\ pc[Server] \in {"unborn", "run", "replace", "workers"} =>
       \A w \in Workers : pc[w] = "unborn"
  /\ pc[Server] = "done" => \A w \in Workers : pc[w] = "done"
  /\ published => pc[Main] \in {"lock", "locked", "waiting", "check", "join"}

\* Who can be in Stop or in a signal handler.
Interruptions ==
  /\ \A t \in Threads : pc[t] \in Asleep =>
       handler[t] = "none" /\ stopAt[t] = "none"
  /\ \A t \in Threads : handler[t] = "load" => stopAt[t] = "none"
  /\ \A t \in Threads : handler[t] \in {"load", "stopping"} => requested
  /\ pc[Main] \in {"check", "join", "destroy", "joinUpdater"} => requested
  /\ ~requested => \A t \in Threads : stopAt[t] = "none"
  /\ pc[Main] \in {"members", "router", "exit"} => stopAt[Main] = "none"
  /\ pc[Main] = "exit" => handler[Main] = "none"

\* One thread performs Stop, and running_ tells the others.
OnePerformer ==
  /\ \A t, u \in Threads :
       stopAt[t] \in Performing /\ stopAt[u] \in Performing => t = u
  /\ (\E t \in Threads : stopAt[t] \in Performing) => ~running

\* The parts of TypeOK: control, flags and counters.
ControlOK ==
  /\ PcsOK
  /\ pc[Main] \in MainPCs
  /\ pc[Server] \in ServerPCs
  /\ pc[Updater] \in {"unborn", "loop", "done"}
  /\ \A w \in Workers : pc[w] \in WorkerPCs
  /\ handler \in [Threads -> {"none", "lock", "load", "stopping"}]
  /\ stopAt \in [Threads -> {"none", "exchange", "drain", "timers", "close",
                             "release"}]
  /\ shutdownMx = IF pc[Main] = "locked" THEN Main ELSE NoThread
  /\ \A w \in Workers : pc[w] \in {"evPush", "tmPush"} <=> sendsMx = w

FlagsOK ==
  /\ requested \in BOOLEAN /\ notified \in BOOLEAN /\ published \in BOOLEAN
  /\ running \in BOOLEAN /\ socket \in BOOLEAN /\ stopped \in BOOLEAN
  /\ armed \in BOOLEAN /\ timer \in BOOLEAN /\ online \in BOOLEAN
  /\ store \in BOOLEAN /\ updating \in BOOLEAN /\ aborted \in BOOLEAN

CountersOK ==
  /\ tasks \in Nat /\ pending \in Nat /\ queued \in Nat
  /\ signals \in Nat /\ sends \in Nat

ControlInv == ControlOK /\ Phases /\ Interruptions /\ OnePerformer

LifeInv == ControlInv /\ FlagsOK /\ CountersOK

-----------------------------------------------------------------------------
(* The threads *)

\* main, server_thread, the updater and the workers are different threads.
LEMMA Distinct ==
  /\ Main # Server /\ Main # Updater /\ Server # Updater
  /\ {Main, Server, Updater} \cap Workers = {}
  /\ {Main, Server, Updater} \subseteq Threads /\ Workers \subseteq Threads
  /\ NoThread \notin Threads
<1>1. ASSUME NEW a, NEW b PROVE Cardinality({a, b}) # 3
  <2>1. IsFiniteSet({a}) /\ Cardinality({a}) = 1
    BY FS_Singleton
  <2>2. Cardinality({a} \cup {b}) =
          IF b \in {a} THEN Cardinality({a}) ELSE Cardinality({a}) + 1
    BY <2>1, FS_AddElement
  <2>3. {a, b} = {a} \cup {b}
    OBVIOUS
  <2> QED
    BY <2>1, <2>2, <2>3
<1>2. Main # Server
  <2>1. Main = Server => {Main, Server, Updater} = {Main, Updater}
    OBVIOUS
  <2> QED
    BY <1>1, <2>1, LifecycleAssumption
<1>3. Main # Updater
  <2>1. Main = Updater => {Main, Server, Updater} = {Main, Server}
    OBVIOUS
  <2> QED
    BY <1>1, <2>1, LifecycleAssumption
<1>4. Server # Updater
  <2>1. Server = Updater => {Main, Server, Updater} = {Main, Server}
    OBVIOUS
  <2> QED
    BY <1>1, <2>1, LifecycleAssumption
<1> QED
  BY <1>2, <1>3, <1>4, LifecycleAssumption DEF Threads

-----------------------------------------------------------------------------
(* What a step of each kind does to the control state *)

\* w leaves, enters or stays out of the critical section of SendToClient.
Mutex(w, to) ==
  \/ /\ sendsMx' = sendsMx
     /\ pc[w] \notin {"evPush", "tmPush"} /\ to \notin {"evPush", "tmPush"}
  \/ sendsMx = NoThread /\ sendsMx' = w /\ to \in {"evPush", "tmPush"}
  \/ /\ sendsMx' = NoThread /\ to \notin {"evPush", "tmPush"}
     /\ pc[w] \in {"evPush", "tmPush"}

WorkerMoves(w) ==
  /\ handler[w] = "none" /\ stopAt[w] = "none" /\ pc[w] \notin Asleep
  /\ UNCHANGED <<handler, stopAt, mainVars, running>>
  /\ \/ UNCHANGED <<pc, sendsMx>>
     \/ \E to \in WorkerPCs \ {"unborn"} : /\ pc' = [pc EXCEPT ![w] = to]
                                           /\ Mutex(w, to)

LEMMA WorkerControl ==
  ASSUME NEW w \in Workers, WorkerStep(w) \/ Dispatch(w)
  PROVE  WorkerMoves(w)
<1> USE DEF WorkerMoves, At, Goto, WorkerFrame, RunFrame, mainVars, Asleep,
            WorkerPCs, sendVars, Mutex
<1>1. CASE WorkerExit(w)
  <2>1. /\ pc' = [pc EXCEPT ![w] = "done"] /\ sendsMx' = sendsMx
        /\ pc[w] = "idle"
    BY <1>1 DEF WorkerExit
  <2> QED
    BY <1>1, <2>1 DEF WorkerExit
<1>2. CASE SendBatch(w, "evSend", "poll") \/ SendBatch(w, "send", "idle")
  BY <1>2 DEF SendBatch
<1>3. CASE EventPoll(w) \/ EventRecv(w)
  BY <1>3 DEF EventPoll, EventRecv, Rearm, NextRecv
<1>4. CASE EventHandle(w)
  BY <1>4 DEF EventHandle, NextRecv
<1>5. CASE SocketThrows(w, "poll") \/ SocketThrows(w, "recv")
  BY <1>5 DEF SocketThrows, serverVars
<1>6. CASE \/ SendTo(w, "evSendTo", "evPush", NextRecv)
           \/ SendTo(w, "tmSendTo", "tmPush", SetTimer("idle"))
  BY <1>6 DEF SendTo, NextRecv, SetTimer
<1>7. CASE Push(w, "evPush", NextRecv) \/ Push(w, "tmPush", SetTimer("idle"))
  BY <1>7 DEF Push, NextRecv, SetTimer
<1>8. CASE TimerBody(w)
  BY <1>8 DEF TimerBody, SetTimer
<1>9. CASE ReplaceTimer(w, "idle")
  <2>1. /\ pc' = [pc EXCEPT ![w] = "idle"] /\ sendsMx' = sendsMx
        /\ pc[w] = "replace"
    BY <1>9 DEF ReplaceTimer
  <2> QED
    BY <1>9, <2>1 DEF ReplaceTimer
<1>10. CASE Dispatch(w)
  BY <1>10 DEF Dispatch
<1> QED
  BY <1>1, <1>2, <1>3, <1>4, <1>5, <1>6, <1>7, <1>8, <1>9, <1>10 DEF WorkerStep

StopMoves(t) ==
  /\ handler[t] \in {"none", "stopping"}
  /\ UNCHANGED <<pc, handler, mainVars, sendsMx>>
  /\ \/ /\ stopAt[t] = "exchange" /\ running
        /\ running' = FALSE
        /\ stopAt' = [stopAt EXCEPT ![t] = "drain"]
     \/ /\ stopAt[t] = "exchange" /\ ~running
        /\ running' = FALSE
        /\ stopAt' = [stopAt EXCEPT ![t] = "none"]
     \/ /\ stopAt[t] \in Performing
        /\ running' = running
        /\ \E to \in Performing \cup {"none"} :
             stopAt' = [stopAt EXCEPT ![t] = to]

LEMMA StopControl ==
  ASSUME NEW t \in Threads, Stop(t)
  PROVE  StopMoves(t)
<1> USE DEF StopMoves, Performing, Stop, ioVars, mainVars
<1>1. CASE StopExchange(t)
  <2>1. CASE running
    BY <1>1, <2>1, Zenon DEF StopExchange
  <2>2. CASE ~running
    BY <1>1, <2>2, Zenon DEF StopExchange
  <2> QED
    BY <2>1, <2>2
<1>2. CASE StopDrain(t)
  BY <1>2 DEF StopDrain
<1>3. CASE StopTimers(t)
  BY <1>3 DEF StopTimers
<1>4. CASE StopClose(t)
  BY <1>4 DEF StopClose
<1>5. CASE StopRelease(t)
  BY <1>5 DEF StopRelease
<1> QED
  BY <1>1, <1>2, <1>3, <1>4, <1>5

-----------------------------------------------------------------------------
(* Every step keeps the control invariant *)

LEMMA WorkerInv ==
  ASSUME ControlInv, NEW w \in Workers, WorkerMoves(w)
  PROVE  ControlInv'
<1> USE DEF ControlInv, WorkerMoves, mainVars
<1>0. CASE UNCHANGED <<pc, sendsMx>>
  BY <1>0 DEF ControlOK, PcsOK, Phases, Interruptions, OnePerformer
<1>1. ASSUME NEW to \in WorkerPCs \ {"unborn"},
             pc' = [pc EXCEPT ![w] = to], Mutex(w, to)
      PROVE  ControlInv'
  <2>1. /\ w \in Threads /\ w # Main /\ w # Server /\ w # Updater
        /\ w # NoThread
    BY Distinct
  <2>2. pc'[w] = to /\ \A t \in Threads : t # w => pc'[t] = pc[t]
    BY <1>1, <2>1 DEF ControlOK, PcsOK
  <2>3. pc'[Main] = pc[Main] /\ pc'[Server] = pc[Server]
        /\ pc'[Updater] = pc[Updater]
    BY <2>1, <2>2, Distinct
  <2>4. pc' \in [Threads -> AllPCs]
    BY <1>1 DEF ControlOK, PcsOK, AllPCs
  <2>5. \A x \in Workers : pc'[x] \in {"evPush", "tmPush"} <=> sendsMx' = x
    BY <1>1, <2>1, <2>2, Distinct DEF ControlOK, Mutex
  <2>6. ControlOK'
    BY <2>1, <2>2, <2>3, <2>4, <2>5, Distinct DEF ControlOK, PcsOK
  <2>7. Phases'
    BY <2>1, <2>2, <2>3, Distinct DEF Phases, Asleep
  <2>8. Interruptions'
    BY <2>1, <2>2, <2>3 DEF Interruptions
  <2>9. OnePerformer'
    BY DEF OnePerformer
  <2> QED
    BY <2>6, <2>7, <2>8, <2>9
<1> QED
  BY <1>0, <1>1

LEMMA StopInv ==
  ASSUME ControlInv, NEW t \in Threads, StopMoves(t)
  PROVE  ControlInv'
<1> USE DEF ControlInv, StopMoves, mainVars
<1>1. stopAt[t] # "none" /\ handler[t] # "load"
  BY DEF Performing
<1>2. PICK to \in Performing \cup {"none"} : stopAt' = [stopAt EXCEPT ![t] = to]
  BY DEF Performing
<1>3. stopAt'[t] = to /\ \A u \in Threads : u # t => stopAt'[u] = stopAt[u]
  BY <1>2 DEF ControlOK
<1>4. stopAt' \in [Threads -> {"none", "exchange", "drain", "timers", "close",
                             "release"}]
  BY <1>2 DEF ControlOK, Performing
<1>5. ControlOK'
  BY <1>4 DEF ControlOK, PcsOK
<1>6. Phases'
  BY DEF Phases
<1>7. Interruptions'
  <2>1. /\ pc' = pc /\ handler' = handler /\ (requested' <=> requested)
    BY Zenon
  <2>2. requested
    BY <1>1 DEF Interruptions
  <2>3. \A u \in Threads : stopAt[u] = "none" => stopAt'[u] = "none"
    BY <1>1, <1>3
  <2> QED
    BY <1>3, <2>1, <2>2, <2>3, Distinct DEF Interruptions
<1>8. OnePerformer'
  <2>1. CASE stopAt[t] = "exchange" /\ running /\ running' = FALSE
    BY <1>3, <2>1 DEF OnePerformer
  <2>2. CASE /\ stopAt[t] = "exchange" /\ running' = FALSE
             /\ stopAt' = [stopAt EXCEPT ![t] = "none"]
    <3>1. stopAt'[t] = "none"
      BY <2>2 DEF ControlOK
    <3> QED
      BY <1>3, <2>2, <3>1 DEF OnePerformer, Performing
  <2>3. CASE stopAt[t] \in Performing /\ running' = running
    BY <1>3, <2>3 DEF OnePerformer
  <2> QED
    BY <2>1, <2>2, <2>3
<1> QED
  BY <1>5, <1>6, <1>7, <1>8

\* A signal comes, and its handler.
LEMMA HandlerInv ==
  ASSUME ControlInv, NEW t \in Threads, Signal(t) \/ Handler(t)
  PROVE  ControlInv'
<1> USE DEF ControlInv
<1>1. CASE Signal(t)
  <2>1. /\ pc[t] \notin Asleep /\ pc[Main] # "exit"
        /\ handler' = [handler EXCEPT ![t] = "lock"]
        /\ UNCHANGED <<pc, stopAt, mainVars, sendsMx, running>>
    BY <1>1 DEF Signal, Installed, Asleep, serverVars, sendVars
  <2>2. ControlOK'
    BY <2>1 DEF ControlOK, PcsOK, mainVars
  <2>3. Phases' /\ OnePerformer'
    BY <2>1 DEF Phases, OnePerformer, mainVars
  <2>4. Interruptions'
    BY <2>1 DEF Interruptions, ControlOK, mainVars
  <2> QED
    BY <2>2, <2>3, <2>4
<1>2. CASE HandlerRequest(t)
  <2>1. /\ handler[t] = "lock"
        /\ \/ requested /\ handler' = [handler EXCEPT ![t] = "none"]
           \/ ~requested /\ handler' = [handler EXCEPT ![t] = "load"]
        /\ requested' = TRUE
        /\ UNCHANGED <<pc, stopAt, shutdownMx, published, sendsMx, running>>
    <3>1. CASE requested
      BY <1>2, <3>1, Zenon DEF HandlerRequest, HandlerFrame, serverVars, sendVars
    <3>2. CASE ~requested
      BY <1>2, <3>2, Zenon DEF HandlerRequest, HandlerFrame, serverVars, sendVars
    <3> QED
      BY <3>1, <3>2
  <2>2. ControlOK'
    BY <2>1 DEF ControlOK, PcsOK
  <2>3. Phases' /\ OnePerformer'
    BY <2>1 DEF Phases, OnePerformer
  <2>4. Interruptions'
    <3>1. requested'
      BY <2>1, Zenon
    <3>2. \A u \in Threads : u # t => handler'[u] = handler[u]
      BY <2>1 DEF ControlOK
    <3>3. /\ handler'[t] \in {"none", "load"}
          /\ handler'[t] = "load" => stopAt[t] = "none"
      BY <2>1 DEF ControlOK, Interruptions
    <3>4. pc[t] \notin Asleep /\ (pc[Main] = "exit" => t # Main)
      BY <2>1 DEF Interruptions
    <3>5. pc' = pc /\ stopAt' = stopAt
      BY <2>1
    <3> QED
      BY <3>1, <3>2, <3>3, <3>4, <3>5, Distinct DEF Interruptions
  <2> QED
    BY <2>2, <2>3, <2>4
<1>3. CASE HandlerLoad(t)
  <2>1. /\ handler[t] = "load"
        /\ handler' = [handler EXCEPT ![t] = "stopping"]
        /\ \/ published /\ stopAt' = [stopAt EXCEPT ![t] = "exchange"]
           \/ UNCHANGED stopAt
        /\ UNCHANGED <<pc, mainVars, sendsMx, running>>
    BY <1>3 DEF HandlerLoad, HandlerFrame, serverVars, sendVars
  <2>2. ControlOK'
    BY <2>1 DEF ControlOK, PcsOK, mainVars
  <2>3. Phases'
    BY <2>1 DEF Phases, mainVars
  <2>4. Interruptions'
    BY <2>1 DEF Interruptions, Phases, ControlOK, mainVars
  <2>5. OnePerformer'
    BY <2>1 DEF OnePerformer, ControlOK, Performing
  <2> QED
    BY <2>2, <2>3, <2>4, <2>5
<1>4. CASE HandlerNotify(t)
  <2>1. /\ handler' = [handler EXCEPT ![t] = "none"]
        /\ UNCHANGED <<pc, stopAt, requested, shutdownMx, published, sendsMx,
                       running>>
    BY <1>4 DEF HandlerNotify, HandlerFrame, serverVars, sendVars
  <2>2. ControlOK'
    BY <2>1 DEF ControlOK, PcsOK
  <2>3. Phases' /\ OnePerformer'
    BY <2>1 DEF Phases, OnePerformer
  <2>4. Interruptions'
    BY <2>1 DEF Interruptions, ControlOK
  <2> QED
    BY <2>2, <2>3, <2>4
<1> QED
  BY <1>1, <1>2, <1>3, <1>4 DEF Handler

\* main goes on to `to`: what has to hold for the control invariant to stay.
LEMMA MainMoves ==
  ASSUME ControlInv, handler[Main] = "none", stopAt[Main] = "none",
         NEW to \in MainPCs \ {"args", "construct"},
         pc' = [pc EXCEPT ![Main] = to],
         UNCHANGED <<handler, requested, running, sendsMx>>,
         UNCHANGED stopAt \/ stopAt' = [stopAt EXCEPT ![Main] = "exchange"],
         shutdownMx' = IF to = "locked" THEN Main ELSE NoThread,
         published' => to \in {"lock", "locked", "waiting", "check", "join"},
         to = "publish" => pc[Server] = "unborn",
         to \in {"destroy", "joinUpdater", "members", "router"} =>
           pc[Server] = "done",
         to = "exit" => pc[Server] \in Asleep,
         to \in {"members", "router", "exit"} =>
           pc[Updater] \in Asleep /\ stopAt' = stopAt,
         to \in {"check", "join", "destroy", "joinUpdater"} \/ stopAt' # stopAt =>
           requested
  PROVE  ControlInv'
<1> USE DEF ControlInv
<1>1. /\ pc'[Main] = to /\ \A t \in Threads : t # Main => pc'[t] = pc[t]
      /\ Main \in Threads
  BY Distinct DEF ControlOK, PcsOK
<1>2. /\ pc'[Server] = pc[Server] /\ pc'[Updater] = pc[Updater]
      /\ \A w \in Workers : pc'[w] = pc[w]
  BY <1>1, Distinct
<1>3. ControlOK'
  <2>1. pc' \in [Threads -> AllPCs]
    BY DEF ControlOK, PcsOK, AllPCs
  <2>2. stopAt' \in [Threads -> {"none", "exchange", "drain", "timers", "close",
                             "release"}]
    BY DEF ControlOK
  <2> QED
    BY <1>1, <1>2, <2>1, <2>2 DEF ControlOK, PcsOK
<1>4. Phases'
  BY <1>1, <1>2 DEF Phases
<1>5. \/ stopAt' = stopAt
      \/ /\ stopAt'[Main] = "exchange" /\ requested
         /\ \A t \in Threads : t # Main => stopAt'[t] = stopAt[t]
         /\ to \notin {"members", "router", "exit"}
  BY DEF ControlOK
<1>6. Interruptions'
  <2>1. (requested' <=> requested) /\ handler' = handler
    BY Zenon
  <2>2. to \notin Asleep
    BY DEF MainPCs, Asleep
  <2> QED
    BY <1>1, <1>5, <2>1, <2>2 DEF Interruptions
<1>7. OnePerformer'
  BY <1>5 DEF OnePerformer, Performing
<1> QED
  BY <1>3, <1>4, <1>6, <1>7

LEMMA MainInv ==
  ASSUME ControlInv, MainStep \/ MainLock
  PROVE  ControlInv'
<1> USE DEF ControlInv
<1>0. /\ shutdownMx = IF pc[Main] = "locked" THEN Main ELSE NoThread
      /\ handler[Main] = "none" /\ stopAt[Main] = "none"
  BY DEF ControlOK, MainStep, MainLock, At, MainArgs, MainConstruct, MainPublish,
         MainPredicate, MainCheck, MainJoin, MainDestroy, MainJoinUpdater,
         MainDropStorage, MainDropRouter
<1> USE DEF At, Goto, mainVars, serverVars, ioVars, sendVars
<1>1. CASE MainArgs
  <2>1. CASE Goto(Main, "exit")
    <3>1. pc[Main] = "args" /\ pc' = [pc EXCEPT ![Main] = "exit"]
          /\ UNCHANGED <<handler, stopAt, requested, running, sendsMx, published,
                         shutdownMx>>
      BY <1>1, <2>1 DEF MainArgs
    <3> QED
      BY <1>0, <3>1, MainMoves DEF MainPCs, Phases, Asleep
  <2>2. CASE Goto(Main, "construct")
    <3>1. /\ pc[Main] = "args" /\ pc' = [pc EXCEPT ![Main] = "construct"]
          /\ UNCHANGED <<handler, stopAt, mainVars, running, sendsMx>>
      BY <1>1, <2>2 DEF MainArgs
    <3>2. /\ pc'[Main] = "construct"
          /\ \A t \in Threads : t # Main => pc'[t] = pc[t]
      BY <3>1, Distinct DEF ControlOK, PcsOK
    <3>3. /\ pc'[Server] = pc[Server] /\ pc'[Updater] = pc[Updater]
          /\ \A w \in Workers : pc'[w] = pc[w]
      BY <3>2, Distinct
    <3>4. ControlOK'
      <4>1. pc' \in [Threads -> AllPCs]
        BY <3>1 DEF ControlOK, PcsOK, AllPCs, MainPCs
      <4> QED
        BY <3>1, <3>2, <3>3, <4>1 DEF ControlOK, PcsOK, MainPCs
    <3>5. Phases' /\ OnePerformer'
      BY <3>1, <3>2, <3>3 DEF Phases, OnePerformer
    <3>6. Interruptions'
      <4>1. (requested' <=> requested) /\ handler' = handler /\ stopAt' = stopAt
        BY <3>1
      <4> QED
        BY <3>2, <4>1 DEF Interruptions, Asleep
    <3> QED
      BY <3>4, <3>5, <3>6
  <2> QED
    BY <1>1, <2>1, <2>2 DEF MainArgs
<1>2. CASE MainConstruct
  <2>1. CASE Goto(Main, "exit")
    <3>1. pc[Main] = "construct" /\ pc' = [pc EXCEPT ![Main] = "exit"]
          /\ UNCHANGED <<handler, stopAt, requested, running, sendsMx, published,
                         shutdownMx>>
      BY <1>2, <2>1 DEF MainConstruct
    <3> QED
      BY <1>0, <3>1, MainMoves DEF MainPCs, Phases, Asleep
  <2>2. ASSUME NEW up \in {"loop", "unborn"},
               pc' = [pc EXCEPT ![Main] = "publish", ![Updater] = up],
               pc[Main] = "construct",
               UNCHANGED <<handler, stopAt, mainVars, running, sendsMx>>
        PROVE  ControlInv'
    <3>2. /\ pc'[Main] = "publish" /\ pc'[Updater] = up
          /\ \A t \in Threads : t \notin {Main, Updater} => pc'[t] = pc[t]
      BY <2>2, Distinct DEF ControlOK, PcsOK
    <3>3. pc'[Server] = pc[Server] /\ \A w \in Workers : pc'[w] = pc[w]
      BY <3>2, Distinct
    <3>4. ControlOK'
      <4>1. pc' \in [Threads -> AllPCs]
        BY <2>2 DEF ControlOK, PcsOK, AllPCs, MainPCs, ServerPCs
      <4> QED
        BY <2>2, <3>2, <3>3, <4>1 DEF ControlOK, PcsOK, MainPCs
    <3>5. Phases' /\ OnePerformer'
      BY <2>2, <3>2, <3>3 DEF Phases, OnePerformer
    <3>6. Interruptions'
      <4>1. (requested' <=> requested) /\ handler' = handler /\ stopAt' = stopAt
        BY <2>2
      <4>2. handler[Updater] = "none" /\ stopAt[Updater] = "none"
        BY <2>2, Distinct DEF Phases, Interruptions, Asleep
      <4> QED
        BY <3>2, <4>1, <4>2 DEF Interruptions, Asleep
    <3> QED
      BY <3>4, <3>5, <3>6
  <2>3. ASSUME NEW metrics \in BOOLEAN,
               pc' = [pc EXCEPT ![Main] = "publish",
                                ![Updater] = IF metrics THEN "loop" ELSE @]
        PROVE  \E up \in {"loop", "unborn"} :
                 pc' = [pc EXCEPT ![Main] = "publish", ![Updater] = up]
    <3>1. pc[Updater] = "unborn" /\ Main # Updater
      BY <1>2, Distinct DEF MainConstruct, Phases
    <3>2. [pc EXCEPT ![Main] = "publish"][Updater] = "unborn"
      BY <3>1, Distinct DEF ControlOK, PcsOK
    <3> QED
      BY <2>3, <3>1, <3>2
  <2> QED
    BY <1>2, <2>1, <2>2, <2>3 DEF MainConstruct

<1>3. CASE MainPublish
  <2>1. /\ pc[Main] = "publish"
        /\ pc' = [pc EXCEPT ![Main] = "lock", ![Server] = "run"]
        /\ UNCHANGED <<handler, stopAt, requested, shutdownMx, running, sendsMx>>
    BY <1>3 DEF MainPublish
  <2>2. /\ pc'[Main] = "lock" /\ pc'[Server] = "run"
        /\ \A t \in Threads : t \notin {Main, Server} => pc'[t] = pc[t]
    BY <2>1, Distinct DEF ControlOK, PcsOK
  <2>3. pc'[Updater] = pc[Updater] /\ \A w \in Workers : pc'[w] = pc[w]
    BY <2>2, Distinct
  <2>4. ControlOK'
    <3>1. pc' \in [Threads -> AllPCs]
      BY <2>1 DEF ControlOK, PcsOK, AllPCs, MainPCs, ServerPCs
    <3> QED
      BY <2>1, <2>2, <2>3, <3>1 DEF ControlOK, PcsOK, MainPCs, ServerPCs
  <2>5. Phases' /\ OnePerformer'
    BY <2>1, <2>2, <2>3 DEF Phases, OnePerformer
  <2>6. Interruptions'
    <3>1. (requested' <=> requested) /\ handler' = handler /\ stopAt' = stopAt
      BY <2>1
    <3>2. handler[Server] = "none" /\ stopAt[Server] = "none"
      BY <2>1, Distinct DEF Phases, Interruptions, Asleep
    <3> QED
      BY <2>2, <3>1, <3>2 DEF Interruptions, Asleep
  <2> QED
    BY <2>4, <2>5, <2>6
<1>4. CASE MainLock
  <2>1. /\ pc[Main] \in {"lock", "waiting"}
        /\ pc' = [pc EXCEPT ![Main] = "locked"]
        /\ UNCHANGED <<handler, stopAt, requested, running, sendsMx>>
        /\ shutdownMx' = Main
    BY <1>4 DEF MainLock
  <2> QED
    BY <1>0, <2>1, MainMoves DEF MainPCs
<1>5. CASE MainPredicate
  <2>1. /\ pc[Main] = "locked"
        /\ \/ requested /\ pc' = [pc EXCEPT ![Main] = "check"]
           \/ pc' = [pc EXCEPT ![Main] = "waiting"]
        /\ UNCHANGED <<handler, stopAt, requested, running, sendsMx>>
        /\ shutdownMx' = NoThread
    BY <1>5 DEF MainPredicate
  <2>2. CASE requested /\ pc' = [pc EXCEPT ![Main] = "check"]
    BY <1>0, <2>1, <2>2, MainMoves DEF MainPCs
  <2>3. CASE pc' = [pc EXCEPT ![Main] = "waiting"]
    BY <1>0, <2>1, <2>3, MainMoves DEF MainPCs
  <2> QED
    BY <2>1, <2>2, <2>3
<1>6. CASE MainCheck
  <2>1. /\ pc[Main] = "check" /\ requested
        /\ pc' = [pc EXCEPT ![Main] = "join"]
        /\ UNCHANGED stopAt \/ stopAt' = [stopAt EXCEPT ![Main] = "exchange"]
        /\ UNCHANGED <<handler, requested, running, sendsMx, shutdownMx>>
    BY <1>6 DEF MainCheck, Interruptions
  <2> QED
    BY <1>0, <2>1, MainMoves DEF MainPCs
<1>7. CASE MainJoin
  <2>1. /\ pc[Main] = "join" /\ pc[Server] = "done" /\ requested
        /\ pc' = [pc EXCEPT ![Main] = "destroy"]
        /\ UNCHANGED <<handler, stopAt, requested, running, sendsMx, shutdownMx>>
    BY <1>7 DEF MainJoin, Interruptions
  <2>2. ~published'
    BY <1>7, Zenon DEF MainJoin
  <2> QED
    BY <1>0, <2>1, <2>2, MainMoves DEF MainPCs
<1>8. CASE MainDestroy
  <2>1. /\ pc[Main] = "destroy" /\ pc[Server] = "done" /\ requested
        /\ pc' = [pc EXCEPT ![Main] = "joinUpdater"]
        /\ stopAt' = [stopAt EXCEPT ![Main] = "exchange"]
        /\ UNCHANGED <<handler, requested, running, sendsMx, shutdownMx,
                       published>>
    BY <1>8 DEF MainDestroy, Interruptions, Phases
  <2> QED
    BY <1>0, <2>1, MainMoves DEF MainPCs, Phases
<1>9. CASE MainJoinUpdater
  <2>1. /\ pc[Main] = "joinUpdater" /\ pc[Server] = "done"
        /\ pc[Updater] \in Asleep
        /\ pc' = [pc EXCEPT ![Main] = "members"]
        /\ UNCHANGED <<handler, stopAt, requested, running, sendsMx, shutdownMx,
                       published>>
    BY <1>9 DEF MainJoinUpdater, Phases, Asleep
  <2> QED
    BY <1>0, <2>1, MainMoves DEF MainPCs, Phases
<1>10. CASE MainDropStorage
  <2>1. /\ pc[Main] = "members" /\ pc[Server] = "done"
        /\ pc[Updater] \in Asleep
        /\ pc' = [pc EXCEPT ![Main] = "router"]
        /\ UNCHANGED <<handler, stopAt, requested, running, sendsMx, shutdownMx,
                       published>>
    BY <1>10 DEF MainDropStorage, Phases
  <2> QED
    BY <1>0, <2>1, MainMoves DEF MainPCs, Phases
<1>11. CASE MainDropRouter
  <2>1. /\ pc[Main] = "router" /\ pc[Server] \in Asleep
        /\ pc[Updater] \in Asleep
        /\ pc' = [pc EXCEPT ![Main] = "exit"]
        /\ UNCHANGED <<handler, stopAt, requested, running, sendsMx, shutdownMx,
                       published>>
    BY <1>11 DEF MainDropRouter, Phases, Asleep
  <2> QED
    BY <1>0, <2>1, MainMoves DEF MainPCs, Phases
<1> QED
  BY <1>1, <1>2, <1>3, <1>4, <1>5, <1>6, <1>7, <1>8, <1>9, <1>10, <1>11
     DEF MainStep

\* server_thread and the updater.
LEMMA RunInv ==
  ASSUME ControlInv, RunStep \/ UpdaterExit
  PROVE  ControlInv'
<1> USE DEF ControlInv
<1>1. ASSUME NEW to \in {"replace", "workers"},
             pc[Server] \in {"run", "replace"},
             handler[Server] = "none", stopAt[Server] = "none",
             pc' = [pc EXCEPT ![Server] = to],
             UNCHANGED <<handler, stopAt, mainVars, running, sendsMx>>
      PROVE  ControlInv'
  <2>1. /\ pc'[Server] = to /\ pc'[Main] = pc[Main] /\ pc'[Updater] = pc[Updater]
        /\ \A w \in Workers : pc'[w] = pc[w]
        /\ \A t \in Threads : t # Server => pc'[t] = pc[t]
    BY <1>1, Distinct DEF ControlOK, PcsOK
  <2>2. ControlOK'
    <3>1. pc' \in [Threads -> AllPCs]
      BY <1>1 DEF ControlOK, PcsOK, AllPCs, ServerPCs
    <3> QED
      BY <1>1, <2>1, <3>1 DEF ControlOK, PcsOK, ServerPCs, mainVars
  <2>3. Phases' /\ OnePerformer'
    BY <1>1, <2>1 DEF Phases, OnePerformer, mainVars, Asleep
  <2>4. Interruptions'
    BY <1>1, <2>1 DEF Interruptions, mainVars, Asleep
  <2> QED
    BY <2>2, <2>3, <2>4
<1> USE DEF At, Goto, RunFrame
<1>2. CASE RunStart
  <2>1. \E to \in {"replace", "workers"} : pc' = [pc EXCEPT ![Server] = to]
    BY <1>2 DEF RunStart, SetTimer
  <2> QED
    BY <1>1, <1>2, <2>1 DEF RunStart, sendVars
<1>3. CASE ReplaceTimer(Server, "workers")
  BY <1>1, <1>3 DEF ReplaceTimer, sendVars
<1>4. CASE RunSpawn
  <2>1. /\ pc[Server] = "workers"
        /\ handler[Server] = "none" /\ stopAt[Server] = "none"
        /\ pc' = [t \in Threads |-> IF t \in Workers THEN "idle"
                                    ELSE IF t = Server THEN "joining" ELSE pc[t]]
        /\ UNCHANGED <<handler, stopAt, mainVars, running, sendsMx>>
    BY <1>4 DEF RunSpawn, sendVars
  <2>2. /\ pc'[Server] = "joining" /\ pc'[Main] = pc[Main]
        /\ pc'[Updater] = pc[Updater]
        /\ \A w \in Workers : pc'[w] = "idle" /\ pc[w] = "unborn"
        /\ \A t \in Threads : t # Server /\ t \notin Workers => pc'[t] = pc[t]
    BY <2>1, Distinct DEF Phases
  <2>3. ControlOK'
    <3>1. pc' \in [Threads -> AllPCs]
      BY <2>1 DEF ControlOK, PcsOK, AllPCs, ServerPCs, WorkerPCs
    <3>2. \A w \in Workers : sendsMx # w
      BY <2>2 DEF ControlOK
    <3> QED
      BY <2>1, <2>2, <3>1, <3>2
         DEF ControlOK, PcsOK, ServerPCs, WorkerPCs, mainVars
  <2>4. Phases' /\ OnePerformer'
    BY <2>1, <2>2 DEF Phases, OnePerformer, mainVars, Asleep
  <2>5. Interruptions'
    BY <2>1, <2>2 DEF Interruptions, mainVars, Asleep
  <2> QED
    BY <2>3, <2>4, <2>5
<1>5. CASE RunJoin
  <2>1. /\ pc[Server] = "joining" /\ \A w \in Workers : pc[w] = "done"
        /\ handler[Server] = "none" /\ stopAt[Server] = "none"
        /\ pc' = [pc EXCEPT ![Server] = "done"]
        /\ UNCHANGED <<handler, stopAt, mainVars, running, sendsMx>>
    BY <1>5 DEF RunJoin, sendVars
  <2>2. /\ pc'[Server] = "done" /\ pc'[Main] = pc[Main]
        /\ pc'[Updater] = pc[Updater]
        /\ \A w \in Workers : pc'[w] = pc[w]
        /\ \A t \in Threads : t # Server => pc'[t] = pc[t]
    BY <2>1, Distinct DEF ControlOK, PcsOK
  <2>3. ControlOK'
    <3>1. pc' \in [Threads -> AllPCs]
      BY <2>1 DEF ControlOK, PcsOK, AllPCs, ServerPCs
    <3> QED
      BY <2>1, <2>2, <3>1 DEF ControlOK, PcsOK, ServerPCs, mainVars
  <2>4. Phases' /\ OnePerformer'
    BY <2>1, <2>2 DEF Phases, OnePerformer, mainVars, Asleep
  <2>5. Interruptions'
    BY <2>1, <2>2 DEF Interruptions, mainVars
  <2> QED
    BY <2>3, <2>4, <2>5
<1>6. CASE UpdaterExit
  <2>1. /\ pc[Updater] = "loop"
        /\ handler[Updater] = "none" /\ stopAt[Updater] = "none"
        /\ pc' = [pc EXCEPT ![Updater] = "done"]
        /\ UNCHANGED <<handler, stopAt, mainVars, running, sendsMx>>
    BY <1>6 DEF UpdaterExit, serverVars, sendVars
  <2>2. /\ pc'[Updater] = "done" /\ pc'[Main] = pc[Main]
        /\ pc'[Server] = pc[Server]
        /\ \A w \in Workers : pc'[w] = pc[w]
        /\ \A t \in Threads : t # Updater => pc'[t] = pc[t]
    BY <2>1, Distinct DEF ControlOK, PcsOK
  <2>3. ControlOK'
    <3>1. pc' \in [Threads -> AllPCs]
      BY <2>1 DEF ControlOK, PcsOK, AllPCs, ServerPCs
    <3> QED
      BY <2>1, <2>2, <3>1 DEF ControlOK, PcsOK, mainVars
  <2>4. Phases' /\ OnePerformer'
    BY <2>1, <2>2 DEF Phases, OnePerformer, mainVars, Asleep
  <2>5. Interruptions'
    BY <2>1, <2>2 DEF Interruptions, mainVars
  <2> QED
    BY <2>3, <2>4, <2>5
<1> QED
  BY <1>2, <1>3, <1>4, <1>5, <1>6 DEF RunStep

-----------------------------------------------------------------------------
(* Flags and counters *)

\* Stop and the handlers.
LEMMA StopValues ==
  ASSUME FlagsOK, CountersOK, NEW t \in Threads, Stop(t) \/ Signal(t) \/ Handler(t)
  PROVE  FlagsOK' /\ CountersOK'
<1> USE DEF FlagsOK, CountersOK, mainVars, serverVars, ioVars, sendVars
<1>1. CASE Stop(t)
  <2>1. /\ UNCHANGED <<mainVars, store, updating, aborted, sendsMx, queued, sends,
                       signals, armed, tasks>>
        /\ pending' = 0 \/ UNCHANGED pending
    BY <1>1 DEF Stop, StopExchange, StopDrain, StopTimers, StopClose, StopRelease
  <2>2. /\ running' = FALSE \/ UNCHANGED running
        /\ timer' = FALSE \/ UNCHANGED timer
        /\ socket' = FALSE \/ UNCHANGED socket
        /\ stopped' = TRUE \/ UNCHANGED stopped
        /\ online' = (online /\ pending = 0) \/ UNCHANGED online
    BY <1>1 DEF Stop, StopExchange, StopDrain, StopTimers, StopClose, StopRelease
  <2>3. /\ running' \in BOOLEAN /\ timer' \in BOOLEAN /\ socket' \in BOOLEAN
        /\ stopped' \in BOOLEAN /\ online' \in BOOLEAN
    BY <2>2
  <2>4. CountersOK'
    BY <2>1
  <2> QED
    BY <2>1, <2>3, <2>4
<1>2. CASE Signal(t)
  <2>1. UNCHANGED <<mainVars, serverVars, aborted>> /\ signals' = signals + 1
    BY <1>2 DEF Signal
  <2> QED
    BY <2>1
<1>3. CASE Handler(t)
  <2>1. UNCHANGED <<serverVars, aborted, signals, published>>
    BY <1>3 DEF Handler, HandlerRequest, HandlerLoad, HandlerNotify, HandlerFrame
  <2>2. /\ requested' = TRUE \/ UNCHANGED requested
        /\ notified' = (notified \/ pc[Main] = "waiting") \/ UNCHANGED notified
    BY <1>3 DEF Handler, HandlerRequest, HandlerLoad, HandlerNotify
  <2>3. requested' \in BOOLEAN /\ notified' \in BOOLEAN
    BY <2>2
  <2> QED
    BY <2>1, <2>3
<1> QED
  BY <1>1, <1>2, <1>3

\* main, server_thread and the updater.
LEMMA MainValues ==
  ASSUME FlagsOK, CountersOK, MainStep \/ MainLock \/ RunStep \/ UpdaterExit
  PROVE  FlagsOK' /\ CountersOK'
<1> USE DEF FlagsOK, CountersOK, mainVars, serverVars, ioVars, sendVars, At, Goto
<1>1. CASE MainArgs \/ MainCheck \/ MainJoinUpdater \/ UpdaterExit
  <2>1. UNCHANGED <<mainVars, serverVars, aborted, signals>>
    BY <1>1 DEF MainArgs, MainCheck, MainJoinUpdater, UpdaterExit
  <2> QED
    BY <2>1
<1>2. CASE MainConstruct
  <2>1. /\ UNCHANGED <<mainVars, running, stopped, timer, tasks, sendVars, aborted,
                       signals>>
        /\ store' = TRUE \/ UNCHANGED store
        /\ socket' = TRUE \/ UNCHANGED socket
        /\ armed' = TRUE \/ UNCHANGED armed
        /\ updating' \in BOOLEAN \/ UNCHANGED updating
    BY <1>2 DEF MainConstruct
  <2>2. /\ store' \in BOOLEAN /\ socket' \in BOOLEAN /\ armed' \in BOOLEAN
        /\ updating' \in BOOLEAN
    BY <2>1
  <2> QED
    BY <2>1, <2>2
<1>3. CASE MainPublish \/ MainLock \/ MainPredicate \/ MainJoin
  <2>1. /\ UNCHANGED <<serverVars, requested, aborted, signals>>
        /\ published' = TRUE \/ published' = FALSE \/ UNCHANGED published
        /\ notified' = FALSE \/ UNCHANGED notified
    BY <1>3 DEF MainPublish, MainLock, MainPredicate, MainJoin
  <2>2. published' \in BOOLEAN /\ notified' \in BOOLEAN
    BY <2>1
  <2> QED
    BY <2>1, <2>2
<1>4. CASE MainDestroy \/ MainDropStorage \/ MainDropRouter
  <2>1. /\ UNCHANGED <<mainVars, running, ioVars, sendsMx, online, sends, aborted,
                       signals>>
        /\ updating' = FALSE \/ UNCHANGED updating
        /\ store' = FALSE \/ UNCHANGED store
        /\ pending' = 0 \/ UNCHANGED pending
        /\ queued' = 0 \/ UNCHANGED queued
    BY <1>4 DEF MainDestroy, MainDropStorage, MainDropRouter
  <2>2. updating' \in BOOLEAN /\ store' \in BOOLEAN
    BY <2>1
  <2>3. CountersOK'
    BY <2>1
  <2> QED
    BY <2>1, <2>2, <2>3
<1>5. CASE RunStep
  <2>1. /\ UNCHANGED <<mainVars, running, socket, stopped, armed, tasks, sendVars,
                       store, updating, aborted, signals>>
        /\ timer' = TRUE \/ UNCHANGED timer
    BY <1>5 DEF RunStep, RunStart, ReplaceTimer, RunSpawn, RunJoin, RunFrame
  <2>2. timer' \in BOOLEAN
    BY <2>1
  <2> QED
    BY <2>1, <2>2
<1> QED
  BY <1>1, <1>2, <1>3, <1>4, <1>5 DEF MainStep

\* The workers.
LEMMA WorkerValues ==
  ASSUME FlagsOK, CountersOK, NEW w \in Workers, WorkerStep(w) \/ Dispatch(w)
  PROVE  FlagsOK' /\ CountersOK'
<1> USE DEF FlagsOK, CountersOK, mainVars, serverVars, ioVars, sendVars, At, Goto,
            WorkerFrame
<1>1. ASSUME UNCHANGED <<mainVars, running, socket, stopped, store, updating,
                         signals>>,
             armed' \in BOOLEAN, timer' \in BOOLEAN, online' \in BOOLEAN,
             aborted' \in BOOLEAN,
             tasks' \in Nat, pending' \in Nat, queued' \in Nat, sends' \in Nat
      PROVE  FlagsOK' /\ CountersOK'
  BY <1>1
<1>2. CASE WorkerExit(w)
  BY <1>1, <1>2 DEF WorkerExit
<1>3. CASE SendBatch(w, "evSend", "poll") \/ SendBatch(w, "send", "idle")
  <2>1. online' \in BOOLEAN
    BY <1>3 DEF SendBatch
  <2> QED
    BY <1>1, <1>3, <2>1 DEF SendBatch
<1>4. CASE EventPoll(w) \/ EventRecv(w)
  <2>1. armed' = running \/ UNCHANGED armed
    BY <1>4 DEF EventPoll, EventRecv, Rearm
  <2>2. armed' \in BOOLEAN
    BY <2>1
  <2> QED
    BY <1>1, <1>4, <2>2 DEF EventPoll, EventRecv, Rearm
<1>5. CASE EventHandle(w)
  <2>1. sends' \in Nat
    BY <1>5 DEF EventHandle
  <2> QED
    BY <1>1, <1>5, <2>1 DEF EventHandle
<1>6. CASE SocketThrows(w, "poll") \/ SocketThrows(w, "recv")
  <2>1. aborted' \in BOOLEAN
    <3>1. aborted' = TRUE
      BY <1>6 DEF SocketThrows
    <3> QED
      BY <3>1
  <2> QED
    BY <1>1, <1>6, <2>1 DEF SocketThrows
<1>7. CASE \/ SendTo(w, "evSendTo", "evPush", NextRecv)
           \/ SendTo(w, "tmSendTo", "tmPush", SetTimer("idle"))
  <2>1. queued' \in Nat
    BY <1>7 DEF SendTo
  <2> QED
    BY <1>1, <1>7, <2>1 DEF SendTo
<1>8. CASE Push(w, "evPush", NextRecv) \/ Push(w, "tmPush", SetTimer("idle"))
  BY <1>1, <1>8 DEF Push
<1>9. CASE TimerBody(w)
  <2>1. /\ online' = FALSE \/ UNCHANGED online
        /\ queued' \in Nat /\ sends' \in Nat
    BY <1>9 DEF TimerBody
  <2>2. online' \in BOOLEAN
    BY <2>1
  <2> QED
    BY <1>1, <1>9, <2>1, <2>2 DEF TimerBody
<1>10. CASE ReplaceTimer(w, "idle")
  <2>1. timer' \in BOOLEAN
    <3>1. timer' = TRUE
      BY <1>10 DEF ReplaceTimer
    <3> QED
      BY <3>1
  <2> QED
    BY <1>1, <1>10, <2>1 DEF ReplaceTimer, RunFrame
<1>11. CASE Dispatch(w)
  <2>1. /\ timer' = FALSE \/ UNCHANGED timer
        /\ (\E failed \in BOOLEAN : armed' = (failed /\ running)) \/ UNCHANGED armed
        /\ tasks' \in Nat
    BY <1>11 DEF Dispatch
  <2>2. timer' \in BOOLEAN /\ armed' \in BOOLEAN
    BY <2>1
  <2> QED
    BY <1>1, <1>11, <2>1, <2>2 DEF Dispatch
<1> QED
  BY <1>2, <1>3, <1>4, <1>5, <1>6, <1>7, <1>8, <1>9, <1>10, <1>11 DEF WorkerStep

-----------------------------------------------------------------------------
(* The invariant holds *)

LEMMA InitLife == Init => LifeInv
<1> SUFFICES ASSUME Init PROVE LifeInv
  OBVIOUS
<1>1. /\ pc[Main] = "args" /\ \A t \in Threads : t # Main => pc[t] = "unborn"
      /\ \A t \in Threads : handler[t] = "none" /\ stopAt[t] = "none"
      /\ pc[Server] = "unborn" /\ pc[Updater] = "unborn"
      /\ \A w \in Workers : pc[w] = "unborn"
  BY Distinct DEF Init
<1>2. ControlOK
  BY <1>1, Distinct DEF Init, ControlOK, PcsOK, AllPCs, MainPCs, ServerPCs,
                        WorkerPCs
<1>3. Phases
  <2>1. ~published
    BY Zenon DEF Init
  <2> QED
    BY <1>1, <2>1 DEF Phases
<1>4. Interruptions
  BY <1>1 DEF Interruptions
<1>5. OnePerformer
  BY <1>1 DEF OnePerformer, Performing
<1>6. FlagsOK
  BY Zenon DEF Init, FlagsOK
<1>7. CountersOK
  BY DEF Init, CountersOK
<1> QED
  BY <1>2, <1>3, <1>4, <1>5, <1>6, <1>7 DEF LifeInv, ControlInv

LEMMA StepLife == LifeInv /\ [Next]_vars => LifeInv'
<1> SUFFICES ASSUME LifeInv, [Next]_vars PROVE LifeInv'
  OBVIOUS
<1> USE DEF LifeInv
<1>1. ASSUME NEW t \in Threads, Stop(t) PROVE LifeInv'
  BY <1>1, StopControl, StopInv, StopValues
<1>2. ASSUME NEW t \in Threads, Signal(t) \/ Handler(t) PROVE LifeInv'
  BY <1>2, HandlerInv, StopValues
<1>3. CASE MainStep \/ MainLock
  BY <1>3, MainInv, MainValues
<1>4. CASE RunStep \/ UpdaterExit
  BY <1>4, RunInv, MainValues
<1>5. ASSUME NEW w \in Workers, WorkerStep(w) \/ Dispatch(w) PROVE LifeInv'
  BY <1>5, WorkerControl, WorkerInv, WorkerValues
<1>6. CASE UNCHANGED vars
  <2> USE DEF vars, mainVars, serverVars, ioVars, sendVars
  <2>1. ControlInv'
    BY <1>6 DEF ControlInv, ControlOK, PcsOK, Phases, Interruptions, OnePerformer
  <2>2. FlagsOK' /\ CountersOK'
    BY <1>6 DEF FlagsOK, CountersOK
  <2> QED
    BY <2>1, <2>2
<1> QED
  BY <1>1, <1>2, <1>3, <1>4, <1>5, <1>6 DEF Next, ThreadStep, Halted

-----------------------------------------------------------------------------
(* The properties *)

\* The types of Lifecycle, and that a mutex is held exactly where a thread is in
\* its critical section, for every number of workers, signals and sends.
THEOREM LifecycleTypes == Spec => []TypeOK
<1>1. LifeInv => TypeOK
  <2> SUFFICES ASSUME LifeInv PROVE TypeOK
    OBVIOUS
  <2>1. {requested, notified, published, running, socket, stopped, armed, timer,
         online, store, updating, aborted} \subseteq BOOLEAN
    BY DEF LifeInv, FlagsOK
  <2>2. {tasks, pending, queued, signals, sends} \subseteq Nat
    BY DEF LifeInv, CountersOK
  <2> QED
    BY <2>1, <2>2 DEF LifeInv, ControlInv, ControlOK, TypeOK
<1> QED
  BY <1>1, InitLife, StepLife, PTL DEF Spec

\* However many threads call Stop, from signal handlers, main and the
\* destructor, one of them closes the socket and drains the queue.
THEOREM StopHasOnePerformer == Spec => []StopsOnce
<1>1. LifeInv => StopsOnce
  <2> SUFFICES ASSUME LifeInv PROVE StopsOnce
    OBVIOUS
  <2> DEFINE P == {t \in Threads : stopAt[t] \in Performing}
  <2>1. \A t, u \in P : t = u
    BY DEF LifeInv, ControlInv, OnePerformer
  <2>2. CASE P = {}
    BY <2>2, FS_EmptySet DEF StopsOnce, Performing
  <2>3. CASE P # {}
    <3>1. PICK t \in P : TRUE
      BY <2>3
    <3>2. P = {t}
      BY <2>1, <3>1
    <3>3. Cardinality(P) = 1
      BY <3>2, FS_Singleton
    <3> QED
      BY <3>3 DEF StopsOnce, Performing
  <2> QED
    BY <2>2, <2>3
<1> QED
  BY <1>1, InitLife, StepLife, PTL DEF Spec

\* When main destroys the server, no thread uses it any more and no signal
\* handler, on whichever thread, still has the pointer or is inside Stop.
THEOREM ServerOutlives == Spec => []ServerOutlivesUsers
<1>1. LifeInv => ServerOutlivesUsers
  <2> SUFFICES ASSUME LifeInv, pc[Main] \in {"members", "router", "exit"}
               PROVE  /\ \A t \in Threads \ {Main} : pc[t] \in Asleep
                      /\ \A t \in Threads : stopAt[t] = "none"
    BY DEF ServerOutlivesUsers, Asleep
  <2>1. pc[Server] \in Asleep /\ pc[Updater] \in Asleep
    BY DEF LifeInv, ControlInv, Phases, Asleep
  <2>2. \A w \in Workers : pc[w] \in Asleep
    BY <2>1 DEF LifeInv, ControlInv, Phases, Asleep
  <2>3. \A t \in Threads \ {Main} : pc[t] \in Asleep
    BY <2>1, <2>2 DEF Threads
  <2>4. \A t \in Threads : stopAt[t] = "none"
    BY <2>3 DEF LifeInv, ControlInv, Interruptions
  <2> QED
    BY <2>3, <2>4
<1> QED
  BY <1>1, InitLife, StepLife, PTL DEF Spec
=============================================================================
