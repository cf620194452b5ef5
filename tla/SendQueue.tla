----------------------------- MODULE SendQueue -----------------------------
(***************************************************************************)
(* The server's send queue and the threads that share the ROUTER socket    *)
(* (server.cpp).  SendToClient pushes under pending_sends_mutex_ and posts *)
(* a task; the task runs ProcessPendingSends unless sending_in_progress_   *)
(* is set, and OnZmqEvent runs it without looking.  ProcessPendingSends    *)
(* takes the whole queue, clears the mutex, hands the batch to the socket, *)
(* and at the end clears the flag and posts a task if something came in    *)
(* meanwhile.  Stop empties the queue and closes the socket.               *)
(*                                                                         *)
(* OnZmqEvent waits for the descriptor of the socket.  By ZeroMQ's rules   *)
(* the descriptor is readable when something came in that no call on the   *)
(* socket has looked at since: reading the events, and recv when it finds  *)
(* nothing, look at all of it, and a send may.                             *)
(*                                                                         *)
(* A step is one critical section, one read of an atomic, one call on the  *)
(* socket or one message handed to it (its three frames are one).          *)
(***************************************************************************)
EXTENDS Naturals, Sequences

CONSTANTS
  Workers,  \* threads of the pool that run posted tasks and timers
  Ev,       \* the thread OnZmqEvent is on: one at a time, as it re-arms last
  Items,    \* the sends clients are owed; each is pushed once (a bound)
  MaxInbox, \* a bound on the messages that wait in the socket
  MayStop   \* may Stop be called?

ASSUME SendQueueAssumption ==
  /\ Ev \notin Workers
  /\ MaxInbox \in Nat
  /\ MayStop \in BOOLEAN

VARIABLES
  pending,   \* pending_sends_
  flag,      \* sending_in_progress_
  posted,    \* the number of tasks posted to io_context_ and not yet run
  pc,        \* where each thread is
  batch,     \* `sends` of ProcessPendingSends on each thread
  outcome,   \* what the callback of each item was told, if it was called
  inbox,     \* the number of messages that wait in the socket
  readable,  \* is its descriptor readable?
  running,   \* running_
  stopping   \* how far Stop has got

sockVars == <<inbox, readable>>
vars ==
  <<pending, flag, posted, pc, batch, outcome, sockVars, running, stopping>>

Threads == Workers \cup {Ev}

Init ==
  /\ pending = <<>>
  /\ flag = FALSE
  /\ posted = 0
  /\ pc = [t \in Threads |-> "idle"]
  /\ batch = [t \in Threads |-> <<>>]
  /\ outcome = [i \in Items |-> "unsent"]
  /\ inbox = 0
  /\ readable = FALSE
  /\ running = TRUE
  /\ stopping = "no"

-----------------------------------------------------------------------------

(* The socket *)

\* A client's message comes in; the descriptor need not tell of one that comes
\* after another that still waits.
Arrive ==
  /\ inbox < MaxInbox
  /\ inbox' = inbox + 1
  /\ readable' = TRUE \/ (inbox > 0 /\ UNCHANGED readable)
  /\ UNCHANGED <<pending, flag, posted, pc, batch, outcome, running, stopping>>

\* Something else happens to the socket, such as a connection.
Signal ==
  /\ readable' = TRUE
  /\ UNCHANGED <<pending, flag, posted, pc, batch, outcome, inbox, running,
                 stopping>>

-----------------------------------------------------------------------------
(* OnZmqEvent *)

\* Where the event callback goes on after ProcessPendingSends: to the events of
\* the socket.  A posted task is over then.
After(t) == IF t = Ev THEN "events" ELSE "idle"

EvFrame ==
  UNCHANGED <<pending, flag, posted, batch, outcome, running, stopping>>

\* The reactor sees the descriptor and queues the callback.
Notice ==
  /\ pc[Ev] = "idle"
  /\ readable
  /\ pc' = [pc EXCEPT ![Ev] = "event"]
  /\ EvFrame
  /\ UNCHANGED sockVars

\* The callback looks at running_.  When the wait failed it waits again, which
\* changes nothing here (Dispatch in module Lifecycle has that branch).
OnZmqEvent ==
  /\ pc[Ev] = "event"
  /\ pc' = [pc EXCEPT ![Ev] = IF running THEN "swap" ELSE "off"]
  /\ EvFrame
  /\ UNCHANGED sockVars

Events ==
  /\ pc[Ev] = "events"
  /\ readable' = FALSE
  /\ pc' = [pc EXCEPT ![Ev] = IF inbox > 0 THEN "recv" ELSE "rearm"]
  /\ EvFrame
  /\ UNCHANGED inbox

\* A loop that reads one message.
Recv_Once ==
  /\ pc[Ev] = "recv"
  /\ running
  /\ inbox > 0
  /\ inbox' = inbox - 1
  /\ readable' = FALSE \/ UNCHANGED readable
  /\ pc' = [pc EXCEPT ![Ev] = "rearm"]
  /\ EvFrame

\* A turn of the loop: a message to handle, or none,
Recv ==
  /\ pc[Ev] = "recv"
  /\ running
  /\ inbox > 0
  /\ inbox' = inbox - 1
  /\ readable' = FALSE \/ UNCHANGED readable
  /\ pc' = [pc EXCEPT ![Ev] = "handle"]
  /\ EvFrame

RecvNothing ==
  /\ pc[Ev] = "recv"
  /\ running => inbox = 0
  /\ readable' = FALSE \/ (~running /\ UNCHANGED readable)
  /\ pc' = [pc EXCEPT ![Ev] = "rearm"]
  /\ EvFrame
  /\ UNCHANGED inbox

\* and the end of RouteMessage.
Handled ==
  /\ pc[Ev] = "handle"
  /\ pc' = [pc EXCEPT ![Ev] = "recv"]
  /\ EvFrame
  /\ UNCHANGED sockVars

Rearm ==
  /\ pc[Ev] = "rearm"
  /\ pc' = [pc EXCEPT ![Ev] = IF running THEN "idle" ELSE "off"]
  /\ EvFrame
  /\ UNCHANGED sockVars

-----------------------------------------------------------------------------
(* The send queue *)

\* SendToClient, from a handler on Ev or from the ACK timer on a worker: the
\* push, then the post.
Caller(t) == IF t = Ev THEN "handle" ELSE "idle"

Push(t, i) ==
  /\ pc[t] = Caller(t)
  /\ t # Ev => running
  /\ outcome[i] = "unsent"
  /\ outcome' = [outcome EXCEPT ![i] = "queued"]
  /\ pending' = Append(pending, i)
  /\ pc' = [pc EXCEPT ![t] = "post"]
  /\ UNCHANGED <<flag, posted, batch, sockVars, running, stopping>>

Post(t) ==
  /\ pc[t] = "post"
  /\ posted' = posted + 1
  /\ pc' = [pc EXCEPT ![t] = Caller(t)]
  /\ UNCHANGED <<pending, flag, batch, outcome, sockVars, running, stopping>>

\* The task of ScheduleSendProcessing.
RunTask(t) ==
  /\ pc[t] = "idle"
  /\ posted > 0
  /\ posted' = posted - 1
  /\ pc' = [pc EXCEPT ![t] = IF running /\ ~flag THEN "swap" ELSE "idle"]
  /\ UNCHANGED <<pending, flag, batch, outcome, sockVars, running, stopping>>

\* A swap that leaves the queue as it was.
Swap_Copy(t) ==
  /\ pc[t] = "swap"
  /\ IF pending = <<>>
     THEN /\ flag' = FALSE
          /\ pc' = [pc EXCEPT ![t] = After(t)]
          /\ UNCHANGED <<pending, batch>>
     ELSE /\ flag' = TRUE
          /\ pc' = [pc EXCEPT ![t] = "sending"]
          /\ batch' = [batch EXCEPT ![t] = pending]
          /\ UNCHANGED pending
  /\ UNCHANGED <<posted, outcome, sockVars, running, stopping>>

\* The first critical section of ProcessPendingSends.
Swap(t) ==
  /\ pc[t] = "swap"
  /\ IF pending = <<>>
     THEN /\ flag' = FALSE
          /\ pc' = [pc EXCEPT ![t] = After(t)]
          /\ UNCHANGED <<pending, batch>>
     ELSE /\ flag' = TRUE
          /\ pc' = [pc EXCEPT ![t] = "sending"]
          /\ batch' = [batch EXCEPT ![t] = pending]
          /\ pending' = <<>>
  /\ UNCHANGED <<posted, outcome, sockVars, running, stopping>>

\* One turn of its loop: the socket takes the message or does not, and the
\* callback hears which.
SendOne(t) ==
  /\ pc[t] = "sending"
  /\ batch[t] # <<>>
  /\ \E result \in {"sent", "failed"} :
       outcome' = [outcome EXCEPT ![Head(batch[t])] = result]
  /\ batch' = [batch EXCEPT ![t] = Tail(@)]
  /\ readable' = FALSE \/ UNCHANGED readable
  /\ UNCHANGED <<pending, flag, posted, pc, inbox, running, stopping>>

\* An end that does not look at what came in meanwhile.
Finish_NoRecheck(t) ==
  /\ pc[t] = "sending"
  /\ batch[t] = <<>>
  /\ flag' = FALSE
  /\ pc' = [pc EXCEPT ![t] = After(t)]
  /\ UNCHANGED <<pending, posted, batch, outcome, sockVars, running, stopping>>

\* An end that leaves the flag set.
Finish_KeepFlag(t) ==
  /\ pc[t] = "sending"
  /\ batch[t] = <<>>
  /\ posted' = IF pending = <<>> THEN posted ELSE posted + 1
  /\ pc' = [pc EXCEPT ![t] = After(t)]
  /\ UNCHANGED <<pending, flag, batch, outcome, sockVars, running, stopping>>

\* An end that may come before the batch is sent, as a `break` on the first
\* failure would make it.
Finish_Early(t) ==
  /\ pc[t] = "sending"
  /\ flag' = FALSE
  /\ posted' = IF pending = <<>> THEN posted ELSE posted + 1
  /\ pc' = [pc EXCEPT ![t] = After(t)]
  /\ UNCHANGED <<pending, batch, outcome, sockVars, running, stopping>>

\* The last critical section.
Finish(t) ==
  /\ pc[t] = "sending"
  /\ batch[t] = <<>>
  /\ flag' = FALSE
  /\ posted' = IF pending = <<>> THEN posted ELSE posted + 1
  /\ pc' = [pc EXCEPT ![t] = After(t)]
  /\ UNCHANGED <<pending, batch, outcome, sockVars, running, stopping>>

\* Stop: the flag, then the queue, whose callbacks hear of a failure.
Stop ==
  /\ MayStop
  /\ stopping = "no"
  /\ running' = FALSE
  /\ stopping' = "drain"
  /\ UNCHANGED <<pending, flag, posted, pc, batch, outcome, sockVars>>

Drain ==
  /\ stopping = "drain"
  /\ stopping' = "done"
  /\ outcome' = [i \in Items |->
       IF \E k \in DOMAIN pending : pending[k] = i THEN "failed"
       ELSE outcome[i]]
  /\ pending' = <<>>
  /\ UNCHANGED <<flag, posted, pc, batch, sockVars, running>>

ThreadStep(t) ==
  \/ Post(t)
  \/ Swap(t)
  \/ SendOne(t)
  \/ Finish(t)

EventStep == OnZmqEvent \/ Events \/ Recv \/ RecvNothing \/ Handled \/ Rearm

Next ==
  \/ Arrive
  \/ Signal
  \/ Notice
  \/ EventStep
  \/ \E t \in Threads : ThreadStep(t)
  \/ \E t \in Workers : RunTask(t)
  \/ \E t \in Threads, i \in Items : Push(t, i)
  \/ Stop
  \/ Drain

Spec == Init /\ [][Next]_vars

\* A thread in the middle of a callback goes on, and a task that stays posted
\* is run by some worker of the pool.
FairSpec ==
  /\ Spec
  /\ \A t \in Threads : WF_vars(ThreadStep(t))
  /\ WF_vars(\E t \in Workers : RunTask(t))

-----------------------------------------------------------------------------
(* Properties *)

PCs == {"idle", "event", "swap", "sending", "post", "events", "recv", "handle",
        "rearm", "off"}
Outcomes == {"unsent", "queued", "sent", "failed"}

\* Every variable keeps its type; a batch is held only while it is sent.
TypeOK ==
  /\ pending \in Seq(Items)
  /\ flag \in BOOLEAN
  /\ posted \in Nat
  /\ pc \in [Threads -> PCs]
  /\ batch \in [Threads -> Seq(Items)]
  /\ outcome \in [Items -> Outcomes]
  /\ inbox \in Nat
  /\ readable \in BOOLEAN
  /\ running \in BOOLEAN
  /\ stopping \in {"no", "drain", "done"}
  /\ \A t \in Threads : pc[t] # "sending" => batch[t] = <<>>

\* sending_in_progress_ is set only while a thread has a batch: a task that
\* gives way to it gives way to a thread that will look again.
FlagMeansBatch == flag => \E t \in Threads : pc[t] = "sending"

\* No wakeup is lost: while the server runs and sends are pending, a task is
\* posted, or a thread is about to post one, to take the queue, or to look at
\* it after its batch, although tasks give way to a flag they read outside the
\* mutex and a thread that finds the queue empty clears the flag of another.
NoLostWakeup ==
  (running /\ pending # <<>>) =>
    \/ posted > 0
    \/ \E t \in Threads : pc[t] \in {"post", "swap", "sending"}

\* No send is in two hands: an item that waits, in the queue or in a batch,
\* waits there once and its callback has not been called.
InOneHand ==
  /\ \A k, l \in DOMAIN pending : pending[k] = pending[l] => k = l
  /\ \A k \in DOMAIN pending : outcome[pending[k]] = "queued"
  /\ \A t \in Threads : \A k \in DOMAIN batch[t] :
       /\ outcome[batch[t][k]] = "queued"
       /\ \A l \in DOMAIN pending : pending[l] # batch[t][k]
       /\ \A u \in Threads : \A l \in DOMAIN batch[u] :
            batch[u][l] = batch[t][k] => u = t /\ l = k

\* A message that waits is announced when OnZmqEvent is on its way to it, or the
\* descriptor will bring it there.
Announced ==
  \/ inbox = 0
  \/ readable
  \/ pc[Ev] \in {"event", "swap", "sending", "events", "recv", "handle", "post"}

\* The callback never leaves a message behind unannounced, wherever between its
\* last recv and async_wait it comes in.  While the server runs, only a send
\* that a posted task makes meanwhile can take an announcement away.
OnlySendsSilence ==
  [][Announced /\ ~Announced' /\ running' =>
       \E t \in Workers : batch[t] # <<>> /\ batch'[t] = Tail(batch[t])]_vars

\* The queue, the flag, the tasks and the batches do what Outbound says: the
\* callback of a send is called once, and it is called, by a thread that hands
\* the send to the socket, unless the server is stopped first.
Out == INSTANCE Outbound WITH fate <- outcome, up <- running

ImplementsOutbound == Out!Spec
=============================================================================
