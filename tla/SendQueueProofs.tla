-------------------------- MODULE SendQueueProofs --------------------------
(***************************************************************************)
(* For any number of threads and sends: the types, that no wakeup is lost, *)
(* that a send is in one hand, and that it is resolved once (the safety    *)
(* part of Outbound).                                                      *)
(***************************************************************************)
EXTENDS SendQueue, SequenceTheorems, TLAPS

\* Every step keeps the types.  The sequences change only by Append, Tail and
\* swap.
LEMMA TypeStep == TypeOK /\ [Next]_vars => TypeOK'
<1> SUFFICES ASSUME TypeOK, [Next]_vars PROVE TypeOK'
  OBVIOUS
<1> USE DEF TypeOK, PCs, Outcomes, Threads, After, Caller, EvFrame, sockVars
<1>1. CASE Arrive \/ Signal
  <2>1. UNCHANGED <<pending, flag, posted, pc, batch, outcome, running, stopping>>
    BY <1>1 DEF Arrive, Signal
  <2>2. inbox' \in Nat
    BY <1>1 DEF Arrive, Signal
  <2>3. readable' \in BOOLEAN
    BY <1>1 DEF Arrive, Signal
  <2> QED
    BY <2>1, <2>2, <2>3
<1>2. CASE Notice \/ EventStep
  <2>1. EvFrame
    BY <1>2 DEF Notice, EventStep, OnZmqEvent, Events, Recv, RecvNothing,
       Handled, Rearm
  <2>2. inbox' \in Nat
    BY <1>2 DEF Notice, EventStep, OnZmqEvent, Events, Recv, RecvNothing,
       Handled, Rearm
  <2>3. readable' \in BOOLEAN
    BY <1>2 DEF Notice, EventStep, OnZmqEvent, Events, Recv, RecvNothing,
       Handled, Rearm
  <2>4. /\ pc[Ev] \in {"idle", "event", "events", "recv", "handle", "rearm"}
        /\ \E next \in PCs \ {"sending"} : pc' = [pc EXCEPT ![Ev] = next]
    BY <1>2 DEF Notice, EventStep, OnZmqEvent, Events, Recv, RecvNothing,
       Handled, Rearm
  <2>5. pc' \in [Threads -> PCs]
    BY <2>4
  <2>6. \A t \in Threads : pc'[t] # "sending" => batch'[t] = <<>>
    BY <2>1, <2>4
  <2> QED
    BY <2>1, <2>2, <2>3, <2>5, <2>6
<1>3. ASSUME NEW t \in Threads, Post(t) PROVE TypeOK'
  BY <1>3 DEF Post
<1>4. ASSUME NEW t \in Threads, Swap(t) PROVE TypeOK'
  <2>1. CASE pending = <<>>
    BY <1>4, <2>1 DEF Swap
  <2>2. CASE pending # <<>>
    <3>1. /\ flag' = TRUE
          /\ pc' = [pc EXCEPT ![t] = "sending"]
          /\ batch' = [batch EXCEPT ![t] = pending]
          /\ pending' = <<>>
          /\ UNCHANGED <<posted, outcome, sockVars, running, stopping>>
      BY <1>4, <2>2 DEF Swap
    <3>2. flag' \in BOOLEAN /\ pending' \in Seq(Items)
      BY <3>1
    <3>3. pc' \in [Threads -> PCs] /\ batch' \in [Threads -> Seq(Items)]
      BY <3>1
    <3>4. \A u \in Threads : pc'[u] # "sending" => batch'[u] = <<>>
      BY <3>1
    <3> QED
      BY <3>1, <3>2, <3>3, <3>4
  <2> QED
    BY <2>1, <2>2
<1>5. ASSUME NEW t \in Threads, SendOne(t) PROVE TypeOK'
  <2>1. Head(batch[t]) \in Items /\ Tail(batch[t]) \in Seq(Items)
    BY <1>5, HeadTailProperties DEF SendOne
  <2> QED
    BY <1>5, <2>1 DEF SendOne
<1>6. ASSUME NEW t \in Threads, Finish(t) PROVE TypeOK'
  <2>1. posted' \in Nat
    BY <1>6 DEF Finish
  <2>4. flag' \in BOOLEAN
    <3>1. flag' = FALSE
      BY <1>6 DEF Finish
    <3> QED
      BY <3>1
  <2>2. pc' \in [Threads -> PCs]
    BY <1>6 DEF Finish
  <2>3. \A u \in Threads : pc'[u] # "sending" => batch'[u] = <<>>
    BY <1>6 DEF Finish
  <2> QED
    BY <1>6, <2>1, <2>2, <2>3, <2>4 DEF Finish
<1>7. ASSUME NEW t \in Workers, RunTask(t) PROVE TypeOK'
  BY <1>7 DEF RunTask
<1>8. ASSUME NEW t \in Threads, NEW i \in Items, Push(t, i) PROVE TypeOK'
  <2>1. Append(pending, i) \in Seq(Items)
    OBVIOUS
  <2> QED
    BY <1>8, <2>1 DEF Push
<1>9. CASE Stop
  BY <1>9 DEF Stop
<1>10. CASE Drain
  BY <1>10 DEF Drain
<1>11. CASE UNCHANGED vars
  BY <1>11 DEF vars
<1> QED
  BY <1>1, <1>2, <1>3, <1>4, <1>5, <1>6, <1>7, <1>8, <1>9, <1>10, <1>11
     DEF Next, ThreadStep

\* The initial state has the types.
LEMMA InitTypes == Init => TypeOK
<1> SUFFICES ASSUME Init PROVE TypeOK
  OBVIOUS
<1>1. /\ flag \in BOOLEAN /\ running \in BOOLEAN /\ readable \in BOOLEAN
      /\ posted \in Nat /\ inbox \in Nat
  BY DEF Init
<1>2. pending \in Seq(Items) /\ stopping \in {"no", "drain", "done"}
  BY DEF Init
<1>3. /\ pc \in [Threads -> PCs]
      /\ batch \in [Threads -> Seq(Items)]
      /\ outcome \in [Items -> Outcomes]
  BY DEF Init, PCs, Outcomes
<1>4. \A t \in Threads : batch[t] = <<>>
  BY DEF Init
<1> QED
  BY <1>1, <1>2, <1>3, <1>4 DEF TypeOK

\* The types of SendQueue, for every instance.
THEOREM SendQueueTypes == Spec => []TypeOK
<1>1. Init => TypeOK
  BY InitTypes
<1> QED
  BY <1>1, TypeStep, PTL DEF Spec

\* FlagMeansBatch makes NoLostWakeup inductive: a task gives way only to a
\* thread that has a batch, and that thread posts when it finds the queue
\* filled at its end.
LEMMA WakeupStep ==
  TypeOK /\ FlagMeansBatch /\ NoLostWakeup /\ [Next]_vars =>
    FlagMeansBatch' /\ NoLostWakeup'
<1> SUFFICES ASSUME TypeOK, FlagMeansBatch, NoLostWakeup, [Next]_vars
             PROVE  FlagMeansBatch' /\ NoLostWakeup'
  OBVIOUS
<1> USE DEF TypeOK, FlagMeansBatch, NoLostWakeup, Threads, After, Caller, EvFrame,
           sockVars
<1>1. CASE Arrive \/ Signal
  <2>1. UNCHANGED <<pending, flag, posted, pc, running>>
    BY <1>1 DEF Arrive, Signal
  <2> QED
    BY <2>1
<1>2. CASE Notice \/ EventStep
  <2>1. UNCHANGED <<pending, flag, posted, running>>
    BY <1>2 DEF Notice, EventStep, OnZmqEvent, Events, Recv, RecvNothing,
       Handled, Rearm
  <2>2. /\ pc[Ev] \in {"idle", "event", "events", "recv", "handle", "rearm"}
        /\ \E next \in PCs : pc' = [pc EXCEPT ![Ev] = next]
    BY <1>2 DEF Notice, EventStep, OnZmqEvent, Events, Recv, RecvNothing,
       Handled, Rearm, PCs
  <2> QED
    BY <2>1, <2>2
<1>3. ASSUME NEW t \in Threads, Post(t)
      PROVE  FlagMeansBatch' /\ NoLostWakeup'
  BY <1>3 DEF Post
<1>4. ASSUME NEW t \in Threads, Swap(t)
      PROVE  FlagMeansBatch' /\ NoLostWakeup'
  BY <1>4 DEF Swap
<1>5. ASSUME NEW t \in Threads, SendOne(t)
      PROVE  FlagMeansBatch' /\ NoLostWakeup'
  BY <1>5 DEF SendOne
<1>6. ASSUME NEW t \in Threads, Finish(t)
      PROVE  FlagMeansBatch' /\ NoLostWakeup'
  BY <1>6 DEF Finish
<1>7. ASSUME NEW t \in Workers, RunTask(t)
      PROVE  FlagMeansBatch' /\ NoLostWakeup'
  BY <1>7 DEF RunTask
<1>8. ASSUME NEW t \in Threads, NEW i \in Items, Push(t, i)
      PROVE  FlagMeansBatch' /\ NoLostWakeup'
  BY <1>8 DEF Push
<1>9. CASE Stop
  BY <1>9 DEF Stop
<1>10. CASE Drain
  BY <1>10 DEF Drain
<1>11. CASE UNCHANGED vars
  BY <1>11 DEF vars
<1> QED
  BY <1>1, <1>2, <1>3, <1>4, <1>5, <1>6, <1>7, <1>8, <1>9, <1>10, <1>11
     DEF Next, ThreadStep

\* No wakeup is lost, however many workers the pool has.
THEOREM WakeupsKept == Spec => []NoLostWakeup
<1>1. Init => TypeOK
  BY InitTypes
<1>2. Init => FlagMeansBatch /\ NoLostWakeup
  BY DEF Init, FlagMeansBatch, NoLostWakeup
<1> QED
  BY <1>1, <1>2, TypeStep, WakeupStep, PTL DEF Spec

\* sending_in_progress_ is never left set by a thread that has nothing to send.
THEOREM FlagHeld == Spec => []FlagMeansBatch
<1>1. Init => TypeOK
  BY InitTypes
<1>2. Init => FlagMeansBatch /\ NoLostWakeup
  BY DEF Init, FlagMeansBatch, NoLostWakeup
<1> QED
  BY <1>1, <1>2, TypeStep, WakeupStep, PTL DEF Spec

\* What takes an announcement away.
Silenced ==
  \E t \in Workers : batch[t] # <<>> /\ batch'[t] = Tail(batch[t])

\* No step but a worker's send leaves a waiting message unannounced: the callback
\* looks at the socket again after each of its own sends, and does not leave its
\* loop before recv has found nothing.
LEMMA SilenceStep ==
  TypeOK /\ [Next]_vars => (Announced /\ ~Announced' /\ running' => Silenced)
<1> SUFFICES ASSUME TypeOK, [Next]_vars, Announced, ~Announced', running'
             PROVE  Silenced
  OBVIOUS
<1> USE DEF TypeOK, Threads, Announced, EvFrame, sockVars
<1>1. CASE Arrive \/ Signal
  <2>1. CASE readable' = TRUE
    BY <2>1, Zenon
  <2>2. CASE inbox > 0 /\ UNCHANGED <<readable, pc>>
    BY <2>2
  <2> QED
    BY <1>1, <2>1, <2>2 DEF Arrive, Signal
<1>2. CASE Notice \/ Handled \/ Rearm
  BY <1>2 DEF Notice, Handled, Rearm
<1>3. CASE OnZmqEvent
  BY <1>3 DEF OnZmqEvent
<1>4. CASE Events
  BY <1>4 DEF Events
<1>5. CASE Recv \/ RecvNothing
  BY <1>5 DEF Recv, RecvNothing
<1>6. ASSUME NEW t \in Threads, Post(t) PROVE Silenced
  BY <1>6 DEF Post, Caller
<1>7. ASSUME NEW t \in Threads, Swap(t) PROVE Silenced
  BY <1>7 DEF Swap, After
<1>8. ASSUME NEW t \in Threads, SendOne(t) PROVE Silenced
  <2>1. CASE t = Ev
    BY <1>8, <2>1 DEF SendOne
  <2>2. CASE t \in Workers
    BY <1>8, <2>2 DEF SendOne, Silenced
  <2> QED
    BY <2>1, <2>2
<1>9. ASSUME NEW t \in Threads, Finish(t) PROVE Silenced
  BY <1>9 DEF Finish, After
<1>10. ASSUME NEW t \in Workers, RunTask(t) PROVE Silenced
  BY <1>10, SendQueueAssumption DEF RunTask
<1>11. ASSUME NEW t \in Threads, NEW i \in Items, Push(t, i) PROVE Silenced
  BY <1>11 DEF Push, Caller
<1>12. CASE Stop \/ Drain
  BY <1>12 DEF Stop, Drain
<1>13. CASE UNCHANGED vars
  BY <1>13 DEF vars
<1> QED
  BY <1>1, <1>2, <1>3, <1>4, <1>5, <1>6, <1>7, <1>8, <1>9, <1>10, <1>11, <1>12,
     <1>13 DEF Next, ThreadStep, EventStep

\* Only a posted task's send can make the server overlook a message that waits,
\* with any number of workers.
THEOREM SilencedBySends == Spec => OnlySendsSilence
<1>1. TypeOK /\ [Next]_vars =>
        [Announced /\ ~Announced' /\ running' => Silenced]_vars
  BY SilenceStep
<1>2. Spec => [][Announced /\ ~Announced' /\ running' => Silenced]_vars
  BY <1>1, SendQueueTypes, PTL DEF Spec
<1> QED
  BY <1>2 DEF OnlySendsSilence, Silenced

-----------------------------------------------------------------------------
(* Every send is in one hand *)

\* What Append and Tail do to the positions of a sequence.
LEMMA Appended ==
  ASSUME NEW q \in Seq(Items), NEW i \in Items, NEW k \in DOMAIN Append(q, i)
  PROVE  \/ k \in DOMAIN q /\ Append(q, i)[k] = q[k]
         \/ k = Len(q) + 1 /\ Append(q, i)[k] = i
<1>1. /\ Append(q, i) \in Seq(Items) /\ Len(Append(q, i)) = Len(q) + 1
      /\ \A j \in 1..Len(q) : Append(q, i)[j] = q[j]
      /\ Append(q, i)[Len(q) + 1] = i
  BY AppendProperties
<1>2. /\ DOMAIN q = 1..Len(q) /\ Len(q) \in Nat
      /\ DOMAIN Append(q, i) = 1..(Len(q) + 1)
  BY <1>1, LenProperties
<1> QED
  BY <1>1, <1>2

LEMMA Shifted ==
  ASSUME NEW q \in Seq(Items), q # <<>>, NEW k \in DOMAIN Tail(q)
  PROVE  /\ k \in Nat /\ k + 1 \in DOMAIN q /\ k + 1 # 1
         /\ Tail(q)[k] = q[k + 1]
         /\ 1 \in DOMAIN q /\ Head(q) = q[1]
<1>1. /\ Tail(q) \in Seq(Items) /\ Len(Tail(q)) = Len(q) - 1
      /\ \A j \in 1..Len(Tail(q)) : Tail(q)[j] = q[j + 1]
      /\ Head(q) = q[1]
  BY HeadTailProperties
<1>2. /\ DOMAIN q = 1..Len(q) /\ Len(q) \in Nat
      /\ DOMAIN Tail(q) = 1..Len(Tail(q))
  BY <1>1, LenProperties
<1>3. Len(q) # 0
  BY EmptySeq
<1> QED
  BY <1>1, <1>2, <1>3

\* Nobody's batch is somebody else's, or in the queue: a push takes an item that
\* was never queued, the swap empties the queue into a batch that was empty, and
\* Stop drains only what no thread has taken.
LEMMA HandStep == TypeOK /\ InOneHand /\ [Next]_vars => InOneHand'
<1> SUFFICES ASSUME TypeOK, InOneHand, [Next]_vars PROVE InOneHand'
  OBVIOUS
<1>0. /\ pending \in Seq(Items) /\ batch \in [Threads -> Seq(Items)]
      /\ outcome \in [Items -> Outcomes]
      /\ \A k \in DOMAIN pending : pending[k] \in Items
      /\ \A t \in Threads : \A k \in DOMAIN batch[t] : batch[t][k] \in Items
  BY ElementOfSeq, LenProperties DEF TypeOK
<1>1. CASE UNCHANGED <<pending, batch, outcome>>
  BY <1>1 DEF InOneHand
<1>2. ASSUME NEW t \in Threads, NEW i \in Items, Push(t, i) PROVE InOneHand'
  <2>1. /\ outcome[i] = "unsent"
        /\ outcome' = [outcome EXCEPT ![i] = "queued"]
        /\ pending' = Append(pending, i) /\ batch' = batch
    BY <1>2 DEF Push
  <2>2. \A k \in DOMAIN pending' :
          \/ k \in DOMAIN pending /\ pending'[k] = pending[k]
          \/ k = Len(pending) + 1 /\ pending'[k] = i
    BY <1>0, <2>1, Appended
  <2>3. /\ \A k \in DOMAIN pending : pending[k] # i
        /\ \A u \in Threads : \A k \in DOMAIN batch[u] : batch[u][k] # i
    BY <2>1 DEF InOneHand
  <2>4. outcome'[i] = "queued" /\ \A j \in Items : j # i => outcome'[j] = outcome[j]
    BY <1>0, <2>1
  <2>5. \A k, l \in DOMAIN pending' : pending'[k] = pending'[l] => k = l
    BY <2>2, <2>3 DEF InOneHand
  <2>6. \A k \in DOMAIN pending' : outcome'[pending'[k]] = "queued"
    BY <1>0, <2>2, <2>3, <2>4 DEF InOneHand
  <2>7. \A u \in Threads : \A k \in DOMAIN batch[u] :
          /\ outcome'[batch[u][k]] = "queued"
          /\ \A l \in DOMAIN pending' : pending'[l] # batch[u][k]
    BY <1>0, <2>2, <2>3, <2>4 DEF InOneHand
  <2> QED
    BY <2>1, <2>5, <2>6, <2>7 DEF InOneHand
<1>3. ASSUME NEW t \in Threads, Swap(t) PROVE InOneHand'
  <2>1. CASE pending = <<>>
    BY <1>1, <1>3, <2>1 DEF Swap
  <2>2. CASE pending # <<>>
    <3>1. /\ batch[t] = <<>> /\ outcome' = outcome
          /\ batch' = [batch EXCEPT ![t] = pending]
          /\ pending' = <<>>
      BY <1>3, <2>2 DEF Swap, TypeOK
    <3>2. /\ batch'[t] = pending
          /\ \A u \in Threads : u # t => batch'[u] = batch[u]
          /\ DOMAIN pending' = {}
      BY <1>0, <3>1
    <3>3. ASSUME NEW u \in Threads, NEW k \in DOMAIN batch'[u]
          PROVE  outcome'[batch'[u][k]] = "queued"
      BY <3>1, <3>2 DEF InOneHand
    <3>4. ASSUME NEW u \in Threads, NEW k \in DOMAIN batch'[u],
                 NEW v \in Threads, NEW l \in DOMAIN batch'[v],
                 batch'[v][l] = batch'[u][k]
          PROVE  v = u /\ l = k
      <4>1. CASE u = t /\ v = t
        BY <3>2, <3>4, <4>1 DEF InOneHand
      <4>2. CASE u # t /\ v # t
        BY <3>2, <3>4, <4>2 DEF InOneHand
      <4>3. CASE u # t /\ v = t
        BY <3>2, <3>4, <4>3 DEF InOneHand
      <4>4. CASE u = t /\ v # t
        BY <3>2, <3>4, <4>4 DEF InOneHand
      <4> QED
        BY <4>1, <4>2, <4>3, <4>4
    <3> QED
      BY <3>2, <3>3, <3>4 DEF InOneHand
  <2> QED
    BY <2>1, <2>2
<1>4. ASSUME NEW t \in Threads, SendOne(t) PROVE InOneHand'
  <2>1. PICK result \in {"sent", "failed"} :
          outcome' = [outcome EXCEPT ![Head(batch[t])] = result]
    BY <1>4 DEF SendOne
  <2>2. /\ batch[t] # <<>> /\ pending' = pending
        /\ batch' = [batch EXCEPT ![t] = Tail(batch[t])]
    BY <1>4 DEF SendOne
  <2>3. /\ batch'[t] = Tail(batch[t])
        /\ \A u \in Threads : u # t => batch'[u] = batch[u]
    BY <1>0, <2>2
  <2>4. /\ 1 \in DOMAIN batch[t] /\ Head(batch[t]) = batch[t][1]
    BY <1>0, <2>2, HeadTailProperties, LenProperties, EmptySeq
  <2>5. \A k \in DOMAIN batch'[t] :
          /\ k \in Nat /\ k + 1 \in DOMAIN batch[t] /\ k + 1 # 1
          /\ batch'[t][k] = batch[t][k + 1]
    BY <1>0, <2>2, <2>3, Shifted
  <2>6. \A j \in Items : j # batch[t][1] => outcome'[j] = outcome[j]
    BY <1>0, <2>1, <2>4
  <2>7. \A k \in DOMAIN pending : outcome'[pending[k]] = "queued"
    BY <1>0, <2>4, <2>6 DEF InOneHand
  <2>8. ASSUME NEW u \in Threads, NEW k \in DOMAIN batch'[u]
        PROVE  \E j \in DOMAIN batch[u] :
                 /\ batch'[u][k] = batch[u][j]
                 /\ j = (IF u = t THEN k + 1 ELSE k)
                 /\ u = t => j # 1
    BY <2>3, <2>5
  <2>9. ASSUME NEW u \in Threads, NEW k \in DOMAIN batch'[u]
        PROVE  /\ outcome'[batch'[u][k]] = "queued"
               /\ \A l \in DOMAIN pending : pending[l] # batch'[u][k]
    <3>1. PICK j \in DOMAIN batch[u] :
            batch'[u][k] = batch[u][j] /\ (u = t => j # 1)
      BY <2>8
    <3>2. batch[u][j] # batch[t][1]
      BY <2>4, <3>1 DEF InOneHand
    <3> QED
      BY <1>0, <2>6, <3>1, <3>2 DEF InOneHand
  <2>10. ASSUME NEW u \in Threads, NEW k \in DOMAIN batch'[u],
                NEW v \in Threads, NEW l \in DOMAIN batch'[v],
                batch'[v][l] = batch'[u][k]
         PROVE  v = u /\ l = k
    <3>1. PICK j \in DOMAIN batch[u] :
            batch'[u][k] = batch[u][j] /\ j = (IF u = t THEN k + 1 ELSE k)
      BY <2>8
    <3>2. PICK i \in DOMAIN batch[v] :
            batch'[v][l] = batch[v][i] /\ i = (IF v = t THEN l + 1 ELSE l)
      BY <2>8
    <3>3. v = u /\ i = j
      BY <2>10, <3>1, <3>2 DEF InOneHand
    <3>4. CASE u = t
      <4>1. k \in Nat /\ l \in Nat
        BY <2>5, <3>3, <3>4
      <4> QED
        BY <3>1, <3>2, <3>3, <3>4, <4>1
    <3> QED
      BY <3>1, <3>2, <3>3, <3>4
  <2> QED
    BY <2>2, <2>7, <2>9, <2>10 DEF InOneHand
<1>5. CASE Drain
  <2>1. /\ pending' = <<>> /\ batch' = batch
        /\ \A i \in Items : (\A k \in DOMAIN pending : pending[k] # i) =>
                              outcome'[i] = outcome[i]
    BY <1>5 DEF Drain
  <2>2. DOMAIN pending' = {}
    BY <2>1
  <2>3. \A u \in Threads : \A k \in DOMAIN batch[u] :
          outcome'[batch[u][k]] = "queued"
    BY <1>0, <2>1 DEF InOneHand
  <2> QED
    BY <2>1, <2>2, <2>3 DEF InOneHand
<1>6. CASE \/ Arrive \/ Signal \/ Notice \/ EventStep \/ Stop
           \/ UNCHANGED vars
           \/ \E t \in Workers : RunTask(t)
           \/ \E t \in Threads : Post(t) \/ Finish(t)
  BY <1>1, <1>6 DEF Arrive, Signal, Notice, EventStep, OnZmqEvent, Events, Recv,
       RecvNothing, Handled, Rearm, EvFrame, Stop, RunTask, Post, Finish, vars
<1> QED
  BY <1>2, <1>3, <1>4, <1>5, <1>6 DEF Next, ThreadStep

\* However many threads run ProcessPendingSends at once, and whenever Stop comes,
\* a send that waits is in one place and its callback has not been called.
THEOREM SendsInOneHand == Spec => []InOneHand
<1>1. Init => TypeOK
  BY InitTypes
<1>2. Init => InOneHand
  BY DEF Init, InOneHand
<1> QED
  BY <1>1, <1>2, TypeStep, HandStep, PTL DEF Spec

-----------------------------------------------------------------------------
(* SendQueue implements Outbound, but for its liveness *)

\* Stop clears running_ before it drains the queue.
StopIsKnown == stopping # "no" => ~running

LEMMA KnownStep == StopIsKnown /\ [Next]_vars => StopIsKnown'
<1> SUFFICES ASSUME StopIsKnown, [Next]_vars PROVE StopIsKnown'
  OBVIOUS
<1> USE DEF StopIsKnown
<1>1. CASE UNCHANGED <<running, stopping>>
  BY <1>1
<1>2. CASE Stop
  BY <1>2, Zenon DEF Stop
<1>3. CASE Drain
  BY <1>3 DEF Drain
<1>4. CASE \/ Arrive \/ Signal \/ Notice \/ EventStep \/ UNCHANGED vars
           \/ \E t \in Workers : RunTask(t)
           \/ \E t \in Threads : ThreadStep(t)
           \/ \E t \in Threads, i \in Items : Push(t, i)
  BY <1>1, <1>4 DEF Arrive, Signal, Notice, EventStep, OnZmqEvent, Events, Recv,
       RecvNothing, Handled, Rearm, EvFrame, RunTask, ThreadStep, Post, Swap,
       SendOne, Finish, Push, vars
<1> QED
  BY <1>2, <1>3, <1>4 DEF Next

\* Every step is one of Outbound, or changes nothing there.
LEMMA OutboundStep ==
  ASSUME TypeOK, InOneHand, StopIsKnown, [Next]_vars
  PROVE  [Out!Next]_(Out!vars)
<1>0. /\ pending \in Seq(Items) /\ batch \in [Threads -> Seq(Items)]
      /\ outcome \in [Items -> Outcomes]
  BY DEF TypeOK
<1>1. CASE UNCHANGED <<outcome, running>>
  BY <1>1 DEF Out!vars
<1>2. ASSUME NEW t \in Threads, NEW i \in Items, Push(t, i)
      PROVE  Out!Next
  <2>1. Out!Submit(i)
    BY <1>2 DEF Push, Out!Submit
  <2> QED
    BY <2>1 DEF Out!Next
<1>3. ASSUME NEW t \in Threads, SendOne(t) PROVE Out!Next
  <2> DEFINE i == Head(batch[t])
  <2>1. batch[t] # <<>> /\ batch[t] \in Seq(Items)
    BY <1>0, <1>3 DEF SendOne
  <2>2. 1 \in DOMAIN batch[t] /\ i = batch[t][1] /\ i \in Items
    BY <2>1, HeadTailProperties, LenProperties, EmptySeq
  <2>3. outcome[i] = "queued"
    BY <2>2 DEF InOneHand
  <2>4. Out!Resolve(i)
    BY <1>3, <2>3 DEF SendOne, Out!Resolve
  <2> HIDE DEF i
  <2> QED
    BY <2>2, <2>4 DEF Out!Next
<1>4. CASE Stop
  BY <1>4 DEF Stop, Out!Next, Out!GoDown
<1>5. CASE Drain
  <2> DEFINE some == {i \in Items : \E k \in DOMAIN pending : pending[k] = i}
  <2>1. some \in SUBSET {i \in Items : outcome[i] = "queued"}
    BY DEF InOneHand
  <2>2. outcome' = [i \in Items |-> IF i \in some THEN "failed" ELSE outcome[i]]
    BY <1>5 DEF Drain
  <2>3. ~running /\ UNCHANGED running
    BY <1>5 DEF Drain, StopIsKnown
  <2> HIDE DEF some
  <2>4. Out!Abandon
    BY <2>1, <2>2, <2>3 DEF Out!Abandon
  <2> QED
    BY <2>4 DEF Out!Next
<1>6. CASE \/ Arrive \/ Signal \/ Notice \/ EventStep \/ UNCHANGED vars
           \/ \E t \in Workers : RunTask(t)
           \/ \E t \in Threads : Post(t) \/ Swap(t) \/ Finish(t)
  BY <1>1, <1>6 DEF Arrive, Signal, Notice, EventStep, OnZmqEvent, Events, Recv,
       RecvNothing, Handled, Rearm, EvFrame, RunTask, Post, Swap, Finish, vars
<1> QED
  BY <1>2, <1>3, <1>4, <1>5, <1>6 DEF Next, ThreadStep

\* The safety part of ImplementsOutbound, for any number of threads and sends:
\* the callback of a send is called at most once, after SendToClient, and those
\* that Stop calls are of sends that still waited.
THEOREM SendsResolveOnce == Spec => Out!Init /\ [][Out!Next]_(Out!vars)
<1>1. Init => TypeOK
  BY InitTypes
<1>2. Init => InOneHand /\ StopIsKnown /\ Out!Init
  BY DEF Init, InOneHand, StopIsKnown, Out!Init
<1>3. TypeOK /\ InOneHand /\ StopIsKnown /\ [Next]_vars => [Out!Next]_(Out!vars)
  BY OutboundStep
<1> QED
  BY <1>1, <1>2, <1>3, TypeStep, HandStep, KnownStep, PTL DEF Spec
=============================================================================
