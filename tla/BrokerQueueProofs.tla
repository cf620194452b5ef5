------------------------- MODULE BrokerQueueProofs -------------------------
(***************************************************************************)
(* The queue of a session: empty while the session is online, and never    *)
(* longer than two messages.  Neither fact is inductive by itself.  What   *)
(* is: the length of the queue plus the number of callbacks that have      *)
(* decided to send to the session is at most two, and an online session    *)
(* has an empty queue (so that a new decision, which needs an online       *)
(* session, starts from nothing queued).                                   *)
(***************************************************************************)
EXTENDS BrokerProofs

\* Where the event callback has decided to send to ev.sess.
EvCommits == EvSending \cup {"save", "corr"}

EvCommitted(s) == IF ev.sess = s /\ ev.pc \in EvCommits THEN 1 ELSE 0
AkCommitted(s) == IF ak.sess = s /\ ak.pc \in AkSending THEN 1 ELSE 0
Committed(s) == EvCommitted(s) + AkCommitted(s)

\* What is queued and what may still be queued.
CommittedBound ==
  \A s \in SessionIds : Len(sessions[s].queue) + Committed(s) <= 2

QueueInv == OnlineQueueEmpty /\ CommittedBound

LEMMA CommittedRange ==
  ASSUME NEW s
  PROVE  /\ Committed(s) \in 0..2
         /\ (Committed(s) \in 0..2)'
BY DEF Committed, EvCommitted, AkCommitted

LEMMA QueueTypes ==
  ASSUME TypeOK, NEW s \in SessionIds
  PROVE  sessions[s].queue \in Seq(Message) /\ Len(sessions[s].queue) \in Nat
<1>1. sessions[s].queue \in Seq(Message)
  BY DEF TypeOK, SessionsTypeOK, Session
<1> QED
  BY <1>1, LenProperties

\* A step that empties some queues and, in the others, adds nothing, brings no
\* session online and takes no new decision.
LEMMA QueueKept ==
  ASSUME TypeOK, TypeOK', QueueInv,
         \A t \in SessionIds :
           \/ sessions'[t].queue = <<>>
           \/ /\ Len(sessions'[t].queue) <= Len(sessions[t].queue)
              /\ IsOnline(t)' => IsOnline(t)
              /\ Committed(t)' <= Committed(t)
  PROVE  QueueInv'
<1> SUFFICES ASSUME NEW t \in SessionIds
             PROVE  /\ IsOnline(t)' => sessions'[t].queue = <<>>
                    /\ Len(sessions'[t].queue) + Committed(t)' <= 2
  BY DEF QueueInv, OnlineQueueEmpty, CommittedBound
<1> DEFINE q == sessions[t].queue
           r == sessions'[t].queue
           c == Committed(t)
           d == Committed(t)'
<1>1. q \in Seq(Message) /\ Len(q) \in Nat
  BY QueueTypes
<1>2. r \in Seq(Message) /\ Len(r) \in Nat
  <2>1. r \in Seq(Message)
    BY DEF TypeOK, SessionsTypeOK, Session
  <2> QED
    BY <2>1, LenProperties
<1>3. c \in 0..2 /\ d \in 0..2
  BY CommittedRange
<1>4. Len(q) + c <= 2 /\ (IsOnline(t) => q = <<>>)
  BY DEF QueueInv, OnlineQueueEmpty, CommittedBound
<1>5. r = <<>> \/ (Len(r) <= Len(q) /\ (IsOnline(t)' => IsOnline(t)) /\ d <= c)
  OBVIOUS
<1>6. Len(<<>>) = 0
  BY EmptySeq
<1> HIDE DEF q, r, c, d
<1>7. CASE r = <<>>
  BY <1>3, <1>6, <1>7 DEF r, d
<1>8. CASE /\ Len(r) <= Len(q)
           /\ IsOnline(t)' => IsOnline(t)
           /\ d <= c
  <2>1. Len(r) + d <= 2
    BY <1>1, <1>2, <1>3, <1>4, <1>8
  <2>2. IsOnline(t)' => r = <<>>
    <3> SUFFICES ASSUME IsOnline(t)' PROVE r = <<>>
      OBVIOUS
    <3>1. Len(r) = 0
      BY <1>1, <1>2, <1>4, <1>6, <1>8
    <3> QED
      BY <1>2, <3>1, EmptySeq
  <2> QED
    BY <2>1, <2>2 DEF r, d
<1> QED
  BY <1>5, <1>7, <1>8

\* A new decision is to send to a session that is online.
EvDecidesOnline ==
  (ev'.pc \in EvCommits /\ ev'.sess \in SessionIds) =>
    \/ ev.pc \in EvCommits /\ ev.sess = ev'.sess
    \/ IsOnline(ev'.sess)

LEMMA EvMoved ==
  ASSUME TypeOK, TypeOK', QueueInv, UNCHANGED <<sessions, ak>>,
         EvDecidesOnline
  PROVE  QueueInv'
<1> SUFFICES ASSUME NEW t \in SessionIds
             PROVE  \/ sessions'[t].queue = <<>>
                    \/ /\ Len(sessions'[t].queue) <= Len(sessions[t].queue)
                       /\ IsOnline(t)' => IsOnline(t)
                       /\ Committed(t)' <= Committed(t)
  BY QueueKept
<1>1. Len(sessions[t].queue) \in Nat
  BY QueueTypes
<1>2. AkCommitted(t)' = AkCommitted(t)
  BY DEF AkCommitted
<1>3. EvCommitted(t)' <= EvCommitted(t) \/ IsOnline(t)
  BY DEF EvCommitted, EvDecidesOnline
<1>4. CASE IsOnline(t)
  BY <1>4 DEF QueueInv, OnlineQueueEmpty
<1>5. CASE EvCommitted(t)' <= EvCommitted(t)
  BY <1>1, <1>2, <1>5 DEF Committed, IsOnline, EvCommitted, AkCommitted
<1> QED
  BY <1>3, <1>4, <1>5

\* A restart empties every queue.
LEMMA RestartKept ==
  ASSUME TypeOK, TypeOK', QueueInv, Restart
  PROVE  QueueInv'
<1>1. \A t \in SessionIds : sessions'[t].queue = <<>>
  BY DEF Restart, Unborn
<1> QED
  BY <1>1, QueueKept

\* The queue after the first n messages were taken from it.
LEMMA PoppedQueue ==
  ASSUME NEW q \in Seq(Message), NEW n \in 0..Len(q)
  PROVE  /\ Len(SubSeq(q, n + 1, Len(q))) <= Len(q)
         /\ Len(SubSeq(q, n + 1, Len(q))) = Len(q) - n
<1>1. Len(q) \in Nat
  BY LenProperties
<1>2. Len(SubSeq(q, n + 1, Len(q))) =
        IF n + 1 <= Len(q) THEN Len(q) - (n + 1) + 1 ELSE 0
  BY <1>1, SubSeqProperties
<1> QED
  BY <1>1, <1>2

\* Dropping a reference empties the queue of the session or changes nothing.
LEMMA ReleaseKept ==
  ASSUME TypeOK, TypeOK', QueueInv, NEW s \in SessionIds, NEW refs,
         Release(s, refs), \A t \in SessionIds : Committed(t)' <= Committed(t)
  PROVE  QueueInv'
<1> SUFFICES ASSUME NEW t \in SessionIds
             PROVE  \/ sessions'[t].queue = <<>>
                    \/ /\ Len(sessions'[t].queue) <= Len(sessions[t].queue)
                       /\ IsOnline(t)' => IsOnline(t)
                       /\ Committed(t)' <= Committed(t)
  BY QueueKept
<1>1. Len(sessions[t].queue) \in Nat
  BY QueueTypes
<1>2. CASE sessions' = sessions
  BY <1>1, <1>2 DEF IsOnline
<1>3. CASE sessions' = [sessions EXCEPT ![s] = [status |-> "destroyed",
                                    name |-> @.name, queue |-> <<>>]]
  BY <1>1, <1>3 DEF IsOnline, TypeOK, SessionsTypeOK
<1> QED
  BY <1>2, <1>3 DEF Release, Destroy

\* MarkOffline, alone or after a pop.
LEMMA OfflineKept ==
  ASSUME TypeOK, TypeOK', QueueInv, NEW s \in SessionIds,
         \A t \in SessionIds : Committed(t)' <= Committed(t),
         sessions' = MarkOffline(sessions, s)
  PROVE  QueueInv'
<1> SUFFICES ASSUME NEW t \in SessionIds
             PROVE  \/ sessions'[t].queue = <<>>
                    \/ /\ Len(sessions'[t].queue) <= Len(sessions[t].queue)
                       /\ IsOnline(t)' => IsOnline(t)
                       /\ Committed(t)' <= Committed(t)
  BY QueueKept
<1>1. Len(sessions[t].queue) \in Nat
  BY QueueTypes
<1>2. sessions'[t].queue = sessions[t].queue /\ (IsOnline(t)' => IsOnline(t))
  BY DEF MarkOffline, IsOnline, TypeOK, SessionsTypeOK, Session
<1> QED
  BY <1>1, <1>2

\* A pop, to the end or until a write throws, with or without MarkOffline.
LEMMA PopKept ==
  ASSUME TypeOK, TypeOK', QueueInv, NEW s \in SessionIds,
         NEW n \in 0..Len(sessions[s].queue),
         \A t \in SessionIds : Committed(t)' <= Committed(t),
         LET p == Popped(sessions, s, sessions[s].queue, n)
         IN  sessions' \in {p, MarkOffline(p, s)}
  PROVE  QueueInv'
<1> SUFFICES ASSUME NEW t \in SessionIds
             PROVE  \/ sessions'[t].queue = <<>>
                    \/ /\ Len(sessions'[t].queue) <= Len(sessions[t].queue)
                       /\ IsOnline(t)' => IsOnline(t)
                       /\ Committed(t)' <= Committed(t)
  BY QueueKept
<1> DEFINE q == sessions[s].queue
           r == SubSeq(q, n + 1, Len(q))
           p == Popped(sessions, s, q, n)
<1>1. q \in Seq(Message) /\ Len(q) \in Nat /\ Len(sessions[t].queue) \in Nat
  BY QueueTypes
<1>2. Len(r) <= Len(q)
  BY <1>1, PoppedQueue
<1> HIDE DEF r
<1>3. /\ p = [sessions EXCEPT ![s].queue = r]
      /\ sessions \in [SessionIds -> Session]
  BY DEF Popped, r, TypeOK, SessionsTypeOK
<1>4. /\ p[t].queue = IF t = s THEN r ELSE sessions[t].queue
      /\ p[t].status = sessions[t].status
  BY <1>3 DEF Session
<1>5. /\ sessions'[t].queue = p[t].queue
      /\ sessions'[t].status = "online" => p[t].status = "online"
  BY <1>3 DEF MarkOffline, Session
<1> HIDE DEF p
<1>6. Len(sessions'[t].queue) <= Len(sessions[t].queue)
  BY <1>1, <1>2, <1>4, <1>5
<1> QED
  BY <1>4, <1>5, <1>6 DEF IsOnline

\* A send by a callback that had decided to, and now no longer has.
LEMMA SendKept ==
  ASSUME TypeOK, TypeOK', QueueInv, NEW s \in SessionIds, NEW m \in Message,
         SendMessage(s, m),
         \A t \in SessionIds : Committed(t)' <= Committed(t),
         Committed(s)' + 1 <= Committed(s)
  PROVE  QueueInv'
<1>1. CASE IsOnline(s)
  <2>1. sessions' = sessions
    BY <1>1 DEF SendMessage
  <2>2. \A t \in SessionIds : Len(sessions[t].queue) <= Len(sessions[t].queue)
    BY QueueTypes
  <2> QED
    BY <2>1, <2>2, QueueKept DEF IsOnline
<1>2. CASE ~IsOnline(s)
  <2> DEFINE q == sessions[s].queue
             r == Append(q, m)
             c == Committed(s)
             d == Committed(s)'
  <2>1. q \in Seq(Message) /\ Len(q) \in Nat
    BY QueueTypes
  <2>2. r \in Seq(Message) /\ Len(r) = Len(q) + 1
    BY <2>1, AppendProperties
  <2>3. c \in 0..2 /\ d \in 0..2 /\ d + 1 <= c /\ Len(q) + c <= 2
    BY CommittedRange DEF QueueInv, CommittedBound
  <2>4. /\ sessions' = Popped(sessions, s, r,
                              IF Len(r) > Threshold THEN Len(r) \div 2 ELSE 0)
    BY <1>2 DEF SendMessage, EnqueueMessage
  <2> HIDE DEF q, r, c, d
  <2>5. Len(r) <= 2 /\ Len(r) + d <= 2 /\ ~(Len(r) > Threshold) /\ Len(r) \in Nat
    BY <2>1, <2>2, <2>3, SessionsAssumption
  <2>6. sessions' = [sessions EXCEPT ![s].queue = SubSeq(r, 1, Len(r))]
    BY <2>4, <2>5 DEF Popped
  <2>7. Len(SubSeq(r, 1, Len(r))) = Len(r)
    BY <2>2, <2>5, SubSeqProperties
  <2>8. /\ sessions'[s].queue = SubSeq(r, 1, Len(r))
        /\ sessions'[s].status = sessions[s].status
        /\ \A t \in SessionIds \ {s} : sessions'[t] = sessions[t]
    BY <2>6 DEF TypeOK, SessionsTypeOK, Session
  <2>9. ASSUME NEW t \in SessionIds
        PROVE  /\ IsOnline(t)' => sessions'[t].queue = <<>>
               /\ Len(sessions'[t].queue) + Committed(t)' <= 2
    <3>1. CASE t = s
      BY <1>2, <2>5, <2>7, <2>8, <3>1 DEF IsOnline, d
    <3>2. CASE t # s
      <4>1. sessions'[t] = sessions[t]
        BY <2>8, <3>2
      <4>2. /\ Committed(t) \in 0..2 /\ Committed(t)' \in 0..2
            /\ Committed(t)' <= Committed(t)
            /\ Len(sessions[t].queue) \in Nat
        BY CommittedRange, QueueTypes
      <4>3. /\ Len(sessions[t].queue) + Committed(t) <= 2
            /\ IsOnline(t) => sessions[t].queue = <<>>
        BY DEF QueueInv, OnlineQueueEmpty, CommittedBound
      <4>4. Len(sessions'[t].queue) + Committed(t)' <= 2
        BY <4>1, <4>2, <4>3
      <4> QED
        BY <4>1, <4>3, <4>4 DEF IsOnline
    <3> QED
      BY <3>1, <3>2
  <2> QED
    BY <2>9 DEF QueueInv, OnlineQueueEmpty, CommittedBound
<1> QED
  BY <1>1, <1>2

-----------------------------------------------------------------------------
(* The steps of the event callback *)

\* After a step that leaves the decisions of the ACK timer alone.
LEMMA EvDecisions ==
  ASSUME UNCHANGED ak
  PROVE  /\ (ev'.pc \in EvCommits => ev.pc \in EvCommits /\ ev.sess = ev'.sess)
              => \A t \in SessionIds : Committed(t)' <= Committed(t)
         /\ \A s \in SessionIds :
              (ev.sess = s /\ ev.pc \in EvCommits /\ ev'.pc \notin EvCommits)
                => Committed(s)' + 1 <= Committed(s)
<1>1. \A t : AkCommitted(t)' = AkCommitted(t) /\ AkCommitted(t) \in {0, 1}
  BY DEF AkCommitted
<1>2. \A t : EvCommitted(t)' \in {0, 1} /\ EvCommitted(t) \in {0, 1}
  BY DEF EvCommitted
<1>3. ASSUME NEW t, ev'.pc \in EvCommits => ev.pc \in EvCommits /\ ev.sess = ev'.sess
      PROVE  EvCommitted(t)' <= EvCommitted(t)
  BY <1>3 DEF EvCommitted
<1>4. ASSUME NEW t, ev.sess = t, ev.pc \in EvCommits, ev'.pc \notin EvCommits
      PROVE  EvCommitted(t)' = 0 /\ EvCommitted(t) = 1
  BY <1>4 DEF EvCommitted
<1> QED
  BY <1>1, <1>2, <1>3, <1>4 DEF Committed

\* The steps that change no session.
EvLocal ==
  \/ EvReturn \/ EvOffLoad \/ EvOffNext \/ EvOffDone \/ EvRepLoad \/ EvRepNext
  \/ EvRepDone \/ EvFind \/ EvSave \/ EvCorr \/ EvMark \/ EvReplySave
  \/ EvReplyCorr \/ EvReplyFind \/ EvReplySent \/ EvReplyMark \/ EvAckLook
  \/ EvAckDeliver \/ EvAckReceived \/ EvAckNotify \/ EvAckSave \/ EvUnregFind
  \/ EvUnregRemove

LEMMA EvLocalDecides ==
  ASSUME TypeOK, EvLocal
  PROVE  UNCHANGED <<sessions, ak>> /\ EvDecidesOnline
<1> USE DEF EvFrame, sessVars, EvFinish, IdleEv, EvThrows, EvGoto, EvCommits,
            EvSending, EvDecidesOnline
<1>0. ev \in EvState
  BY DEF TypeOK
<1>1. CASE EvReturn \/ EvOffDone \/ EvRepDone
  <2>1. ev'.pc \in {"idle", "offNext", "repNext", "done"}
    <3>1. CASE EvReturn
      BY <3>1 DEF EvReturn
    <3>2. CASE EvOffDone
      BY <1>0, <3>2 DEF EvOffDone, EvState
    <3>3. CASE EvRepDone
      BY <1>0, <3>3 DEF EvRepDone, EvState
    <3> QED
      BY <1>1, <3>1, <3>2, <3>3
  <2> QED
    BY <1>1, <2>1 DEF EvReturn, EvOffDone, EvRepDone
<1>a. CASE EvOffLoad
  <2>1. ev'.pc \in {"repLoad", "offNext"}
    BY <1>0, <1>a DEF EvOffLoad, EvState
  <2> QED
    BY <1>a, <2>1 DEF EvOffLoad
<1>b. CASE EvRepLoad
  <2>1. ev'.pc \in {"done", "repNext"}
    BY <1>0, <1>b DEF EvRepLoad, EvState
  <2> QED
    BY <1>b, <2>1 DEF EvRepLoad
<1>2. CASE EvOffNext \/ EvRepNext
  BY <1>0, <1>2 DEF EvOffNext, EvRepNext, EvState
<1>3. CASE EvFind
  <2>1. UNCHANGED <<sessions, ak>>
    BY <1>3 DEF EvFind
  <2>2. ev'.sess = NoSession \/ IsOnline(ev'.sess)
    BY <1>0, <1>3 DEF EvFind, EvState
  <2> QED
    BY <2>1, <2>2, SessionsAssumption
<1>4. CASE EvSave
  BY <1>0, <1>4 DEF EvSave, EvState
<1>5. CASE EvCorr \/ EvMark \/ EvReplySave \/ EvReplyCorr
  BY <1>0, <1>5 DEF EvCorr, EvMark, EvReplySave, EvReplyCorr, EvState
<1>6. CASE EvReplyFind \/ EvReplySent \/ EvReplyMark
  BY <1>0, <1>6 DEF EvReplyFind, EvReplySent, EvReplyMark, EvState
<1>7. CASE EvAckLook \/ EvAckDeliver \/ EvAckReceived \/ EvAckNotify \/ EvAckSave
  BY <1>0, <1>7
     DEF EvAckLook, EvAckDeliver, EvAckReceived, EvAckNotify, EvAckSave, EvState
<1>8. CASE EvUnregFind \/ EvUnregRemove
  BY <1>0, <1>8 DEF EvUnregFind, EvUnregRemove, EvState
<1> QED
  BY <1>1, <1>a, <1>b, <1>2, <1>3, <1>4, <1>5, <1>6, <1>7, <1>8 DEF EvLocal

\* The steps that send.
LEMMA EvSendsKept ==
  ASSUME WellFormed, TypeOK', QueueInv,
         EvOffSend \/ EvRepSend \/ EvSend \/ EvReplySend \/ EvAckSend
  PROVE  QueueInv'
<1> USE DEF WellFormed
<1>0. ev \in EvState /\ EvRefsOK /\ ev.msg \in Message
  BY DEF TypeOK, EvState
<1>1. ev.pc \in EvSending /\ UNCHANGED ak
  BY DEF EvOffSend, EvRepSend, EvSend, EvReplySend, EvAckSend, EvSending, EvFrame
<1>2. ev.sess \in SessionIds /\ ev.pc \in EvCommits
  BY <1>0, <1>1 DEF EvRefsOK, EvCommits
<1>3. ev'.pc \notin EvCommits
  BY <1>0 DEF EvOffSend, EvRepSend, EvSend, EvReplySend, EvAckSend, EvGoto,
              EvFinish, IdleEv, EvCommits, EvSending, EvState
<1>4. PICK m \in Message : SendMessage(ev.sess, m)
  <2>1. CASE EvOffSend \/ EvRepSend
    <3>1. ev.id \in DOMAIN messages
      BY <1>0, <2>1 DEF EvOffSend, EvRepSend, EvRefsOK
    <3>2. messages[ev.id].msg \in Message
      BY <3>1, RowMessage
    <3> QED
      BY <2>1, <3>2 DEF EvOffSend, EvRepSend
  <2>2. CASE EvSend \/ EvReplySend
    BY <1>0, <2>2 DEF EvSend, EvReplySend
  <2>3. CASE EvAckSend
    <3>1. AckNotification \in Message
      BY <1>0 DEF AckNotification, EvState, Message, Types, Flags
    <3> QED
      BY <2>3, <3>1 DEF EvAckSend
  <2> QED
    BY <2>1, <2>2, <2>3
<1>5. PICK s \in SessionIds : s = ev.sess
  BY <1>2
<1>6. /\ \A t \in SessionIds : Committed(t)' <= Committed(t)
      /\ Committed(s)' + 1 <= Committed(s)
  BY <1>1, <1>2, <1>3, <1>5, EvDecisions
<1> QED
  BY <1>4, <1>5, <1>6, SendKept

\* The other steps that change sessions.
LEMMA EvSessionsKept ==
  ASSUME WellFormed, TypeOK', QueueInv,
         \/ \E s \in SessionIds : EvRelease(s)
         \/ EvUpsert \/ EvOffFlush \/ EvReplyRollback \/ EvUnregPersist
  PROVE  QueueInv'
<1> USE DEF WellFormed
<1>0. ev \in EvState /\ EvRefsOK
  BY DEF TypeOK
<1> DEFINE Fewer == \A t \in SessionIds : Committed(t)' <= Committed(t)
<1>1. ASSUME NEW s \in SessionIds, EvRelease(s) PROVE QueueInv'
  <2> DEFINE others == Registered \cup {ak.sess}
  <2>1. CASE ReleaseTerminates(s, others)
    BY <2>1, RestartKept DEF ReleaseTerminates
  <2>2. CASE Release(s, others) /\ ev' = [ev EXCEPT !.refs = @ \ {s}] /\ EvFrame
    <3>1. ev'.pc = ev.pc /\ ev'.sess = ev.sess /\ UNCHANGED ak
      BY <1>0, <2>2 DEF EvState, EvFrame
    <3>2. Fewer
      BY <3>1, EvDecisions
    <3> QED
      BY <2>2, <3>2, ReleaseKept
  <2> QED
    BY <1>1, <2>1, <2>2 DEF EvRelease
<1>2. CASE EvUpsert
  <2> DEFINE old == FindSession(ev.msg.sender)
             q == IF old = NoSession THEN <<>> ELSE sessions[old].queue
  <2>1. Fewer
    BY <1>0, <1>2, EvDecisions
       DEF EvUpsert, EvFinish, IdleEv, EvFrame, EvCommits, EvSending, EvState
  <2>2. ASSUME NEW new \in SessionIds,
               sessions' = [s \in SessionIds |->
                   IF s = new
                   THEN [status |-> "online", name |-> ev.msg.sender,
                         queue |-> <<>>]
                   ELSE IF s = old
                   THEN [status |-> "offline", name |-> sessions[s].name,
                         queue |-> <<>>]
                   ELSE sessions[s]]
        PROVE  QueueInv'
    <3>1. \A t \in SessionIds :
            \/ sessions'[t].queue = <<>>
            \/ sessions'[t] = sessions[t]
      BY <2>2
    <3>2. \A t \in SessionIds : Len(sessions[t].queue) <= Len(sessions[t].queue)
      BY QueueTypes
    <3> QED
      BY <2>1, <3>1, <3>2, QueueKept DEF IsOnline
  <2>3. ASSUME old # NoSession, NEW n \in 0..Len(q),
               sessions' = Popped(sessions, old, q, n)
        PROVE  QueueInv'
    <3>1. old \in SessionIds
      BY <2>3, FoundSession
    <3>2. q = sessions[old].queue
      BY <2>3
    <3> HIDE DEF old
    <3> QED
      BY <2>1, <2>3, <3>1, <3>2, PopKept
  <2> QED
    BY <1>2, <2>2, <2>3 DEF EvUpsert
<1>3. CASE EvOffFlush
  <2>1. ev.sess \in SessionIds /\ UNCHANGED ak
    BY <1>0, <1>3 DEF EvOffFlush, EvRefsOK, EvFrame
  <2>2. Fewer
    BY <1>0, <1>3, <2>1, EvDecisions
       DEF EvOffFlush, EvGoto, EvCommits, EvSending, EvState
  <2>3. /\ Len(sessions[ev.sess].queue) \in 0..Len(sessions[ev.sess].queue)
        /\ \A t \in SessionIds : Len(sessions[t].queue) <= Len(sessions[t].queue)
    BY <2>1, QueueTypes
  <2>4. CASE sessions' = sessions
    BY <2>2, <2>3, <2>4, QueueKept DEF IsOnline
  <2>5. CASE sessions' = Popped(sessions, ev.sess, sessions[ev.sess].queue,
                                Len(sessions[ev.sess].queue))
    BY <2>1, <2>2, <2>3, <2>5, PopKept
  <2> QED
    BY <1>3, <2>4, <2>5 DEF EvOffFlush, FlushQueue
<1>4. CASE EvReplyRollback
  <2>1. ev.sess \in SessionIds /\ UNCHANGED ak
    BY <1>0, <1>4 DEF EvReplyRollback, EvRefsOK, EvFrame
  <2>2. Fewer
    BY <1>4, <2>1, EvDecisions
       DEF EvReplyRollback, EvFinish, IdleEv, EvCommits, EvSending
  <2> QED
    BY <1>4, <2>1, <2>2, OfflineKept DEF EvReplyRollback
<1>5. CASE EvUnregPersist
  <2>1. ev.sess \in SessionIds /\ UNCHANGED ak
    BY <1>0, <1>5 DEF EvUnregPersist, EvRefsOK, EvFrame
  <2>2. Fewer
    BY <1>0, <1>5, <2>1, EvDecisions
       DEF EvUnregPersist, EvGoto, EvFinish, IdleEv, EvCommits, EvSending, EvState
  <2>3. Len(sessions[ev.sess].queue) \in 0..Len(sessions[ev.sess].queue)
    BY <2>1, QueueTypes
  <2>4. PICK n \in 0..Len(sessions[ev.sess].queue) :
          LET p == Popped(sessions, ev.sess, sessions[ev.sess].queue, n)
          IN  sessions' \in {p, MarkOffline(p, ev.sess)}
    BY <1>5, <2>3 DEF EvUnregPersist
  <2> QED
    BY <2>1, <2>2, <2>4, PopKept
<1> QED
  BY <1>1, <1>2, <1>3, <1>4, <1>5

-----------------------------------------------------------------------------
(* The other activities *)

\* The ACK timer.  It decides only on a session it found online.
LEMMA AkKept ==
  ASSUME WellFormed, TypeOK', QueueInv, AkLoad \/ AkStep
  PROVE  QueueInv'
<1> USE DEF WellFormed
<1>0. ak \in AkState /\ AkRefsOK
  BY DEF TypeOK
<1> DEFINE Fewer == \A t \in SessionIds : Committed(t)' <= Committed(t)
<1>1. CASE AkLoad \/ AkNext \/ AkFind \/ AkSent
  <2>1. UNCHANGED <<sessions, ev>>
    BY <1>1 DEF AkLoad, AkNext, AkFind, AkSent, AkFrame, sessVars
  <2>2. \A t \in SessionIds :
          (ak'.sess = t /\ ak'.pc \in AkSending) =>
            (ak.sess = t /\ ak.pc \in AkSending) \/ IsOnline(t)
    <3>1. CASE AkLoad \/ AkNext
      <4>1. ak'.pc \in {"next", "idle", "find"}
        <5>1. CASE AkLoad
          <6>1. PICK x : ak' = [ak EXCEPT !.pc = "next", !.todo = x]
            BY <5>1 DEF AkLoad
          <6> QED
            BY <1>0, <6>1 DEF AkState
        <5>2. CASE AkNext
          <6>1. CASE ak' = IdleAk
            BY <6>1 DEF IdleAk
          <6>2. ASSUME NEW i,
                       ak' = [ak EXCEPT !.pc = "find", !.id = i, !.todo = @ \ {i}]
                PROVE  ak'.pc \in {"next", "idle", "find"}
            BY <1>0, <6>2 DEF AkState
          <6> QED
            BY <5>2, <6>1, <6>2 DEF AkNext
        <5> QED
          BY <3>1, <5>1, <5>2
      <4> QED
        BY <4>1 DEF AkSending
    <3>2. CASE AkFind
      <4>1. \/ ak'.pc \notin AkSending
            \/ IsOnline(ak'.sess)
        BY <1>0, <3>2 DEF AkFind, AkSending, AkState
      <4> QED
        BY <4>1
    <3>3. CASE AkSent
      BY <1>0, <3>3 DEF AkSent, AkGoto, AkSending, AkState
    <3> QED
      BY <1>1, <3>1, <3>2, <3>3
  <2>3. ASSUME NEW t \in SessionIds
        PROVE  \/ sessions'[t].queue = <<>>
               \/ /\ Len(sessions'[t].queue) <= Len(sessions[t].queue)
                  /\ IsOnline(t)' => IsOnline(t)
                  /\ Committed(t)' <= Committed(t)
    <3>1. CASE IsOnline(t)
      BY <2>1, <3>1 DEF QueueInv, OnlineQueueEmpty
    <3>2. CASE ~IsOnline(t)
      <4>1. Committed(t)' <= Committed(t)
        BY <2>1, <2>2, <3>2 DEF Committed, EvCommitted, AkCommitted
      <4>2. Len(sessions[t].queue) \in Nat
        BY QueueTypes
      <4> QED
        BY <2>1, <4>1, <4>2 DEF IsOnline
    <3> QED
      BY <3>1, <3>2
  <2> QED
    BY <2>3, QueueKept
<1>2. CASE AkSend
  <2>1. /\ ak.id \in DOMAIN messages /\ ak.sess \in SessionIds
        /\ ak.pc \in AkSending /\ ak'.pc \notin AkSending /\ UNCHANGED ev
    BY <1>0, <1>2 DEF AkSend, AkRefsOK, AkSending, AkGoto, AkState, AkFrame
  <2>2. messages[ak.id].msg \in Message
    BY <2>1, RowMessage
  <2>3. PICK s \in SessionIds : s = ak.sess
    BY <2>1
  <2>4. \A t : /\ EvCommitted(t)' = EvCommitted(t) /\ EvCommitted(t) \in {0, 1}
              /\ AkCommitted(t)' = 0 /\ AkCommitted(t) \in {0, 1}
    BY <2>1 DEF EvCommitted, AkCommitted
  <2>5. AkCommitted(s) = 1
    BY <2>1, <2>3 DEF AkCommitted
  <2>6. Fewer /\ Committed(s)' + 1 <= Committed(s)
    BY <2>4, <2>5 DEF Committed
  <2> QED
    BY <1>2, <2>2, <2>3, <2>6, SendKept DEF AkSend
<1>3. CASE AkRelease
  <2> DEFINE others == Registered \cup ev.refs
  <2>1. ak.sess \in SessionIds
    BY <1>0, <1>3 DEF AkRelease, AkRefsOK
  <2>2. CASE ReleaseTerminates(ak.sess, others)
    BY <2>2, RestartKept DEF ReleaseTerminates
  <2>3. CASE /\ Release(ak.sess, others)
             /\ ak' = [ak EXCEPT !.pc = "next", !.id = 0, !.sess = NoSession]
             /\ AkFrame
    <3>1. ak'.pc \notin AkSending /\ UNCHANGED ev
      BY <1>0, <2>3 DEF AkState, AkSending, AkFrame
    <3>2. Fewer
      BY <3>1 DEF Committed, EvCommitted, AkCommitted
    <3> QED
      BY <2>1, <2>3, <3>2, ReleaseKept
  <2> QED
    BY <1>3, <2>2, <2>3 DEF AkRelease
<1>4. CASE AkTerminates
  BY <1>4, RestartKept DEF AkTerminates, AkThrows
<1> QED
  BY <1>1, <1>2, <1>3, <1>4 DEF AkStep

\* The cleanup, and the send queue whose callbacks mark sessions offline.
LEMMA ClKept ==
  ASSUME WellFormed, TypeOK', QueueInv, ClStart \/ ClStep \/ Transmit
  PROVE  QueueInv'
<1> USE DEF WellFormed
<1>0. cl \in ClState /\ ClRefsOK
  BY DEF TypeOK
<1> DEFINE Fewer == \A t \in SessionIds : Committed(t)' <= Committed(t)
<1>a. UNCHANGED <<ev, ak>> => Fewer
  BY DEF Committed, EvCommitted, AkCommitted
<1>b. ASSUME UNCHANGED <<sessions, ev, ak>> PROVE QueueInv'
  <2>1. \A t \in SessionIds : Len(sessions[t].queue) <= Len(sessions[t].queue)
    BY QueueTypes
  <2> QED
    BY <1>a, <1>b, <2>1, QueueKept DEF IsOnline
<1>1. CASE ClStart \/ ClSwept \/ ClEnd
  BY <1>b, <1>1 DEF ClStart, ClSwept, ClEnd, ClFrame, sessVars
<1>2. ASSUME NEW n \in Names, ClVisit(n) PROVE QueueInv'
  <2>1. active[n] \in SessionIds /\ UNCHANGED <<ev, ak>>
    BY <1>0, <1>2 DEF ClVisit, ClRefsOK, ClFrame
  <2>2. CASE sessions' = sessions
    BY <1>b, <2>1, <2>2
  <2>3. CASE sessions' = MarkOffline(sessions, active[n])
    BY <1>a, <2>1, <2>3, OfflineKept
  <2> QED
    BY <1>2, <2>2, <2>3 DEF ClVisit
<1>3. CASE ClPersist
  <2> DEFINE s == active[cl.cur]
             q == sessions[s].queue
  <2>1. s \in SessionIds
    BY <1>0, <1>3 DEF ClPersist, ClRefsOK
  <2>2. Len(q) \in 0..Len(q)
    BY <2>1, QueueTypes
  <2>3. CASE sessions' = Popped(sessions, s, q, Len(q)) /\ ClFrame
    <3>1. Fewer
      BY <1>a, <2>3 DEF ClFrame
    <3> QED
      BY <2>1, <2>2, <2>3, <3>1, PopKept
  <2>4. CASE Restart
    BY <2>4, RestartKept
  <2> QED
    BY <1>3, <2>3, <2>4 DEF ClPersist
<1>4. ASSUME NEW n \in Names, ClErase(n) PROVE QueueInv'
  <2> DEFINE s == active[n]
             others == (Registered \ {s}) \cup ev.refs \cup {ak.sess}
  <2>1. s \in SessionIds
    BY <1>0, <1>4 DEF ClErase, ClRefsOK
  <2>2. CASE ReleaseTerminates(s, others)
    BY <2>2, RestartKept DEF ReleaseTerminates
  <2>3. CASE Release(s, others) /\ ClFrame
    <3>1. Fewer
      BY <1>a, <2>3 DEF ClFrame
    <3> QED
      BY <2>1, <2>3, <3>1, ReleaseKept
  <2> QED
    BY <1>4, <2>2, <2>3 DEF ClErase
<1>5. CASE Transmit
  <2>1. PICK i \in DOMAIN outbox :
          TransmitDelivered(i) \/ TransmitDropped(i) \/ TransmitFailed(i)
    BY <1>5 DEF Transmit
  <2>2. UNCHANGED <<ev, ak>>
    BY <2>1 DEF TransmitDelivered, TransmitDropped, TransmitFailed, Transmitted
  <2>3. outbox[i].sess \in SessionIds
    <3>1. outbox \in Seq(PendingSend)
      BY DEF TypeOK, SessionsTypeOK
    <3>2. outbox[i] \in PendingSend
      BY <3>1, ElementOfSeq, LenProperties
    <3> QED
      BY <3>2 DEF PendingSend
  <2>4. CASE sessions' = sessions
    BY <1>b, <2>2, <2>4
  <2>5. CASE sessions' = MarkOffline(sessions, outbox[i].sess)
    BY <1>a, <2>2, <2>3, <2>5, OfflineKept
  <2> QED
    BY <2>1, <2>4, <2>5 DEF TransmitDelivered, TransmitDropped, TransmitFailed
<1> QED
  BY <1>1, <1>2, <1>3, <1>4, <1>5 DEF ClStep

-----------------------------------------------------------------------------
(* The theorems *)

LEMMA InitQueue == Init => QueueInv
BY EmptySeq
   DEF Init, SessionsInit, Unborn, IdleEv, IdleAk, QueueInv, OnlineQueueEmpty,
       CommittedBound, Committed, EvCommitted, AkCommitted, EvCommits,
       EvSending, AkSending

LEMMA StepQueue ==
  WellFormed /\ WellFormed' /\ QueueInv /\ [Next]_vars => QueueInv'
<1> SUFFICES ASSUME WellFormed, TypeOK', QueueInv, [Next]_vars PROVE QueueInv'
  BY DEF WellFormed
<1>0. TypeOK
  BY DEF WellFormed
<1>1. CASE \E m \in Requests : Receive(m)
  <2>1. PICK m \in Requests : Receive(m)
    BY <1>1
  <2>2. m \in Message
    BY BrokerAssumption
  <2>3. ev'.pc \notin EvCommits
    BY <2>1, <2>2
       DEF Receive, Handler, IdleEv, EvCommits, EvSending, Message, Types
  <2> QED
    BY <1>0, <2>1, <2>3, EvMoved DEF Receive, EvDecidesOnline, sessVars
<1>2. CASE EvStep
  BY <1>0, <1>2, EvLocalDecides, EvMoved, EvSendsKept, EvSessionsKept
     DEF EvStep, EvLocal, EvRegister, EvMessage, EvReply, EvAck, EvUnregister
<1>3. CASE AkLoad \/ AkStep
  BY <1>3, AkKept
<1>4. CASE ClStart \/ ClStep \/ Transmit
  BY <1>4, ClKept
<1>5. CASE Crash
  BY <1>0, <1>5, RestartKept DEF Crash
<1>6. CASE UNCHANGED vars
  BY <1>6 DEF vars, sessVars, QueueInv, OnlineQueueEmpty, CommittedBound,
              Committed, EvCommitted, AkCommitted, IsOnline
<1> QED
  BY <1>1, <1>2, <1>3, <1>4, <1>5, <1>6 DEF Next

LEMMA AlwaysQueueInv == Spec => [](WellFormed /\ QueueInv)
BY InitWellFormed, StepWellFormed, InitQueue, StepQueue, PTL DEF Spec

\* An online session has nothing queued, so no message waits in a queue that
\* only a FlushQueue nobody calls again would empty.
THEOREM OnlineQueuesEmpty == Spec => []OnlineQueueEmpty
<1>1. WellFormed /\ QueueInv => OnlineQueueEmpty
  BY DEF QueueInv
<1> QED
  BY <1>1, AlwaysQueueInv, PTL

\* A session's queue holds at most two messages, whatever the number of
\* clients, messages and sessions and whatever fails: EnqueueMessage never
\* reaches QUEUE_PERSIST_THRESHOLD.
THEOREM QueuesBounded == Spec => []QueueBounded
<1>1. ASSUME WellFormed, QueueInv PROVE QueueBounded
  <2> SUFFICES ASSUME NEW s \in SessionIds PROVE Len(sessions[s].queue) <= 2
    BY DEF QueueBounded
  <2>1. Len(sessions[s].queue) \in Nat
    BY <1>1, QueueTypes DEF WellFormed
  <2>2. Committed(s) \in 0..2
    BY CommittedRange
  <2>3. Len(sessions[s].queue) + Committed(s) <= 2
    BY <1>1 DEF QueueInv, CommittedBound
  <2> QED
    BY <2>1, <2>2, <2>3
<1> QED
  BY <1>1, AlwaysQueueInv, PTL
=============================================================================
