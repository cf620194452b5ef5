------------------------- MODULE BrokerLossProofs -------------------------
(***************************************************************************)
(* What the store calls DELIVERED is lost by the socket or at an end of    *)
(* the process, if at all, and what it calls PENDING does not wait while   *)
(* its client is online.                                                   *)
(*                                                                         *)
(* Both are about the moments when a message is in several places or in    *)
(* none but a callback's hands.  LossInv says where a row that is SENT or  *)
(* DELIVERED has left its message; rows only point to later rows, so that  *)
(* a copy that is delivered itself hands its duty on.  BacklogInv says who *)
(* is about to deal with a row that is PENDING.                            *)
(***************************************************************************)
EXTENDS BrokerDeliveryProofs

-----------------------------------------------------------------------------
(* The invariant of loss *)

\* m was given to the socket, which may have refused or dropped it, or is on its
\* way there.
Loose(m) == m \in offered \/ \E s \in SessionIds : Carried(s, m)

\* The message of row i has left the row: it is loose, or waits in a later row.
Handed(i) ==
  \/ \E m \in Message : Loose(m) /\ SameMessage(m, messages[i].msg)
  \/ \E k \in DOMAIN messages : /\ k > i
                                /\ messages[k].status # "DELIVERED"
                                /\ SameMessage(messages[k].msg, messages[i].msg)

\* The event callback is about to send it.
AboutToSend(i) == ev.pc \in {"offSend", "repSend", "rSend"} /\ ev.id = i

Entrusted(i) == Handed(i) \/ AboutToSend(i)

\* What is queued in a session, a reply apart, names the session's client; a
\* notice is about to be sent to the client it names.
Addressed ==
  /\ \A s \in SessionIds, m \in Message :
       (Carried(s, m) /\ m.type # "Reply") => m.dest = sessions[s].name
  /\ ev.pc = "aSend" => sessions[ev.sess].name = ev.owner

RowsHanded ==
  \A i \in DOMAIN messages :
    /\ messages[i].status = "SENT" => Entrusted(i)
    /\ messages[i].status = "DELIVERED" => Handed(i)

\* The rows that the event callback is about to mark DELIVERED and the ACK timer
\* to mark SENT again.
EvHanded ==
  ev.pc \in {"mark", "offDone", "repDone", "rMark", "aDeliver"} => Handed(ev.id)

AkHanded ==
  /\ \A i \in ak.todo : Entrusted(i)
  /\ ak.pc \in {"find", "sent"} => Entrusted(ak.id)

LossInv == Addressed /\ RowsHanded /\ EvHanded /\ AkHanded

\* Nothing is in memory only.
NothingInMemory ==
  /\ outbox = <<>>
  /\ \A s \in SessionIds : sessions[s].queue = <<>>
  /\ ev.pc \notin {"offSend", "repSend", "rSend"}

\* What the socket was given has reached a client.
EverySendArrives == \A m \in offered : \E r \in received : r.msg = m

-----------------------------------------------------------------------------
(* The invariant of the backlog *)

ClientOnline(n) == n \in Names /\ active[n] # NoSession /\ IsOnline(active[n])

\* Row i is PENDING; it is so although its client is online.
Waiting(i) == messages[i].msg.type = "Message" /\ messages[i].status = "PENDING"
Neglected(i) == Waiting(i) /\ ClientOnline(messages[i].msg.dest)

\* The event callback is about to send the message of row i, or to mark the row.
EvCares(i) ==
  \/ ev.pc \in {"corr", "send", "mark"} /\ ev.id = i /\ ev.sess # NoSession
  \/ ev.pc = "offLoad" /\ ev.msg.sender = messages[i].msg.dest
  \/ /\ ev.pc \in {"offNext", "offSend", "offDone"}
     /\ \/ i \in ev.todo
        \/ /\ ev.pc # "offNext" /\ ev.id = i
           /\ ~NeedsAckFlag(messages[i].msg)

\* The ACK timer is.
AkCares(i) == ak.pc \in {"find", "sent"} /\ ak.id = i

BacklogCovered ==
  \A i \in DOMAIN messages :
    Neglected(i) => IsCopy(i) \/ EvCares(i) \/ AkCares(i)

\* What the event callback found out about the registry is still so: only it
\* brings a client online.
EvFound ==
  /\ (ev.pc \in {"save", "corr"} /\ ev.sess = NoSession) =>
       ~ClientOnline(ev.msg.dest)
  /\ ev.pc \in EvBacklog => active[ev.msg.sender] \in {ev.sess, NoSession}

BacklogInv == BacklogCovered /\ EvFound

-----------------------------------------------------------------------------
(* No step drops a message *)

\* The message m of session s is saved in a new row.
Rescued(s, m) ==
  \E i \in DOMAIN messages' \ DOMAIN messages :
    /\ messages'[i].msg = Copy(m, sessions[s].name)
    /\ messages'[i].status = "PENDING"

\* What is carried stays so, is handed to the socket, or is saved.
NothingDropped ==
  /\ offered \subseteq offered'
  /\ \A s \in SessionIds, m \in Message : Carried(s, m) =>
       Carried(s, m)' \/ m \in offered' \/ Rescued(s, m)

\* Persisting the first n messages of q adds a row for each of them.
LEMMA PersistedAll ==
  ASSUME NEW t \in Seq(Row), NEW name \in Names \cup {NoName},
         NEW q \in Seq(Message), NEW n \in 0..Len(q), NEW k \in 1..n
  PROVE  LET u == Persisted(t, name, q, n)
         IN  \E i \in DOMAIN u \ DOMAIN t :
               u[i].msg = Copy(q[k], name) /\ u[i].status = "PENDING"
<1> DEFINE r(j) == [msg |-> [q[j] EXCEPT !.dest = name], status |-> "PENDING"]
           p == [j \in 1..n |-> r(j)]
           u == Persisted(t, name, q, n)
           i == Len(t) + k
<1>1. Len(q) \in Nat /\ DOMAIN q = 1..Len(q) /\ n \in Nat /\ k \in Nat
  BY LenProperties
<1>2. \A j \in 1..n : r(j) \in Row
  <2> SUFFICES ASSUME NEW j \in 1..n PROVE r(j) \in Row
    OBVIOUS
  <2>1. q[j] \in Message
    BY <1>1, ElementOfSeq
  <2>2. [q[j] EXCEPT !.dest = name] \in Message
    BY <2>1 DEF Message
  <2> QED
    BY <2>2 DEF Row, Status
<1> HIDE DEF r
<1>3. p \in Seq(Row) /\ DOMAIN p = 1..n /\ p[k] = r(k)
  BY <1>1, <1>2, IsASeq
<1>4. Len(p) = n
  BY <1>1, <1>3, LenProperties
<1> HIDE DEF p
<1>5. u = t \o p
  BY DEF Persisted, p, r
<1> HIDE DEF u
<1>6. /\ t \o p \in Seq(Row)
      /\ Len(t \o p) = Len(t) + Len(p)
      /\ \A j \in 1..Len(t) + Len(p) :
           (t \o p)[j] = IF j <= Len(t) THEN t[j] ELSE p[j - Len(t)]
  BY <1>3, ConcatProperties
<1>7. Len(t) \in Nat /\ DOMAIN t = 1..Len(t) /\ DOMAIN u = 1..(Len(t) + n)
  BY <1>4, <1>5, <1>6, LenProperties
<1>8. i \in 1..Len(t) + Len(p) /\ ~(i <= Len(t)) /\ i - Len(t) = k
  BY <1>1, <1>4, <1>7
<1>9. u[i] = r(k) /\ i \in DOMAIN u \ DOMAIN t
  BY <1>3, <1>4, <1>5, <1>6, <1>7, <1>8
<1>10. r(k).msg = Copy(q[k], name) /\ r(k).status = "PENDING"
  BY DEF r, Copy
<1> QED
  BY <1>9, <1>10 DEF u

\* A message of a queue is among the first n or is left when they are popped.
LEMMA PoppedOrLeft ==
  ASSUME NEW q \in Seq(Message), NEW n \in 0..Len(q), NEW k \in DOMAIN q
  PROVE  \/ k \in 1..n
         \/ \E j \in DOMAIN SubSeq(q, n + 1, Len(q)) :
              SubSeq(q, n + 1, Len(q))[j] = q[k]
<1> DEFINE u == SubSeq(q, n + 1, Len(q))
<1>0. Len(q) \in Nat /\ DOMAIN q = 1..Len(q) /\ n \in Nat /\ k \in Nat
  BY LenProperties
<1>1. /\ Len(u) = IF n + 1 <= Len(q) THEN Len(q) - (n + 1) + 1 ELSE 0
      /\ \A i \in 1..Len(u) : u[i] = q[(n + 1) + i - 1]
      /\ u \in Seq(Message)
  BY <1>0, SubSeqProperties
<1> HIDE DEF u
<1> SUFFICES ASSUME k \notin 1..n PROVE \E j \in DOMAIN u : u[j] = q[k]
  BY DEF u
<1>2. Len(u) = Len(q) - n /\ DOMAIN u = 1..Len(u)
  <2>1. n + 1 <= Len(q)
    BY <1>0
  <2>2. DOMAIN u = 1..Len(u)
    BY <1>1, LenProperties
  <2> QED
    BY <1>0, <1>1, <2>1, <2>2
<1>3. k - n \in 1..Len(u) /\ (n + 1) + (k - n) - 1 = k
  BY <1>0, <1>2
<1> QED
  BY <1>1, <1>2, <1>3

\* Nothing happens to the queues.
LEMMA SameQueues ==
  ASSUME UNCHANGED outbox, offered \subseteq offered',
         \A s \in SessionIds : sessions'[s].queue = sessions[s].queue
  PROVE  NothingDropped
BY DEF NothingDropped, Carried

\* The first n messages of q are persisted, where q is the queue of s or begins
\* with it.
LEMMA DrainKeeps ==
  ASSUME TypeOK, NEW s \in SessionIds, NEW q \in Seq(Message),
         NEW n \in 0..Len(q),
         outbox' = outbox, offered \subseteq offered',
         messages' = Persisted(messages, sessions[s].name, q, n),
         \A r \in SessionIds : r # s =>
           \A k \in DOMAIN sessions[r].queue :
             \E j \in DOMAIN sessions'[r].queue :
               sessions'[r].queue[j] = sessions[r].queue[k],
         \/ n = Len(q)
         \/ sessions'[s].queue = SubSeq(q, n + 1, Len(q)),
         \A k \in DOMAIN sessions[s].queue :
           \E j \in DOMAIN q : q[j] = sessions[s].queue[k]
  PROVE  /\ NothingDropped
         /\ \A k \in DOMAIN q : Carried(s, q[k])' \/ Rescued(s, q[k])
<1>0. messages \in Seq(Row) /\ sessions[s].name \in Names \cup {NoName}
  BY DEF TypeOK, StorageTypeOK, SessionsTypeOK, Session
<1>1. ASSUME NEW k \in 1..n PROVE Rescued(s, q[k])
  <2>1. PICK name \in Names \cup {NoName} : name = sessions[s].name
    BY <1>0
  <2>2. messages' = Persisted(messages, name, q, n)
    BY <2>1
  <2>3. \E i \in DOMAIN messages' \ DOMAIN messages :
          messages'[i].msg = Copy(q[k], name) /\ messages'[i].status = "PENDING"
    <3> DEFINE u == Persisted(messages, name, q, n)
    <3>1. \E i \in DOMAIN u \ DOMAIN messages :
            u[i].msg = Copy(q[k], name) /\ u[i].status = "PENDING"
      BY <1>0, PersistedAll
    <3> HIDE DEF u
    <3>2. messages' = u
      BY <2>2 DEF u
    <3> QED
      BY <3>1, <3>2, Zenon
  <2> QED
    BY <2>1, <2>3, Zenon DEF Rescued
<1>2. ASSUME NEW k \in DOMAIN q PROVE Carried(s, q[k])' \/ Rescued(s, q[k])
  <2>1. CASE k \in 1..n
    BY <1>1, <2>1
  <2>2. CASE n = Len(q)
    <3>1. k \in 1..n
      BY <2>2, LenProperties
    <3> QED
      BY <1>1, <3>1
  <2>3. CASE /\ sessions'[s].queue = SubSeq(q, n + 1, Len(q))
             /\ k \notin 1..n
    <3>1. \E j \in DOMAIN SubSeq(q, n + 1, Len(q)) :
            SubSeq(q, n + 1, Len(q))[j] = q[k]
      BY <2>3, PoppedOrLeft
    <3> QED
      BY <2>3, <3>1, Zenon DEF Carried
  <2> QED
    BY <2>1, <2>2, <2>3
<1>3. ASSUME NEW r \in SessionIds, NEW m \in Message, Carried(r, m)
      PROVE  Carried(r, m)' \/ Rescued(r, m)
  <2>1. CASE \E i \in DOMAIN outbox : outbox[i] = [sess |-> r, msg |-> m]
    BY <2>1 DEF Carried
  <2>2. CASE \E i \in DOMAIN sessions[r].queue : sessions[r].queue[i] = m
    <3>1. PICK i \in DOMAIN sessions[r].queue : sessions[r].queue[i] = m
      BY <2>2
    <3>2. CASE r # s
      BY <3>1, <3>2 DEF Carried
    <3>3. CASE r = s
      <4>1. PICK j \in DOMAIN q : q[j] = m
        BY <3>1, <3>3
      <4> QED
        BY <1>2, <3>3, <4>1
    <3> QED
      BY <3>2, <3>3
  <2> QED
    BY <1>3, <2>1, <2>2 DEF Carried
<1> QED
  BY <1>2, <1>3 DEF NothingDropped

\* SendMessage: the message is carried, or saved at once.
LEMMA SendKeeps ==
  ASSUME TypeOK, NEW s \in SessionIds, NEW m \in Message, SendMessage(s, m),
         offered' = offered
  PROVE  NothingDropped /\ (Carried(s, m)' \/ Rescued(s, m))
<1>0. /\ sessions \in [SessionIds -> Session]
      /\ sessions[s].queue \in Seq(Message)
      /\ outbox \in Seq(PendingSend)
  BY DEF TypeOK, SessionsTypeOK, Session
<1>1. CASE /\ outbox' = Append(outbox, [sess |-> s, msg |-> m])
           /\ UNCHANGED <<sessions, messages>>
  <2> DEFINE p == [sess |-> s, msg |-> m]
  <2>1. p \in PendingSend
    BY DEF PendingSend
  <2> HIDE DEF p
  <2>2. /\ DOMAIN outbox' = DOMAIN outbox \cup {Len(outbox) + 1}
        /\ \A i \in DOMAIN outbox : outbox'[i] = outbox[i]
        /\ outbox'[Len(outbox) + 1] = p
    <3>1. /\ Append(outbox, p) \in Seq(PendingSend)
          /\ Len(Append(outbox, p)) = Len(outbox) + 1
          /\ \A i \in 1..Len(outbox) : Append(outbox, p)[i] = outbox[i]
          /\ Append(outbox, p)[Len(outbox) + 1] = p
      BY <1>0, <2>1, AppendProperties
    <3>2. outbox' = Append(outbox, p)
      BY <1>1 DEF p
    <3>3. /\ Len(outbox) \in Nat /\ DOMAIN outbox = 1..Len(outbox)
          /\ DOMAIN outbox' = 1..(Len(outbox) + 1)
      BY <1>0, <3>1, <3>2, LenProperties
    <3> QED
      BY <3>1, <3>2, <3>3
  <2>3. Carried(s, m)'
    BY <2>2 DEF Carried, p
  <2>4. ASSUME NEW r \in SessionIds, NEW k \in Message, Carried(r, k)
        PROVE  Carried(r, k)'
    <3>1. CASE \E i \in DOMAIN sessions[r].queue : sessions[r].queue[i] = k
      BY <1>1, <3>1 DEF Carried
    <3>2. CASE \E i \in DOMAIN outbox : outbox[i] = [sess |-> r, msg |-> k]
      BY <2>2, <3>2 DEF Carried
    <3> QED
      BY <2>4, <3>1, <3>2 DEF Carried
  <2> QED
    BY <2>3, <2>4 DEF NothingDropped
<1>2. CASE EnqueueMessage(s, m) /\ UNCHANGED outbox
  <2> DEFINE q == Append(sessions[s].queue, m)
             n == IF Len(q) > Threshold THEN Len(q) \div 2 ELSE 0
             u == SubSeq(q, n + 1, Len(q))
  <2>1. /\ sessions' = Popped(sessions, s, q, n)
        /\ messages' = Persisted(messages, sessions[s].name, q, n)
    BY <1>2 DEF EnqueueMessage
  <2>2. /\ q \in Seq(Message) /\ Len(q) \in Nat
        /\ \E j \in DOMAIN q : q[j] = m
        /\ \A k \in DOMAIN sessions[s].queue :
             \E j \in DOMAIN q : q[j] = sessions[s].queue[k]
    <3> DEFINE o == sessions[s].queue
    <3> HIDE DEF o
    <3>1. /\ Append(o, m) \in Seq(Message)
          /\ Len(Append(o, m)) = Len(o) + 1
          /\ \A i \in 1..Len(o) : Append(o, m)[i] = o[i]
          /\ Append(o, m)[Len(o) + 1] = m
      BY <1>0, AppendProperties DEF o
    <3>2. /\ Len(o) \in Nat /\ DOMAIN o = 1..Len(o)
          /\ DOMAIN Append(o, m) = 1..(Len(o) + 1)
      BY <1>0, <3>1, LenProperties DEF o
    <3>3. \A k \in DOMAIN o : \E j \in DOMAIN Append(o, m) :
            Append(o, m)[j] = o[k]
      BY <3>1, <3>2
    <3>4. \E j \in DOMAIN Append(o, m) : Append(o, m)[j] = m
      BY <3>1, <3>2
    <3> QED
      BY <3>1, <3>2, <3>3, <3>4 DEF o
  <2>3. n \in 0..Len(q)
    <3> HIDE DEF q
    <3> QED
      BY <2>2
  <2> HIDE DEF q, n
  <2>4. ASSUME NEW r \in SessionIds
        PROVE  sessions'[r].queue = IF r = s THEN u ELSE sessions[r].queue
    <3> HIDE DEF u
    <3> QED
      BY <1>0, <2>1 DEF Popped, Session, u
  <2>5. PICK x, y : x = q /\ y = n
    OBVIOUS
  <2>6. /\ NothingDropped
        /\ \A k \in DOMAIN x : Carried(s, x[k])' \/ Rescued(s, x[k])
    <3>0. /\ x \in Seq(Message) /\ y \in 0..Len(x)
          /\ messages' = Persisted(messages, sessions[s].name, x, y)
          /\ \A k \in DOMAIN sessions[s].queue :
               \E j \in DOMAIN x : x[j] = sessions[s].queue[k]
      BY <2>1, <2>2, <2>3, <2>5
    <3>1. sessions'[s].queue = SubSeq(x, y + 1, Len(x))
      BY <2>4, <2>5 DEF u
    <3>2. \A r \in SessionIds : r # s =>
            \A k \in DOMAIN sessions[r].queue :
              \E j \in DOMAIN sessions'[r].queue :
                sessions'[r].queue[j] = sessions[r].queue[k]
      BY <2>4
    <3>3. outbox' = outbox /\ offered \subseteq offered'
      BY <1>2
    <3> QED
      BY <3>0, <3>1, <3>2, <3>3, DrainKeeps
  <2>7. PICK j \in DOMAIN x : x[j] = m
    BY <2>2, <2>5
  <2> QED
    BY <2>6, <2>7
<1> QED
  BY <1>1, <1>2 DEF SendMessage

\* Persisting the queue of a session, to the end or in part, and ~Session.
LEMMA PersistKeeps ==
  ASSUME TypeOK, NEW s \in SessionIds, outbox' = outbox, offered' = offered
  PROVE  /\ \A n \in 0..Len(sessions[s].queue) :
              (/\ messages' = Persisted(messages, sessions[s].name,
                                        sessions[s].queue, n)
               /\ \/ sessions' = Popped(sessions, s, sessions[s].queue, n)
                  \/ sessions' = MarkOffline(Popped(sessions, s,
                                                    sessions[s].queue, n), s))
              => NothingDropped
         /\ \A refs : Release(s, refs) => NothingDropped
<1>0. /\ sessions \in [SessionIds -> Session]
      /\ sessions[s].queue \in Seq(Message)
      /\ Len(sessions[s].queue) \in 0..Len(sessions[s].queue)
  BY LenProperties DEF TypeOK, SessionsTypeOK, Session
<1>1. ASSUME NEW n \in 0..Len(sessions[s].queue),
             messages' = Persisted(messages, sessions[s].name,
                                   sessions[s].queue, n),
             \/ sessions' = Popped(sessions, s, sessions[s].queue, n)
             \/ sessions' = MarkOffline(Popped(sessions, s,
                                               sessions[s].queue, n), s)
      PROVE  NothingDropped
  <2> DEFINE o == sessions[s].queue
             p == Popped(sessions, s, o, n)
  <2>1. ASSUME NEW r \in SessionIds
        PROVE  p[r].queue = IF r = s THEN SubSeq(o, n + 1, Len(o))
                            ELSE sessions[r].queue
    <3> DEFINE u == SubSeq(o, n + 1, Len(o))
    <3>1. p[r].queue = IF r = s THEN u ELSE sessions[r].queue
      <4> HIDE DEF o, u
      <4> QED
        BY <1>0 DEF Popped, Session, u
    <3> QED
      BY <3>1
  <2>2. p \in [SessionIds -> Session]
    BY <1>0, SessionUpdates
  <2>3. sessions' = p \/ sessions' = MarkOffline(p, s)
    BY <1>1
  <2>4. PICK q : q = o
    OBVIOUS
  <2> HIDE DEF o, p
  <2>5. ASSUME NEW r \in SessionIds
        PROVE  sessions'[r].queue = IF r = s THEN SubSeq(o, n + 1, Len(o))
                                    ELSE sessions[r].queue
    <3>1. sessions'[r].queue = p[r].queue
      <4>1. CASE sessions' = p
        BY <4>1
      <4>2. CASE sessions' = [p EXCEPT ![s].status = "offline"]
        <5>1. \A z \in [SessionIds -> Session] :
                [z EXCEPT ![s].status = "offline"][r].queue = z[r].queue
          BY DEF Session
        <5> QED
          BY <2>2, <4>2, <5>1
      <4> QED
        BY <2>3, <4>1, <4>2 DEF MarkOffline
    <3> QED
      BY <2>1, <3>1
  <2>6. sessions'[s].queue = SubSeq(q, n + 1, Len(q))
    BY <2>4, <2>5
  <2>7. \A r \in SessionIds : r # s =>
          \A k \in DOMAIN sessions[r].queue :
            \E j \in DOMAIN sessions'[r].queue :
              sessions'[r].queue[j] = sessions[r].queue[k]
    BY <2>5
  <2>8. /\ \A k \in DOMAIN sessions[s].queue :
             \E j \in DOMAIN q : q[j] = sessions[s].queue[k]
        /\ q \in Seq(Message) /\ n \in 0..Len(q)
        /\ messages' = Persisted(messages, sessions[s].name, q, n)
    BY <1>0, <1>1, <2>4 DEF o
  <2> QED
    BY <2>6, <2>7, <2>8, DrainKeeps
<1>2. ASSUME NEW refs, Release(s, refs) PROVE NothingDropped
  <2>1. CASE UNCHANGED <<sessions, messages>>
    BY <2>1, SameQueues
  <2>2. CASE Destroy(s)
    <3>1. PICK q : q = sessions[s].queue
      OBVIOUS
    <3>2. /\ messages' = Persisted(messages, sessions[s].name, q, Len(q))
          /\ q \in Seq(Message) /\ Len(q) \in 0..Len(q)
      BY <1>0, <2>2, <3>1 DEF Destroy, PersistQueue
    <3>3. \A r \in SessionIds : r # s =>
            sessions'[r].queue = sessions[r].queue
      BY <1>0, <2>2 DEF Destroy
    <3>4. \A r \in SessionIds : r # s =>
            \A k \in DOMAIN sessions[r].queue :
              \E j \in DOMAIN sessions'[r].queue :
                sessions'[r].queue[j] = sessions[r].queue[k]
      BY <3>3
    <3>5. \A k \in DOMAIN sessions[s].queue :
            \E j \in DOMAIN q : q[j] = sessions[s].queue[k]
      BY <3>1
    <3> QED
      BY <3>2, <3>4, <3>5, DrainKeeps
  <2> QED
    BY <1>2, <2>1, <2>2 DEF Release
<1> QED
  BY <1>1, <1>2

\* FlushQueue moves the queue to the send queue.
LEMMA FlushKeeps ==
  ASSUME TypeOK, NEW s \in SessionIds, FlushQueue(s), offered' = offered
  PROVE  NothingDropped
<1>0. /\ sessions \in [SessionIds -> Session]
      /\ sessions[s].queue \in Seq(Message)
      /\ outbox \in Seq(PendingSend)
  BY DEF TypeOK, SessionsTypeOK, Session
<1>1. CASE UNCHANGED <<sessions, outbox>>
  BY <1>1, SameQueues
<1>2. CASE IsOnline(s)
  <2> DEFINE q == sessions[s].queue
             p == [i \in 1..Len(q) |-> [sess |-> s, msg |-> q[i]]]
  <2>1. outbox' = outbox \o p /\ sessions' = Popped(sessions, s, q, Len(q))
    BY <1>2 DEF FlushQueue
  <2>2. Len(q) \in Nat /\ DOMAIN q = 1..Len(q)
    BY <1>0, LenProperties
  <2>3. /\ p \in Seq(PendingSend) /\ Len(p) = Len(q)
        /\ \A i \in 1..Len(q) : p[i] = [sess |-> s, msg |-> q[i]]
    <3>1. \A i \in 1..Len(q) : q[i] \in Message
      BY <1>0, <2>2, ElementOfSeq
    <3> HIDE DEF q
    <3>2. \A i \in 1..Len(q) : [sess |-> s, msg |-> q[i]] \in PendingSend
      BY <3>1 DEF PendingSend
    <3>3. p \in Seq(PendingSend)
      BY <2>2, <3>2, IsASeq
    <3> QED
      BY <2>2, <3>3, LenProperties
  <2>4. ASSUME NEW r \in SessionIds, r # s
        PROVE  sessions'[r].queue = sessions[r].queue
    <3> HIDE DEF q
    <3> QED
      BY <1>0, <2>1, <2>4 DEF Popped
  <2> HIDE DEF p
  <2>5. /\ DOMAIN outbox \subseteq DOMAIN outbox'
        /\ \A i \in DOMAIN outbox : outbox'[i] = outbox[i]
        /\ \A i \in DOMAIN q : /\ Len(outbox) + i \in DOMAIN outbox'
                               /\ outbox'[Len(outbox) + i] = p[i]
    <3>1. /\ outbox \o p \in Seq(PendingSend)
          /\ Len(outbox \o p) = Len(outbox) + Len(p)
          /\ \A i \in 1..Len(outbox) + Len(p) :
               (outbox \o p)[i] =
                 IF i <= Len(outbox) THEN outbox[i] ELSE p[i - Len(outbox)]
      <4>1. outbox \in Seq(PendingSend) /\ p \in Seq(PendingSend)
        BY <1>0, <2>3
      <4> QED
        BY ONLY <4>1, ConcatProperties
    <3>2. /\ Len(outbox) \in Nat /\ DOMAIN outbox = 1..Len(outbox)
          /\ DOMAIN outbox' = 1..(Len(outbox) + Len(q))
      BY <1>0, <2>1, <2>3, <3>1, LenProperties
    <3> HIDE DEF q
    <3>3. DOMAIN outbox \subseteq DOMAIN outbox'
      BY <2>2, <3>2
    <3>4. \A i \in DOMAIN outbox : outbox'[i] = outbox[i]
      BY <2>1, <2>2, <2>3, <3>1, <3>2
    <3>5. ASSUME NEW i \in DOMAIN q
          PROVE  /\ Len(outbox) + i \in DOMAIN outbox'
                 /\ outbox'[Len(outbox) + i] = p[i]
      <4>1. /\ Len(outbox) + i \in 1..Len(outbox) + Len(p)
            /\ ~(Len(outbox) + i <= Len(outbox))
            /\ (Len(outbox) + i) - Len(outbox) = i
        BY <2>2, <2>3, <3>2
      <4> QED
        BY <2>1, <2>3, <3>1, <3>2, <4>1
    <3> QED
      BY <3>3, <3>4, <3>5
  <2>6. ASSUME NEW r \in SessionIds, NEW m \in Message, Carried(r, m)
        PROVE  Carried(r, m)'
    <3>1. CASE \E i \in DOMAIN outbox : outbox[i] = [sess |-> r, msg |-> m]
      BY <2>5, <3>1 DEF Carried
    <3>2. CASE \E i \in DOMAIN sessions[r].queue : sessions[r].queue[i] = m
      <4>1. CASE r = s
        <5>1. PICK i \in DOMAIN q : q[i] = m
          BY <3>2, <4>1
        <5>2. p[i] = [sess |-> r, msg |-> m]
          BY <2>2, <2>3, <4>1, <5>1
        <5> QED
          BY <2>5, <5>2 DEF Carried
      <4>2. CASE r # s
        BY <2>4, <3>2, <4>2 DEF Carried
      <4> QED
        BY <4>1, <4>2
    <3> QED
      BY <2>6, <3>1, <3>2 DEF Carried
  <2> QED
    BY <2>6 DEF NothingDropped
<1> QED
  BY <1>1, <1>2 DEF FlushQueue

\* What is transmitted is offered, the rest waits on.
LEMMA TransmitKeeps ==
  ASSUME TypeOK, Transmit
  PROVE  NothingDropped
<1>0. TypeOK /\ outbox \in Seq(PendingSend)
      /\ sessions \in [SessionIds -> Session]
  BY DEF TypeOK, SessionsTypeOK
<1>1. PICK i \in DOMAIN outbox :
        TransmitDelivered(i) \/ TransmitDropped(i) \/ TransmitFailed(i)
  BY DEF Transmit
<1>2. /\ outbox' = Without(outbox, i)
      /\ offered' = offered \cup {outbox[i].msg}
  BY <1>1 DEF TransmitDelivered, TransmitDropped, TransmitFailed, Transmitted,
              Without
<1>3. outbox[i] \in PendingSend
  BY <1>0, ElementOfSeq
<1>4. PICK s \in SessionIds : s = outbox[i].sess
  BY <1>3 DEF PendingSend
<1>5. sessions' = sessions \/ sessions' = MarkOffline(sessions, s)
  BY <1>1, <1>4 DEF TransmitDelivered, TransmitDropped, TransmitFailed
<1>6. ASSUME NEW r \in SessionIds
      PROVE  sessions'[r].queue = sessions[r].queue
  <2>1. CASE sessions' = sessions
    BY <2>1
  <2>2. CASE sessions' = MarkOffline(sessions, s)
    BY <1>0, <2>2 DEF MarkOffline, Session
  <2> QED
    BY <1>5, <2>1, <2>2
<1>7. ASSUME NEW r \in SessionIds, NEW m \in Message, Carried(r, m)
      PROVE  Carried(r, m)' \/ m \in offered'
  <2>1. CASE \E j \in DOMAIN sessions[r].queue : sessions[r].queue[j] = m
    BY <1>6, <2>1 DEF Carried
  <2>2. CASE \E j \in DOMAIN outbox : outbox[j] = [sess |-> r, msg |-> m]
    <3>1. PICK j \in DOMAIN outbox : outbox[j] = [sess |-> r, msg |-> m]
      BY <2>2
    <3>2. CASE j = i
      BY <1>2, <3>1, <3>2
    <3>3. CASE j # i
      <4>1. \E k \in DOMAIN Without(outbox, i) : Without(outbox, i)[k] = outbox[j]
        BY <1>0, <3>3, OutboxLeft
      <4> QED
        BY <1>2, <3>1, <4>1 DEF Carried
    <3> QED
      BY <3>2, <3>3
  <2> QED
    BY <1>7, <2>1, <2>2 DEF Carried
<1> QED
  BY <1>2, <1>7 DEF NothingDropped

\* A registration persists the queue of the session it replaces.
LEMMA UpsertKeeps ==
  ASSUME DeliveryInv, EvUpsert
  PROVE  NothingDropped
<1> DEFINE old == FindSession(ev.msg.sender)
           q == IF old = NoSession THEN <<>> ELSE sessions[old].queue
<1>0. /\ TypeOK /\ sessions \in [SessionIds -> Session]
  BY DEF DeliveryInv, WellFormed, TypeOK, SessionsTypeOK
<1>1. old # NoSession => /\ old \in SessionIds
                         /\ sessions[old].status # "unborn"
                         /\ sessions[old].name = ev.msg.sender
  BY FoundOf DEF SessionOf, Born
<1>2. outbox' = outbox /\ offered' = offered
  BY DEF EvUpsert, EvFrame, auxVars
<1>3. ASSUME NEW new \in SessionIds,
             sessions[new].status = "unborn",
             sessions' = [s \in SessionIds |->
               IF s = new
               THEN [status |-> "online", name |-> ev.msg.sender,
                     queue |-> <<>>]
               ELSE IF s = old
               THEN [status |-> "offline", name |-> sessions[s].name,
                     queue |-> <<>>]
               ELSE sessions[s]],
             messages' = Persisted(messages, ev.msg.sender, q, Len(q))
      PROVE  NothingDropped
  <2>0. ASSUME NEW m \in Message PROVE ~Carried(new, m)
    <3>1. sessions[new].name \in Names \cup {NoName}
      BY <1>0 DEF Session
    <3> QED
      BY <1>3, <3>1 DEF DeliveryInv, CarriedSendable, Born
  <2>1. CASE old = NoSession
    <3>1. ASSUME NEW r \in SessionIds, NEW m \in Message, Carried(r, m)
          PROVE  Carried(r, m)'
      <4>1. r # new /\ r # old
        BY <2>0, <2>1, <3>1, SessionsAssumption
      <4> HIDE DEF old, q
      <4>2. sessions'[r] = sessions[r]
        BY <1>3, <4>1
      <4> QED
        BY <1>2, <3>1, <4>2 DEF Carried
    <3> QED
      BY <1>2, <3>1 DEF NothingDropped
  <2>2. CASE old # NoSession
    <3>1. PICK o \in SessionIds : o = old
      BY <1>1, <2>2
    <3>2. PICK p \in Seq(Message) : p = sessions[o].queue
      BY <1>0 DEF Session
    <3>3. messages' = Persisted(messages, sessions[o].name, p, Len(p))
      BY <1>1, <1>3, <2>2, <3>1, <3>2
    <3>4. Len(p) \in 0..Len(p)
      BY LenProperties
    <3>5. ASSUME NEW r \in SessionIds, r # o, r # new
          PROVE  sessions'[r] = sessions[r]
      <4> HIDE DEF old, q
      <4> QED
        BY <1>3, <3>1, <3>5
    <3>6. \A k \in DOMAIN sessions[new].queue : FALSE
      <4>1. sessions[new].queue \in Seq(Message)
        BY <1>0 DEF Session
      <4>2. ASSUME NEW k \in DOMAIN sessions[new].queue PROVE FALSE
        <5>1. sessions[new].queue[k] \in Message
          BY <4>1, ElementOfSeq
        <5> QED
          BY <2>0, <5>1 DEF Carried
      <4> QED
        BY <4>2
    <3>7. \A r \in SessionIds : r # o =>
            \A k \in DOMAIN sessions[r].queue :
              \E j \in DOMAIN sessions'[r].queue :
                sessions'[r].queue[j] = sessions[r].queue[k]
      BY <3>5, <3>6
    <3>8. \A k \in DOMAIN sessions[o].queue :
            \E j \in DOMAIN p : p[j] = sessions[o].queue[k]
      BY <3>2
    <3> HIDE DEF old, q
    <3> QED
      BY <1>0, <1>2, <3>3, <3>4, <3>7, <3>8, DrainKeeps
  <2> QED
    BY <2>1, <2>2
<1>4. ASSUME old # NoSession,
             NEW n \in 0..Len(q), PersistQueueThrows(old, n),
             sessions' = Popped(sessions, old, q, n)
      PROVE  NothingDropped
  <2>1. PICK o \in SessionIds : o = old /\ q = sessions[o].queue
    BY <1>1, <1>4
  <2>2. /\ n \in 0..Len(sessions[o].queue)
        /\ messages' = Persisted(messages, sessions[o].name,
                                 sessions[o].queue, n)
        /\ sessions' = Popped(sessions, o, sessions[o].queue, n)
    BY <1>4, <2>1 DEF PersistQueueThrows
  <2> HIDE DEF old, q
  <2> QED
    BY <1>0, <1>2, <2>2, PersistKeeps
<1> QED
  BY <1>3, <1>4 DEF EvUpsert

-----------------------------------------------------------------------------
(* Rows under a step *)

\* The step changes no row there is.
OldRowsSame == \A i \in DOMAIN messages : messages'[i] = messages[i]

LEMMA PersistedSame ==
  ASSUME NEW t \in Seq(Row), NEW name \in Names \cup {NoName},
         NEW q \in Seq(Message), NEW n \in 0..Len(q)
  PROVE  \A i \in DOMAIN t : Persisted(t, name, q, n)[i] = t[i]
<1> DEFINE r(j) == [msg |-> [q[j] EXCEPT !.dest = name], status |-> "PENDING"]
           p == [j \in 1..n |-> r(j)]
<1>1. Len(q) \in Nat /\ DOMAIN q = 1..Len(q) /\ n \in Nat
  BY LenProperties
<1>2. \A j \in 1..n : r(j) \in Row
  <2> SUFFICES ASSUME NEW j \in 1..n PROVE r(j) \in Row
    OBVIOUS
  <2>1. q[j] \in Message
    BY <1>1, ElementOfSeq
  <2>2. [q[j] EXCEPT !.dest = name] \in Message
    BY <2>1 DEF Message
  <2> QED
    BY <2>2 DEF Row, Status
<1> HIDE DEF r
<1>3. p \in Seq(Row)
  BY <1>1, <1>2, IsASeq
<1>4. Persisted(t, name, q, n) = t \o p
  BY DEF Persisted, p, r
<1> HIDE DEF p
<1>5. /\ Len(t \o p) = Len(t) + Len(p)
      /\ \A j \in 1..Len(t) + Len(p) :
           (t \o p)[j] = IF j <= Len(t) THEN t[j] ELSE p[j - Len(t)]
  BY <1>3, ConcatProperties
<1>6. Len(t) \in Nat /\ Len(p) \in Nat /\ DOMAIN t = 1..Len(t)
  BY <1>3, LenProperties
<1> QED
  BY <1>4, <1>5, <1>6

\* Sending, persisting and saving change no row there is.
LEMMA RowsSame ==
  ASSUME TypeOK
  PROVE  /\ messages' = messages => OldRowsSame
         /\ \A m \in Message : messages' = SaveMessage(messages, m) => OldRowsSame
         /\ \A s \in SessionIds, n \in Nat :
              PersistQueueThrows(s, n) => OldRowsSame
         /\ \A s \in SessionIds : PersistQueue(s) => OldRowsSame
         /\ \A s \in SessionIds : \A refs : Release(s, refs) => OldRowsSame
         /\ \A s \in SessionIds, m \in Message : SendMessage(s, m) => OldRowsSame
<1>0. messages \in Seq(Row)
  BY DEF TypeOK, StorageTypeOK
<1>1. ASSUME NEW s \in SessionIds, NEW q \in Seq(Message), NEW n \in 0..Len(q),
             messages' = Persisted(messages, sessions[s].name, q, n)
      PROVE  OldRowsSame
  <2>1. PICK name \in Names \cup {NoName} : name = sessions[s].name
    BY DEF TypeOK, SessionsTypeOK, Session
  <2>2. \A i \in DOMAIN messages : Persisted(messages, name, q, n)[i] = messages[i]
    BY <1>0, PersistedSame
  <2> QED
    BY <1>1, <2>1, <2>2 DEF OldRowsSame
<1>2. ASSUME NEW m \in Message, messages' = SaveMessage(messages, m)
      PROVE  OldRowsSame
  <2> DEFINE r == [msg |-> m, status |-> "PENDING"]
  <2>1. r \in Row
    BY DEF Row, Status
  <2> HIDE DEF r
  <2>2. \A i \in 1..Len(messages) : Append(messages, r)[i] = messages[i]
    BY <1>0, <2>1, AppendProperties
  <2>3. DOMAIN messages = 1..Len(messages)
    BY <1>0, LenProperties
  <2> QED
    BY <1>2, <2>2, <2>3 DEF OldRowsSame, SaveMessage, r
<1>3. ASSUME NEW s \in SessionIds
      PROVE  /\ sessions[s].queue \in Seq(Message)
             /\ Len(sessions[s].queue) \in 0..Len(sessions[s].queue)
  BY LenProperties DEF TypeOK, SessionsTypeOK, Session
<1>4. ASSUME NEW s \in SessionIds, NEW n, PersistQueueThrows(s, n), n \in Nat
      PROVE  OldRowsSame
  <2>1. /\ n \in 0..Len(sessions[s].queue)
        /\ messages' = Persisted(messages, sessions[s].name,
                                 sessions[s].queue, n)
    BY <1>3, <1>4 DEF PersistQueueThrows
  <2> QED
    BY <1>1, <1>3, <2>1
<1>5. ASSUME NEW s \in SessionIds, PersistQueue(s) PROVE OldRowsSame
  BY <1>1, <1>3, <1>5 DEF PersistQueue
<1>6. ASSUME NEW s \in SessionIds, NEW refs, Release(s, refs)
      PROVE  OldRowsSame
  <2>1. CASE UNCHANGED <<sessions, messages>>
    BY <2>1 DEF OldRowsSame
  <2>2. CASE Destroy(s)
    BY <1>5, <2>2 DEF Destroy
  <2> QED
    BY <1>6, <2>1, <2>2 DEF Release
<1>7. ASSUME NEW s \in SessionIds, NEW m \in Message, SendMessage(s, m)
      PROVE  OldRowsSame
  <2>1. CASE messages' = messages
    BY <2>1 DEF OldRowsSame
  <2>2. CASE EnqueueMessage(s, m)
    <3> DEFINE q == Append(sessions[s].queue, m)
               n == IF Len(q) > Threshold THEN Len(q) \div 2 ELSE 0
    <3>1. messages' = Persisted(messages, sessions[s].name, q, n)
      BY <2>2 DEF EnqueueMessage
    <3>2. q \in Seq(Message) /\ Len(q) \in Nat
      BY <1>3, AppendProperties, LenProperties
    <3>3. n \in 0..Len(q)
      <4> HIDE DEF q
      <4> QED
        BY <3>2
    <3> HIDE DEF q, n
    <3> QED
      BY <1>1, <3>1, <3>2, <3>3
  <2> QED
    BY <1>7, <2>1, <2>2 DEF SendMessage
<1>8. messages' = messages => OldRowsSame
  BY DEF OldRowsSame
<1> QED
  BY <1>2, <1>4, <1>5, <1>6, <1>7, <1>8

-----------------------------------------------------------------------------
(* What was handed over stays so *)

LEMMA SameTransitive ==
  ASSUME NEW x, NEW y, NEW z, SameMessage(x, y), SameMessage(y, z)
  PROVE  SameMessage(x, z)
BY DEF SameMessage

\* New rows come last.
LEMMA NewRowsLast ==
  ASSUME NEW t \in Seq(Row), NEW u \in Seq(Row),
         NEW i \in DOMAIN t, NEW k \in DOMAIN u \ DOMAIN t
  PROVE  k > i
<1>1. /\ Len(t) \in Nat /\ DOMAIN t = 1..Len(t)
      /\ Len(u) \in Nat /\ DOMAIN u = 1..Len(u)
  BY LenProperties
<1> QED
  BY <1>1

\* The message z of row i is handed over if m, the same but for what a session
\* changes, is carried, offered or saved after the step.
LEMMA HandedOver ==
  ASSUME DeliveryInv, NEW done, Later(messages, messages', done),
         NEW s \in SessionIds, NEW m \in Message,
         Carried(s, m)' \/ m \in offered' \/ Rescued(s, m),
         m.type # "Reply" => m.dest = sessions[s].name,
         NEW i \in DOMAIN messages, SameMessage(m, messages[i].msg)
  PROVE  Handed(i)'
<1>0. messages \in Seq(Row) /\ messages' \in Seq(Row) /\ i \in DOMAIN messages'
  BY DEF DeliveryInv, WellFormed, TypeOK, StorageTypeOK, Later, Grown
<1>1. messages'[i].msg = messages[i].msg
  BY DEF Later
<1>2. CASE Carried(s, m)' \/ m \in offered'
  BY <1>1, <1>2 DEF Handed, Loose
<1>3. CASE Rescued(s, m)
  <2>1. PICK k \in DOMAIN messages' \ DOMAIN messages :
          /\ messages'[k].msg = Copy(m, sessions[s].name)
          /\ messages'[k].status = "PENDING"
    BY <1>3 DEF Rescued
  <2>2. k > i
    BY <1>0, NewRowsLast
  <2>3. SameMessage(Copy(m, sessions[s].name), m)
    BY DEF SameMessage, Copy, Message
  <2>4. PICK c, z : c = messages'[k].msg /\ z = messages[i].msg
    OBVIOUS
  <2>5. SameMessage(c, z)
    BY <2>1, <2>3, <2>4, SameTransitive
  <2>6. SameMessage(messages'[k].msg, messages'[i].msg)
    BY <1>1, <2>4, <2>5
  <2>7. messages'[k].status # "DELIVERED" /\ k \in DOMAIN messages'
    BY <2>1
  <2> QED
    BY <2>2, <2>6, <2>7 DEF Handed
<1> QED
  BY <1>2, <1>3

LEMMA LooseStays ==
  ASSUME DeliveryInv, Addressed, NothingDropped,
         NEW done, Later(messages, messages', done),
         NEW m \in Message, Loose(m),
         NEW i \in DOMAIN messages, SameMessage(m, messages[i].msg)
  PROVE  Handed(i)'
<1>1. CASE m \in offered
  BY <1>1 DEF NothingDropped, Later, Handed, Loose
<1>2. CASE \E s \in SessionIds : Carried(s, m)
  <2>1. PICK s \in SessionIds : Carried(s, m)
    BY <1>2
  <2>2. Carried(s, m)' \/ m \in offered' \/ Rescued(s, m)
    BY <2>1 DEF NothingDropped
  <2>3. m.type # "Reply" => m.dest = sessions[s].name
    BY <2>1 DEF Addressed
  <2> QED
    BY <2>2, <2>3, HandedOver
<1> QED
  BY <1>1, <1>2 DEF Loose

\* A step may make one row DELIVERED, one that was handed over itself.
DoneHanded(done) ==
  /\ \A i \in done : i \in DOMAIN messages => Handed(i)
  /\ \A i, j \in done : i = j

LEMMA HandedStays ==
  ASSUME DeliveryInv, Addressed, NothingDropped,
         NEW done, Later(messages, messages', done), DoneHanded(done),
         NEW i \in DOMAIN messages, Handed(i)
  PROVE  Handed(i)'
<1>0. messages \in Seq(Row) /\ Len(messages) \in Nat
      /\ DOMAIN messages = 1..Len(messages)
  BY LenProperties DEF DeliveryInv, WellFormed, TypeOK, StorageTypeOK
<1>1. CASE \E m \in Message : Loose(m) /\ SameMessage(m, messages[i].msg)
  BY <1>1, LooseStays
<1>2. ASSUME NEW k \in DOMAIN messages, k > i,
             messages[k].status # "DELIVERED",
             SameMessage(messages[k].msg, messages[i].msg),
             k \notin done
      PROVE  Handed(i)'
  <2>1. /\ k \in DOMAIN messages' /\ messages'[k].msg = messages[k].msg
        /\ messages'[i].msg = messages[i].msg
        /\ messages'[k].status # "DELIVERED"
    BY <1>2 DEF Later, Grown
  <2>2. SameMessage(messages'[k].msg, messages'[i].msg)
    BY <1>2, <2>1
  <2> QED
    BY <1>2, <2>1, <2>2 DEF Handed
<1>3. ASSUME NEW k \in DOMAIN messages, k > i,
             SameMessage(messages[k].msg, messages[i].msg),
             k \in done
      PROVE  Handed(i)'
  <2>1. Handed(k)
    BY <1>3 DEF DoneHanded
  <2>2. ASSUME NEW m \in Message, Loose(m), SameMessage(m, messages[k].msg)
        PROVE  Handed(i)'
    <3>1. SameMessage(m, messages[i].msg)
      BY <1>3, <2>2, SameTransitive
    <3> QED
      BY <2>2, <3>1, LooseStays
  <2>3. ASSUME NEW l \in DOMAIN messages, l > k,
               messages[l].status # "DELIVERED",
               SameMessage(messages[l].msg, messages[k].msg)
        PROVE  Handed(i)'
    <3>1. l # k /\ l > i
      BY <1>0, <1>3, <2>3
    <3>2. l \notin done
      BY <1>3, <3>1 DEF DoneHanded
    <3>3. SameMessage(messages[l].msg, messages[i].msg)
      BY <1>3, <2>3, SameTransitive
    <3> QED
      BY <1>2, <2>3, <3>1, <3>2, <3>3
  <2> QED
    BY <2>1, <2>2, <2>3 DEF Handed
<1> QED
  BY <1>1, <1>2, <1>3 DEF Handed

-----------------------------------------------------------------------------
(* One step *)

Marking == {"mark", "offDone", "repDone", "rMark", "aDeliver"}

\* What the event callback does: it sends what it was about to send, marks only
\* what is handed over, and sends a notice to the client it names.
EvLossStep ==
  /\ \A i \in DOMAIN messages : AboutToSend(i) => Entrusted(i)'
  /\ ev'.pc \in Marking =>
       \/ ev'.id \in DOMAIN messages /\ Handed(ev'.id)
       \/ Handed(ev.id)'
  /\ ev'.pc = "aSend" => /\ Born(ev'.sess)
                         /\ sessions[ev'.sess].name = ev'.owner

\* What the ACK timer does.
AkLossStep ==
  /\ \A i \in ak'.todo : i \in DOMAIN messages /\ Entrusted(i)
  /\ ak'.pc \in {"find", "sent"} =>
       ak'.id \in DOMAIN messages /\ Entrusted(ak'.id)

\* The rows that become SENT.
RowsSent ==
  \A i \in DOMAIN messages' : messages'[i].status = "SENT" =>
    /\ i \in DOMAIN messages
    /\ messages[i].status = "SENT" \/ Entrusted(i) \/ Entrusted(i)'

SentAddressed(to, sent) ==
  \A m \in sent : Born(to) /\ (m.type # "Reply" => m.dest = sessions[to].name)

LEMMA LossStep ==
  ASSUME DeliveryInv, LossInv, NothingDropped,
         NEW saved, NEW to, NEW sent, NEW done,
         RowsFrom(saved, to, sent, done), SessionsFrom(to, sent),
         SentAddressed(to, sent), DoneHanded(done),
         EvLossStep, AkLossStep, RowsSent
  PROVE  LossInv'
<1>0. Later(messages, messages', done)
  BY DEF RowsFrom
<1>1. ASSUME NEW i \in DOMAIN messages, Handed(i) PROVE Handed(i)'
  BY <1>0, <1>1, HandedStays DEF LossInv
<1>2. ASSUME NEW i \in DOMAIN messages, Entrusted(i) PROVE Entrusted(i)'
  BY <1>1, <1>2 DEF Entrusted, EvLossStep
<1>3. Addressed'
  <2>1. ASSUME NEW s \in SessionIds, NEW m \in Message,
               Carried(s, m)', m.type # "Reply"
        PROVE  m.dest = sessions'[s].name
    <3>1. CASE Carried(s, m)
      <4>1. sessions[s].name \in Names \cup {NoName}
        BY DEF DeliveryInv, WellFormed, TypeOK, SessionsTypeOK, Session
      <4>2. Born(s)
        BY <3>1, <4>1 DEF DeliveryInv, CarriedSendable
      <4> QED
        BY <2>1, <3>1, <4>2 DEF LossInv, Addressed, SessionsFrom
    <3>2. CASE s = to /\ m \in sent
      BY <2>1, <3>2 DEF SentAddressed, SessionsFrom
    <3> QED
      BY <2>1, <3>1, <3>2 DEF SessionsFrom
  <2>2. ev'.pc = "aSend" => sessions'[ev'.sess].name = ev'.owner
    BY DEF EvLossStep, Born, SessionsFrom
  <2> QED
    BY <2>1, <2>2 DEF Addressed
<1>4. RowsHanded'
  <2>1. ASSUME NEW i \in DOMAIN messages', messages'[i].status = "SENT"
        PROVE  Entrusted(i)'
    <3>1. /\ i \in DOMAIN messages
          /\ messages[i].status = "SENT" \/ Entrusted(i) \/ Entrusted(i)'
      BY <2>1 DEF RowsSent
    <3> QED
      BY <1>2, <3>1 DEF LossInv, RowsHanded
  <2>2. ASSUME NEW i \in DOMAIN messages', messages'[i].status = "DELIVERED"
        PROVE  Handed(i)'
    <3>1. i \in DOMAIN messages
      BY <2>2 DEF RowsFrom
    <3>2. messages[i].status = "DELIVERED" \/ i \in done
      BY <1>0, <2>2, <3>1 DEF Later
    <3> QED
      BY <1>1, <3>1, <3>2 DEF LossInv, RowsHanded, DoneHanded
  <2> QED
    BY <2>1, <2>2 DEF RowsHanded
<1>5. EvHanded'
  <2> SUFFICES ASSUME ev'.pc \in Marking PROVE Handed(ev.id)'
    BY DEF EvHanded, Marking
  <2>1. CASE ev'.id \in DOMAIN messages /\ Handed(ev'.id)
    <3>1. PICK i \in DOMAIN messages : i = ev'.id
      BY <2>1
    <3>2. Handed(i)'
      BY <1>1, <2>1, <3>1
    <3> QED
      BY <3>1, <3>2 DEF Handed
  <2> QED
    BY <2>1 DEF EvLossStep
<1>6. AkHanded'
  <2>1. \A i \in ak'.todo : Entrusted(i)'
    BY <1>2 DEF AkLossStep
  <2>2. ASSUME ak'.pc \in {"find", "sent"} PROVE Entrusted(ak.id)'
    <3>1. PICK i \in DOMAIN messages : i = ak'.id /\ Entrusted(i)
      BY <2>2 DEF AkLossStep
    <3>2. Entrusted(i)'
      BY <1>2, <3>1
    <3> QED
      BY <3>1, <3>2 DEF Entrusted, Handed, AboutToSend
  <2> QED
    BY <2>1, <2>2 DEF AkHanded
<1> QED
  BY <1>3, <1>4, <1>5, <1>6 DEF LossInv

\* The event callback and the ACK timer when they do not take the step.
LEMMA EvRests ==
  ASSUME DeliveryInv, LossInv, ev' = ev
  PROVE  EvLossStep
<1>1. \A i \in DOMAIN messages : AboutToSend(i) => Entrusted(i)'
  BY DEF Entrusted, AboutToSend
<1>2. ev.pc \in Marking => ev.id \in DOMAIN messages /\ Handed(ev.id)
  BY DEF Marking, DeliveryInv, WellFormed, EvRefsOK, EvKnows, EvStored,
         LossInv, EvHanded
<1>3. ev.pc = "aSend" => Born(ev.sess) /\ sessions[ev.sess].name = ev.owner
  <2>1. ev.pc = "aSend" => ev.sess # NoSession
    BY SessionsAssumption DEF DeliveryInv, WellFormed, EvRefsOK, EvSending
  <2> QED
    BY <2>1 DEF DeliveryInv, SessionsKnown, LossInv, Addressed
<1>4. PICK x : x = ev
  OBVIOUS
<1>5. x.pc \in Marking => x.id \in DOMAIN messages /\ Handed(x.id)
  BY <1>2, <1>4
<1> QED
  BY <1>1, <1>3, <1>4, <1>5 DEF EvLossStep

LEMMA AkRests ==
  ASSUME DeliveryInv, LossInv, ak'.todo \subseteq ak.todo,
         ak'.pc \in {"find", "sent"} =>
           ak.pc \in {"find", "sent"} /\ ak'.id = ak.id
  PROVE  AkLossStep
<1>1. /\ ak.todo \subseteq DOMAIN messages
      /\ ak.pc \in {"find", "sent"} => ak.id \in DOMAIN messages
  BY DEF DeliveryInv, WellFormed, AkRefsOK
<1>2. /\ \A i \in ak.todo : Entrusted(i)
      /\ ak.pc \in {"find", "sent"} => Entrusted(ak.id)
  BY DEF LossInv, AkHanded
<1>3. ASSUME ak'.pc \in {"find", "sent"}
      PROVE  ak'.id \in DOMAIN messages /\ Entrusted(ak'.id)
  <2>1. PICK i : i = ak.id
    OBVIOUS
  <2>2. i = ak'.id /\ i \in DOMAIN messages /\ Entrusted(i)
    BY <1>1, <1>2, <1>3, <2>1
  <2> QED
    BY <2>2
<1> QED
  BY <1>1, <1>2, <1>3 DEF AkLossStep

\* The event callback where it neither has to send nor marks.
LEMMA EvQuiet ==
  ASSUME ev.pc \notin {"offSend", "repSend", "rSend"},
         ev'.pc \notin Marking, ev'.pc # "aSend"
  PROVE  EvLossStep
BY DEF EvLossStep, AboutToSend

\* A step that changes no row there is and sends nothing.
LEMMA LossSaved ==
  ASSUME DeliveryInv, LossInv, NothingDropped, OldRowsSame,
         NEW saved, RowsFrom(saved, NoSession, {}, {}),
         SessionsFrom(NoSession, {}), EvLossStep, AkLossStep
  PROVE  LossInv'
<1>1. RowsSent
  BY DEF RowsSent, RowsFrom, OldRowsSame
<1>2. SentAddressed(NoSession, {}) /\ DoneHanded({})
  BY DEF SentAddressed, DoneHanded
<1> QED
  BY <1>1, <1>2, LossStep

LEMMA LossLocal ==
  ASSUME DeliveryInv, LossInv, UNCHANGED <<messages, sessions, outbox>>,
         offered' = offered, EvLossStep, AkLossStep
  PROVE  LossInv'
<1>1. RowsFrom({}, NoSession, {}, {}) /\ SessionsFrom(NoSession, {})
  BY EvNothing
<1>2. NothingDropped
  BY SameQueues
<1>3. OldRowsSame
  BY DEF OldRowsSame
<1> QED
  BY <1>1, <1>2, <1>3, LossSaved

\* A step that marks a row.
LEMMA LossMark ==
  ASSUME DeliveryInv, LossInv, NothingDropped, SessionsFrom(NoSession, {}),
         NEW i,
         \/ /\ messages' = MarkDelivered(messages, i)
            /\ i \in DOMAIN messages => Handed(i)
         \/ /\ messages' = MarkSent(messages, i)
            /\ i \in DOMAIN messages => Entrusted(i) \/ Entrusted(i)'
         \/ messages' = MarkPending(messages, i),
         EvLossStep, AkLossStep
  PROVE  LossInv'
<1>0. TypeOK /\ messages \in Seq(Row)
  BY DEF DeliveryInv, WellFormed, TypeOK, StorageTypeOK
<1>1. SentAddressed(NoSession, {})
  BY DEF SentAddressed
<1>2. CASE /\ messages' = MarkDelivered(messages, i)
           /\ i \in DOMAIN messages => Handed(i)
  <2>1. RowsFrom({}, NoSession, {}, {i})
    BY <1>0, <1>2, StoreFlow
  <2>2. DoneHanded({i})
    BY <1>2 DEF DoneHanded
  <2>3. RowsSent
    <3>1. /\ DOMAIN messages' = DOMAIN messages
          /\ \A k \in DOMAIN messages :
               messages'[k].status \in {messages[k].status, "DELIVERED"}
      BY <1>0, <1>2, UpdateRows DEF MarkDelivered, Status
    <3> QED
      BY <3>1 DEF RowsSent
  <2> QED
    BY <1>1, <2>1, <2>2, <2>3, LossStep
<1>3. CASE /\ messages' = MarkSent(messages, i)
           /\ i \in DOMAIN messages => Entrusted(i) \/ Entrusted(i)'
  <2>1. RowsFrom({}, NoSession, {}, {}) /\ DoneHanded({})
    BY <1>0, <1>3, StoreFlow DEF DoneHanded
  <2>2. RowsSent
    <3>1. /\ DOMAIN messages' = DOMAIN messages
          /\ \A k \in DOMAIN messages :
               k # i => messages'[k].status = messages[k].status
      BY <1>0, <1>3, UpdateRows DEF MarkSent, Status
    <3> QED
      BY <1>3, <3>1 DEF RowsSent
  <2> QED
    BY <1>1, <2>1, <2>2, LossStep
<1>4. CASE messages' = MarkPending(messages, i)
  <2>1. RowsFrom({}, NoSession, {}, {}) /\ DoneHanded({})
    BY <1>0, <1>4, StoreFlow DEF DoneHanded
  <2>2. RowsSent
    <3>1. /\ DOMAIN messages' = DOMAIN messages
          /\ \A k \in DOMAIN messages :
               messages'[k].status \in {messages[k].status, "PENDING"}
      BY <1>0, <1>4, UpdateRows DEF MarkPending, Status
    <3> QED
      BY <3>1 DEF RowsSent
  <2> QED
    BY <1>1, <2>1, <2>2, LossStep
<1> QED
  BY <1>2, <1>3, <1>4

\* A step that sends.
LEMMA SendHands ==
  ASSUME DeliveryInv, NEW s \in SessionIds, NEW m \in Message,
         m.type # "Reply" => m.dest = sessions[s].name,
         SendMessage(s, m), offered' = offered,
         NEW i \in DOMAIN messages, messages[i].msg = m
  PROVE  Handed(i)'
<1>0. TypeOK
  BY DEF DeliveryInv, WellFormed
<1>1. Later(messages, messages', {})
  BY <1>0, SendFlow DEF RowsFrom
<1>2. Carried(s, m)' \/ Rescued(s, m)
  BY <1>0, SendKeeps
<1>3. SameMessage(m, messages[i].msg)
  BY DEF SameMessage
<1> QED
  BY <1>1, <1>2, <1>3, HandedOver

LEMMA LossSend ==
  ASSUME DeliveryInv, LossInv, NEW s \in SessionIds, Born(s), NEW m \in Message,
         m.type # "Reply" => m.dest = sessions[s].name,
         SendMessage(s, m), offered' = offered, EvLossStep, AkLossStep
  PROVE  LossInv'
<1>0. TypeOK
  BY DEF DeliveryInv, WellFormed
<1>1. RowsFrom({}, s, {m}, {}) /\ SessionsFrom(s, {m})
  BY <1>0, SendFlow
<1>2. NothingDropped
  BY <1>0, SendKeeps
<1>3. RowsSent
  <2>1. OldRowsSame
    BY <1>0, RowsSame
  <2> QED
    BY <1>1, <2>1 DEF RowsSent, RowsFrom, OldRowsSame
<1>4. SentAddressed(s, {m}) /\ DoneHanded({})
  BY DEF SentAddressed, DoneHanded
<1> QED
  BY <1>1, <1>2, <1>3, <1>4, LossStep

-----------------------------------------------------------------------------
(* The event callback *)

\* Steps that look something up, or save a correlation.
LEMMA EvLocalLoss ==
  ASSUME DeliveryInv, LossInv,
         \/ \E m \in Requests : Receive(m)
         \/ EvReturn \/ EvOffLoad \/ EvRepLoad \/ EvFind \/ EvCorr
         \/ EvReplyCorr \/ EvReplyFind \/ EvAckReceived \/ EvUnregFind
         \/ EvUnregRemove
  PROVE  LossInv'
<1>0. ev \in EvState
  BY DEF DeliveryInv, WellFormed, TypeOK
<1>1. /\ messages' = messages /\ sessions' = sessions /\ outbox' = outbox
      /\ offered' = offered /\ ak' = ak
  BY DEF Receive, EvReturn, EvOffLoad, EvRepLoad, EvFind, EvCorr, EvReplyCorr,
         EvReplyFind, EvAckReceived, EvUnregFind, EvUnregRemove, EvFrame,
         auxVars, storeVars, sessVars
<1>2. /\ ev.pc \notin {"offSend", "repSend", "rSend"}
      /\ ev'.pc \notin Marking \cup {"aSend"}
  <2>1. ASSUME NEW m \in Requests, Receive(m)
        PROVE  /\ ev.pc \notin {"offSend", "repSend", "rSend"}
               /\ ev'.pc \notin Marking \cup {"aSend"}
    <3>1. m.type \in Types
      BY BrokerAssumption DEF Message
    <3>2. ev.pc = "idle" /\ ev'.pc = Handler(m)
      BY <2>1 DEF Receive, IdleEv
    <3>3. Handler(m) \in {"done", "upsert", "find", "rSave", "aLook", "uFind"}
      BY <3>1 DEF Handler, Types
    <3> QED
      BY <3>2, <3>3 DEF Marking
  <2>2. CASE EvReturn
    BY <2>2 DEF EvReturn, IdleEv, Marking
  <2>7. CASE EvCorr \/ EvReplyCorr
    <3>1. /\ ev.pc \in {"corr", "rCorr"}
          /\ EvFinish \/ EvGoto("send") \/ EvGoto("rFind")
      BY <2>7 DEF EvCorr, EvReplyCorr
    <3> QED
      BY <1>0, <3>1 DEF EvFinish, EvGoto, IdleEv, EvState, Marking
  <2>6. CASE EvFind
    BY <1>0, <2>6 DEF EvFind, EvState, Marking
  <2>3. CASE EvOffLoad \/ EvRepLoad
    BY <1>0, <2>3 DEF EvOffLoad, EvRepLoad, EvFinish, EvGoto, IdleEv, EvState,
                      Marking
  <2>4. CASE EvReplyFind
    BY <1>0, <2>4 DEF EvReplyFind, EvFinish, IdleEv, EvState, Marking
  <2>5. CASE EvAckReceived \/ EvUnregFind \/ EvUnregRemove
    BY <1>0, <2>5 DEF EvAckReceived, EvUnregFind, EvUnregRemove, EvFinish,
                      EvGoto, IdleEv, EvState, Marking
  <2> QED
    BY <2>1, <2>2, <2>3, <2>4, <2>5, <2>6, <2>7
<1>3. EvLossStep
  BY <1>2, EvQuiet
<1>4. AkLossStep
  BY <1>1, AkRests
<1> QED
  BY <1>1, <1>3, <1>4, LossLocal

\* What every step of a handler leaves alone.
LEMMA EvFrameLoss ==
  ASSUME DeliveryInv, LossInv, EvFrame
  PROVE  offered' = offered /\ AkLossStep
<1>1. offered' = offered /\ ak' = ak
  BY DEF EvFrame, auxVars
<1> QED
  BY <1>1, AkRests

\* An exception leaves the handler before it did anything.
LEMMA EvThrowsLoss ==
  ASSUME DeliveryInv, LossInv, EvThrows, EvFrame, UNCHANGED sessVars,
         ev.pc \notin {"offSend", "repSend", "rSend"}
  PROVE  LossInv'
<1>1. ev'.pc = "done" /\ UNCHANGED <<messages, sessions, outbox>>
  BY DEF EvThrows, EvFinish, IdleEv, sessVars
<1>2. EvLossStep
  BY <1>1, EvQuiet DEF Marking
<1> QED
  BY <1>1, <1>2, EvFrameLoss, LossLocal

\* The head of a delivery loop.
LEMMA EvNextLoss ==
  ASSUME DeliveryInv, LossInv, EvOffNext \/ EvRepNext
  PROVE  LossInv'
<1>0. ev \in EvState /\ TypeOK /\ ev.todo \subseteq DOMAIN messages
  BY DEF DeliveryInv, WellFormed, TypeOK, EvRefsOK
<1>1. /\ EvFrame /\ UNCHANGED sessVars /\ sessions' = sessions
      /\ outbox' = outbox
      /\ ev.pc \in {"offNext", "repNext"}
  BY DEF EvOffNext, EvRepNext, sessVars
<1>2. offered' = offered /\ AkLossStep
  BY <1>1, EvFrameLoss
<1>3. CASE EvThrows
  BY <1>1, <1>3, EvThrowsLoss
<1>4. CASE messages' = messages /\ (EvGoto("offFlush") \/ EvFinish)
  <2>1. ev'.pc \in {"offFlush", "done"}
    BY <1>0, <1>4 DEF EvGoto, EvFinish, IdleEv, EvState
  <2>2. EvLossStep
    BY <1>1, <2>1, EvQuiet DEF Marking
  <2> QED
    BY <1>1, <1>2, <1>4, <2>2, LossLocal
<1>5. ASSUME NEW i \in ev.todo,
             \/ ev' = [ev EXCEPT !.pc = "offSend", !.id = i, !.todo = @ \ {i}]
             \/ ev' = [ev EXCEPT !.pc = "repSend", !.id = i, !.todo = @ \ {i}],
             messages' = IF NeedsAckFlag(messages[i].msg)
                         THEN MarkSent(messages, i) ELSE messages
      PROVE  LossInv'
  <2>1. ev'.pc \in {"offSend", "repSend"} /\ ev'.id = i
    BY <1>0, <1>5 DEF EvState
  <2>2. EvLossStep
    BY <1>1, <2>1, EvQuiet DEF Marking
  <2>3. CASE messages' = messages
    BY <1>1, <1>2, <2>2, <2>3, LossLocal
  <2>4. CASE messages' = MarkSent(messages, i)
    <3>1. Entrusted(i)'
      BY <2>1 DEF Entrusted, AboutToSend
    <3>2. NothingDropped
      BY <1>1, <1>2, SameQueues
    <3>3. SessionsFrom(NoSession, {})
      BY <1>1, SessionsSame
    <3> QED
      BY <1>2, <2>2, <2>4, <3>1, <3>2, <3>3, LossMark
  <2> QED
    BY <1>5, <2>3, <2>4
<1> QED
  BY <1>3, <1>4, <1>5 DEF EvOffNext, EvRepNext

\* A row is marked that is handed over.
LEMMA EvMarkLoss ==
  ASSUME DeliveryInv, LossInv,
         EvOffDone \/ EvRepDone \/ EvMark \/ EvReplyMark \/ EvAckDeliver
  PROVE  LossInv'
<1>0. ev \in EvState
  BY DEF DeliveryInv, WellFormed, TypeOK
<1>1. /\ EvFrame /\ UNCHANGED sessVars /\ sessions' = sessions
      /\ outbox' = outbox /\ ev.pc \in Marking
  BY DEF EvOffDone, EvRepDone, EvMark, EvReplyMark, EvAckDeliver, sessVars,
         Marking
<1>2. offered' = offered /\ AkLossStep
  BY <1>1, EvFrameLoss
<1>3. PICK i : i = ev.id /\ Handed(i)
  BY <1>1 DEF LossInv, EvHanded, Marking
<1>4. ev'.pc \in {"offNext", "repNext", "done", "aReceived", "rollback"}
  BY <1>0 DEF EvOffDone, EvRepDone, EvMark, EvReplyMark, EvAckDeliver, EvGoto,
              EvThrows, EvFinish, IdleEv, EvState
<1>5. EvLossStep
  BY <1>1, <1>4, EvQuiet DEF Marking
<1>6. NothingDropped
  BY <1>1, <1>2, SameQueues
<1>7. SessionsFrom(NoSession, {})
  BY <1>1, SessionsSame
<1>8. \/ messages' = messages \/ messages' = MarkDelivered(messages, i)
      \/ messages' = MarkSent(messages, i)
  BY <1>3 DEF EvOffDone, EvRepDone, EvMark, EvReplyMark, EvAckDeliver, EvThrows
<1>9. CASE messages' = messages
  BY <1>1, <1>2, <1>5, <1>9, LossLocal
<1>10. CASE messages' = MarkDelivered(messages, i)
  BY <1>2, <1>3, <1>5, <1>6, <1>7, <1>10, LossMark
<1>11. CASE messages' = MarkSent(messages, i)
  BY <1>2, <1>3, <1>5, <1>6, <1>7, <1>11, LossMark DEF Entrusted
<1> QED
  BY <1>8, <1>9, <1>10, <1>11

\* A reply is marked SENT, or is taken back when that or its end fails.
LEMMA EvReplySentLoss ==
  ASSUME DeliveryInv, LossInv, EvReplySent \/ EvReplyRollback
  PROVE  LossInv'
<1>0. ev \in EvState /\ TypeOK /\ ev.sess \in SessionIds
      /\ sessions \in [SessionIds -> Session]
  BY DEF DeliveryInv, WellFormed, TypeOK, EvRefsOK, EvSending, EvReplySent,
         EvReplyRollback, SessionsTypeOK
<1>1. /\ EvFrame /\ outbox' = outbox /\ ev.pc \in {"rSent", "rollback"}
      /\ sessions' = sessions \/ sessions' = MarkOffline(sessions, ev.sess)
  BY DEF EvReplySent, EvReplyRollback, sessVars
<1>2. offered' = offered /\ AkLossStep
  BY <1>1, EvFrameLoss
<1>3. PICK s \in SessionIds, i \in Nat : s = ev.sess /\ i = ev.id
  BY <1>0 DEF EvState
<1>4. SessionsFrom(NoSession, {})
  BY <1>0, <1>1, <1>3, SessionFlow
<1>5. NothingDropped
  <2>1. ASSUME NEW r \in SessionIds
        PROVE  sessions'[r].queue = sessions[r].queue
    <3>1. CASE sessions' = sessions
      BY <3>1
    <3>2. CASE sessions' = MarkOffline(sessions, s)
      BY <1>0, <3>2 DEF MarkOffline, Session
    <3> QED
      BY <1>1, <1>3, <3>1, <3>2
  <2> QED
    BY <1>1, <1>2, <2>1, SameQueues
<1>6. ev'.pc \in {"rSend", "rollback", "done"}
  BY <1>0 DEF EvReplySent, EvReplyRollback, EvGoto, EvFinish, IdleEv, EvState
<1>7. EvLossStep
  BY <1>1, <1>6, EvQuiet DEF Marking
<1>8. CASE messages' = messages
  <2>1. RowsFrom({}, NoSession, {}, {}) /\ OldRowsSame
    BY <1>0, <1>8, StoreFlow, RowsSame
  <2> QED
    BY <1>2, <1>4, <1>5, <1>7, <2>1, LossSaved
<1>9. CASE messages' = MarkPending(messages, i)
  BY <1>2, <1>4, <1>5, <1>7, <1>9, LossMark
<1>10. CASE messages' = MarkSent(messages, i) /\ EvGoto("rSend")
  <2>1. ev'.pc = "rSend" /\ ev'.id = i
    BY <1>0, <1>3, <1>10 DEF EvGoto, EvState
  <2>2. Entrusted(i)'
    BY <2>1 DEF Entrusted, AboutToSend
  <2> QED
    BY <1>2, <1>4, <1>5, <1>7, <1>10, <2>2, LossMark
<1> QED
  BY <1>3, <1>8, <1>9, <1>10 DEF EvReplySent, EvReplyRollback

\* A message, a reply or a notice is stored.
LEMMA EvSaveLoss ==
  ASSUME DeliveryInv, LossInv, EvSave \/ EvReplySave \/ EvAckSave
  PROVE  LossInv'
<1>0. ev \in EvState /\ TypeOK /\ ev.msg \in Message
  BY DEF DeliveryInv, WellFormed, TypeOK, EvState
<1>1. /\ EvFrame /\ UNCHANGED sessVars /\ sessions' = sessions
      /\ outbox' = outbox /\ ev.pc \in {"save", "rSave", "aSave"}
  BY DEF EvSave, EvReplySave, EvAckSave, sessVars
<1>2. offered' = offered /\ AkLossStep
  BY <1>1, EvFrameLoss
<1>3. ev'.pc \in {"done", "send", "corr", "rCorr"}
  BY <1>0 DEF EvSave, EvReplySave, EvAckSave, EvThrows, EvFinish, IdleEv,
              EvState
<1>4. EvLossStep
  BY <1>1, <1>3, EvQuiet DEF Marking
<1>5. messages' = messages \/ \E m \in Message :
                                messages' = SaveMessage(messages, m)
  <2>1. CASE EvSave
    BY <1>0, <2>1 DEF EvSave, EvThrows
  <2>2. CASE EvReplySave
    <3>1. ASSUME NEW to \in Names \cup {NoName}
          PROVE  [ev.msg EXCEPT !.dest = IF to = NoName THEN @ ELSE to]
                   \in Message
      BY <1>0 DEF Message
    <3>2. \A r \in correlations : r.owner \in Names \cup {NoName}
      BY <1>0 DEF TypeOK, StorageTypeOK, Correlation
    <3> QED
      BY <2>2, <3>1, <3>2 DEF EvReplySave, EvThrows, FindByCorrelation
  <2>3. CASE EvAckSave
    <3>1. AckNotification \in Message
      BY <1>0 DEF AckNotification, Message, EvState, Types, Flags
    <3> QED
      BY <2>3, <3>1 DEF EvAckSave, EvThrows
  <2> QED
    BY <2>1, <2>2, <2>3
<1>6. CASE messages' = messages
  BY <1>1, <1>2, <1>4, <1>6, LossLocal
<1>7. ASSUME NEW m \in Message, messages' = SaveMessage(messages, m)
      PROVE  LossInv'
  <2>1. RowsFrom({m}, NoSession, {}, {}) /\ OldRowsSame
    BY <1>0, <1>7, StoreFlow, RowsSame
  <2>2. SessionsFrom(NoSession, {}) /\ NothingDropped
    BY <1>1, <1>2, SessionsSame, SameQueues
  <2> QED
    BY <1>2, <1>4, <2>1, <2>2, LossSaved
<1> QED
  BY <1>5, <1>6, <1>7

\* The row that is looked up for an acknowledgement is SENT, and its message on
\* its way; the notice goes to the session of the client it names.
LEMMA EvAckLoss ==
  ASSUME DeliveryInv, LossInv, EvAckLook \/ EvAckNotify
  PROVE  LossInv'
<1>0. ev \in EvState /\ TypeOK
  BY DEF DeliveryInv, WellFormed, TypeOK
<1>1. /\ EvFrame /\ sessions' = sessions /\ outbox' = outbox
      /\ messages' = messages /\ ev.pc \in {"aLook", "aNotify"}
  BY DEF EvAckLook, EvAckNotify, sessVars, storeVars
<1>2. offered' = offered /\ AkLossStep
  BY <1>1, EvFrameLoss
<1>3. \A i \in DOMAIN messages : AboutToSend(i) => Entrusted(i)'
  BY <1>1 DEF AboutToSend
<1>4. CASE EvAckLook
  <2>1. CASE EvFinish
    <3>1. EvLossStep
      BY <1>1, <2>1, EvQuiet DEF EvFinish, IdleEv, Marking
    <3> QED
      BY <1>1, <1>2, <3>1, LossLocal
  <2>2. ASSUME NEW r \in FindByCorrelation(correlations, ev.msg.corr), NEW owner,
               NeedsAck(messages, r.mid),
               ev' = [ev EXCEPT !.pc = "aDeliver", !.id = r.mid,
                                !.owner = owner]
        PROVE  LossInv'
    <3>1. PICK i \in DOMAIN messages : i = r.mid /\ messages[i].status = "SENT"
      BY <2>2 DEF NeedsAck
    <3>2. ev'.pc = "aDeliver" /\ ev'.id = i
      BY <1>0, <2>2, <3>1 DEF EvState
    <3>3. Handed(i)
      BY <1>1, <3>1 DEF LossInv, RowsHanded, Entrusted, AboutToSend
    <3>4. EvLossStep
      BY <1>3, <3>2, <3>3 DEF EvLossStep
    <3> QED
      BY <1>1, <1>2, <3>4, LossLocal
  <2> QED
    BY <1>4, <2>1, <2>2 DEF EvAckLook
<1>5. CASE EvAckNotify
  <2> DEFINE s == FindSession(ev.owner)
  <2>1. CASE ev' = [ev EXCEPT !.pc = "aSave"]
    <3>1. ev'.pc = "aSave"
      BY <1>0, <2>1 DEF EvState
    <3>2. EvLossStep
      BY <1>1, <3>1, EvQuiet DEF Marking
    <3> QED
      BY <1>1, <1>2, <3>2, LossLocal
  <2>2. CASE /\ s # NoSession
             /\ ev' = [ev EXCEPT !.pc = "aSend", !.sess = s,
                                 !.refs = @ \cup {s}]
    <3>1. Born(s) /\ sessions[s].name = ev.owner
      BY <2>2, FoundOf DEF SessionOf
    <3> HIDE DEF s
    <3>2. ev'.pc = "aSend" /\ ev'.sess = s /\ ev'.owner = ev.owner
      BY <1>0, <2>2 DEF EvState
    <3>3. EvLossStep
      BY <1>3, <3>1, <3>2 DEF EvLossStep, Marking, Born
    <3> QED
      BY <1>1, <1>2, <3>3, LossLocal
  <2> QED
    BY <1>5, <2>1, <2>2 DEF EvAckNotify
<1> QED
  BY <1>4, <1>5

\* The sends.
LEMMA EvSendLoss ==
  ASSUME DeliveryInv, LossInv,
         EvOffSend \/ EvRepSend \/ EvSend \/ EvReplySend \/ EvAckSend
  PROVE  LossInv'
<1>0. ev \in EvState /\ TypeOK /\ ev.sess \in SessionIds /\ ev.msg \in Message
  BY DEF DeliveryInv, WellFormed, TypeOK, EvRefsOK, EvSending, EvState,
         EvOffSend, EvRepSend, EvSend, EvReplySend, EvAckSend
<1>1. EvFrame
  BY DEF EvOffSend, EvRepSend, EvSend, EvReplySend, EvAckSend
<1>2. offered' = offered /\ AkLossStep
  BY <1>1, EvFrameLoss
<1>3. PICK s \in SessionIds, i \in Nat : s = ev.sess /\ i = ev.id
  BY <1>0 DEF EvState
<1>4. Born(s)
  BY <1>3, SessionsAssumption DEF DeliveryInv, SessionsKnown
<1>5. CASE EvAckSend
  <2>1. PICK m : m = AckNotification
    OBVIOUS
  <2>2. m \in Message
    BY <1>0, <2>1 DEF AckNotification, Message, EvState, Types, Flags
  <2>3. m.dest = sessions[s].name
    BY <1>3, <1>5, <2>1 DEF AckNotification, LossInv, Addressed, EvAckSend
  <2>4. SendMessage(s, m)
    BY <1>3, <1>5, <2>1 DEF EvAckSend
  <2>5. EvLossStep
    BY <1>5, EvQuiet DEF EvAckSend, EvFinish, IdleEv, Marking
  <2> QED
    BY <1>2, <1>4, <2>2, <2>3, <2>4, <2>5, LossSend
<1>6. CASE EvOffSend \/ EvRepSend \/ EvSend \/ EvReplySend
  <2>1. i \in DOMAIN messages
    BY <1>3, <1>6 DEF EvOffSend, EvRepSend, EvSend, EvReplySend, DeliveryInv,
                      WellFormed, EvRefsOK, EvKnows, EvStored
  <2>2. PICK m \in Message : m = messages[i].msg
    BY <1>0, <2>1, RowMessage
  <2>3. SendMessage(s, m)
    BY <1>3, <1>6, <2>2 DEF EvOffSend, EvRepSend, EvSend, EvReplySend,
                            DeliveryInv, EvKnows, EvStored
  <2>4. m.type # "Reply" => m.dest = sessions[s].name
    <3>1. CASE EvOffSend
      <4>1. SessionOf(ev.sess, ev.msg.sender) /\ BacklogRow(ev.id)
        BY <3>1 DEF EvOffSend, DeliveryInv, EvKnows, EvBacklog
      <4> QED
        BY <1>3, <2>2, <4>1 DEF SessionOf, BacklogRow
    <3>2. CASE EvRepSend
      BY <1>3, <2>2, <3>2 DEF EvRepSend, DeliveryInv, EvKnows, ReplyRow
    <3>3. CASE EvSend
      <4>1. SessionOf(ev.sess, ev.msg.dest) /\ messages[ev.id].msg = ev.msg
        BY <1>0, <3>3, SessionsAssumption
           DEF EvSend, DeliveryInv, EvKnows, EvStored
      <4> QED
        BY <1>3, <2>2, <4>1 DEF SessionOf
    <3>4. CASE EvReplySend
      BY <1>3, <2>2, <3>4 DEF EvReplySend, DeliveryInv, EvKnows, EvStored
    <3> QED
      BY <1>6, <3>1, <3>2, <3>3, <3>4
  <2>5. Handed(i)'
    BY <1>2, <2>1, <2>2, <2>3, <2>4, SendHands
  <2>6. /\ ev'.pc \in {"offNext", "offDone", "repDone", "mark", "rMark", "done"}
        /\ ev'.pc \in Marking => ev'.id = i
    BY <1>0, <1>3, <1>6 DEF EvOffSend, EvRepSend, EvSend, EvReplySend, EvGoto,
                            EvFinish, IdleEv, EvState, Marking
  <2>7. EvLossStep
    <3>1. \A k \in DOMAIN messages : AboutToSend(k) => Entrusted(k)'
      BY <1>3, <2>5 DEF AboutToSend, Entrusted
    <3>2. ev'.pc \in Marking => Handed(ev.id)'
      BY <2>5, <2>6 DEF Handed
    <3> QED
      BY <2>6, <3>1, <3>2 DEF EvLossStep
  <2> QED
    BY <1>2, <1>4, <2>3, <2>4, <2>7, LossSend
<1> QED
  BY <1>5, <1>6

-----------------------------------------------------------------------------
(* The end of the process *)

\* The process never ends, or ends when nothing is in memory only.
EndsClean == (~DbMayFail /\ ~MayCrash) \/ (Restart => NothingInMemory)

\* A restart then finds everything where it was.
LEMMA RestartLoss ==
  ASSUME DeliveryInv, LossInv, EndsClean, Restart, DbMayFail \/ MayCrash,
         \/ messages' = messages
         \/ \E s \in SessionIds : \E n \in 0..Len(sessions[s].queue) :
              PersistQueueThrows(s, n)
  PROVE  LossInv'
<1>0. NothingInMemory
  BY DEF EndsClean
<1>1. messages' = messages
  <2> SUFFICES ASSUME NEW s \in SessionIds,
                      NEW n \in 0..Len(sessions[s].queue), 
                      PersistQueueThrows(s, n)
               PROVE  FALSE
    OBVIOUS
  <2>1. sessions[s].queue = <<>>
    BY <1>0 DEF NothingInMemory
  <2>2. Len(sessions[s].queue) = 0
    BY <2>1
  <2> QED
    BY <2>2 DEF PersistQueueThrows
<1>2. ASSUME NEW s \in SessionIds, NEW m \in Message
      PROVE  ~Carried(s, m) /\ ~Carried(s, m)'
  <2>1. outbox = <<>> /\ sessions[s].queue = <<>>
    BY <1>0 DEF NothingInMemory
  <2>2. outbox' = <<>> /\ sessions'[s].queue = <<>>
    BY DEF Restart, Unborn
  <2> QED
    BY <2>1, <2>2 DEF Carried
<1>3. \A i \in DOMAIN messages : Handed(i) => Handed(i)'
  <2>1. offered' = offered
    BY DEF Restart, auxVars
  <2> QED
    BY <1>1, <1>2, <2>1 DEF Handed, Loose
<1>4. \A i \in DOMAIN messages : Entrusted(i) => Entrusted(i)'
  BY <1>0, <1>3 DEF Entrusted, AboutToSend, NothingInMemory
<1>5. ev'.pc = "idle" /\ ak'.pc = "idle" /\ ak'.todo = {}
  BY DEF Restart, IdleEv, IdleAk
<1>6. Addressed'
  BY <1>2, <1>5 DEF Addressed
<1>7. RowsHanded'
  BY <1>1, <1>3, <1>4 DEF RowsHanded, LossInv
<1>8. EvHanded' /\ AkHanded'
  BY <1>5 DEF EvHanded, AkHanded
<1> QED
  BY <1>6, <1>7, <1>8 DEF LossInv

LEMMA ReleaseTerminatesLoss ==
  ASSUME DeliveryInv, LossInv, EndsClean, NEW s \in SessionIds, NEW refs,
         ReleaseTerminates(s, refs)
  PROVE  LossInv'
<1>1. PICK n \in 0..Len(sessions[s].queue) : PersistQueueThrows(s, n)
  BY DEF ReleaseTerminates
<1>2. Restart /\ DbMayFail
  BY <1>1 DEF ReleaseTerminates, PersistQueueThrows
<1> QED
  BY <1>1, <1>2, RestartLoss

-----------------------------------------------------------------------------
(* Steps that persist a queue *)

\* The last reference to a session may go with the step.
LEMMA ReleaseLoss ==
  ASSUME DeliveryInv, LossInv, NEW s \in SessionIds, NEW refs,
         Release(s, refs), outbox' = outbox, offered' = offered,
         EvLossStep, AkLossStep
  PROVE  LossInv'
<1>0. TypeOK
  BY DEF DeliveryInv, WellFormed
<1>1. RowsFrom({}, NoSession, {}, {}) /\ SessionsFrom(NoSession, {})
  BY <1>0, PersistFlow
<1>2. NothingDropped /\ OldRowsSame
  BY <1>0, PersistKeeps, RowsSame
<1> QED
  BY <1>1, <1>2, LossSaved

\* A queue is persisted, to the end or in part, and the session may be marked
\* offline.
LEMMA PersistLoss ==
  ASSUME DeliveryInv, LossInv, NEW s \in SessionIds,
         NEW n \in 0..Len(sessions[s].queue),
         PersistQueueThrows(s, n)
           \/ (PersistQueue(s) /\ n = Len(sessions[s].queue)),
         \/ sessions' = Popped(sessions, s, sessions[s].queue, n)
         \/ sessions' = MarkOffline(Popped(sessions, s,
                                           sessions[s].queue, n), s),
         outbox' = outbox, offered' = offered, EvLossStep, AkLossStep
  PROVE  LossInv'
<1>0. TypeOK
  BY DEF DeliveryInv, WellFormed
<1>1. RowsFrom({}, NoSession, {}, {}) /\ OldRowsSame
  BY <1>0, PersistFlow, RowsSame
<1>2. SessionsFrom(NoSession, {})
  BY <1>0, SessionFlow
<1>3. messages' = Persisted(messages, sessions[s].name, sessions[s].queue, n)
  BY DEF PersistQueue, PersistQueueThrows
<1>4. NothingDropped
  BY <1>0, <1>3, PersistKeeps
<1> QED
  BY <1>1, <1>2, <1>4, LossSaved

LEMMA EvPersistLoss ==
  ASSUME DeliveryInv, LossInv, EndsClean
  PROVE  /\ \A s \in SessionIds : EvRelease(s) => LossInv'
         /\ EvUnregPersist => LossInv'
         /\ EvOffFlush => LossInv'
<1>0. ev \in EvState /\ TypeOK
  BY DEF DeliveryInv, WellFormed, TypeOK
<1>1. ASSUME NEW s \in SessionIds, EvRelease(s) PROVE LossInv'
  <2> DEFINE refs == Registered \cup {ak.sess}
  <2>1. CASE ReleaseTerminates(s, refs)
    BY <2>1, ReleaseTerminatesLoss
  <2>2. CASE /\ Release(s, refs)
             /\ ev' = [ev EXCEPT !.refs = @ \ {s}]
             /\ EvFrame
             /\ outbox' = outbox
    <3>1. ev'.pc = "done" /\ ev.pc = "done"
      BY <1>0, <1>1, <2>2 DEF EvRelease, EvState
    <3>2. EvLossStep
      BY <3>1, EvQuiet DEF Marking
    <3> QED
      BY <2>2, <3>2, EvFrameLoss, ReleaseLoss
  <2> QED
    BY <1>1, <2>1, <2>2 DEF EvRelease
<1>2. ASSUME EvUnregPersist PROVE LossInv'
  <2>0. PICK s \in SessionIds : s = ev.sess
    BY <1>2 DEF EvUnregPersist, DeliveryInv, WellFormed, EvRefsOK
  <2>1. EvFrame /\ outbox' = outbox /\ ev.pc = "uPersist"
    BY <1>2 DEF EvUnregPersist
  <2>2. ev'.pc \in {"uRemove", "done"}
    BY <1>0, <1>2 DEF EvUnregPersist, EvGoto, EvFinish, IdleEv, EvState
  <2>3. EvLossStep
    BY <2>1, <2>2, EvQuiet DEF Marking
  <2>4. offered' = offered /\ AkLossStep
    BY <2>1, EvFrameLoss
  <2>5. Len(sessions[s].queue) \in 0..Len(sessions[s].queue)
    BY <1>0, LenProperties DEF TypeOK, SessionsTypeOK, Session
  <2>6. CASE /\ PersistQueue(s)
             /\ sessions' = MarkOffline(Popped(sessions, s, sessions[s].queue,
                                               Len(sessions[s].queue)), s)
    BY <2>1, <2>3, <2>4, <2>5, <2>6, PersistLoss
  <2>7. CASE \E n \in 0..Len(sessions[s].queue) :
               /\ PersistQueueThrows(s, n)
               /\ sessions' = Popped(sessions, s, sessions[s].queue, n)
    BY <2>1, <2>3, <2>4, <2>7, PersistLoss
  <2> QED
    BY <1>2, <2>0, <2>6, <2>7 DEF EvUnregPersist
<1>3. ASSUME EvOffFlush PROVE LossInv'
  <2>0. PICK s \in SessionIds : s = ev.sess
    BY <1>3 DEF EvOffFlush, DeliveryInv, WellFormed, EvRefsOK
  <2>1. EvFrame /\ ev.pc = "offFlush" /\ messages' = messages /\ FlushQueue(s)
    BY <1>3, <2>0 DEF EvOffFlush, storeVars
  <2>2. ev'.pc = "repLoad"
    BY <1>0, <1>3 DEF EvOffFlush, EvGoto, EvState
  <2>3. EvLossStep
    BY <2>1, <2>2, EvQuiet DEF Marking
  <2>4. offered' = offered /\ AkLossStep
    BY <2>1, EvFrameLoss
  <2>5. RowsFrom({}, NoSession, {}, {}) /\ OldRowsSame
    BY <1>0, <2>1, StoreFlow, RowsSame
  <2>6. SessionsFrom(NoSession, {}) /\ NothingDropped
    BY <1>0, <2>1, <2>4, FlushFlow, FlushKeeps
  <2> QED
    BY <2>3, <2>4, <2>5, <2>6, LossSaved
<1> QED
  BY <1>1, <1>2, <1>3

\* UpsertClient adds rows for what the replaced session had queued.
LEMMA UpsertSame ==
  ASSUME DeliveryInv, EvUpsert
  PROVE  OldRowsSame
<1>0. /\ ev \in EvState /\ TypeOK /\ messages \in Seq(Row)
      /\ ev.msg.sender \in Names \cup {NoName}
  BY DEF DeliveryInv, WellFormed, TypeOK, StorageTypeOK, EvState, Message
<1> DEFINE old == FindSession(ev.msg.sender)
           q == IF old = NoSession THEN <<>> ELSE sessions[old].queue
<1>1. old \in SessionIds \cup {NoSession}
  BY <1>0, FoundSession
<1>2. PICK p \in Seq(Message), name \in Names \cup {NoName} :
        p = q /\ name = ev.msg.sender
  BY <1>0, <1>1, EmptySeq DEF TypeOK, SessionsTypeOK, Session
<1>3. Len(p) \in 0..Len(p)
  BY LenProperties
<1>4. CASE messages' = Persisted(messages, ev.msg.sender, q, Len(q))
  <2> HIDE DEF q
  <2>1. messages' = Persisted(messages, name, p, Len(p))
    BY <1>2, <1>4
  <2>2. \A i \in DOMAIN messages :
          Persisted(messages, name, p, Len(p))[i] = messages[i]
    BY <1>0, <1>3, PersistedSame
  <2> QED
    BY <2>1, <2>2 DEF OldRowsSame
<1>5. ASSUME old # NoSession, NEW n \in 0..Len(q), PersistQueueThrows(old, n)
      PROVE  OldRowsSame
  BY <1>0, <1>1, <1>5, RowsSame
<1> QED
  BY <1>4, <1>5 DEF EvUpsert

LEMMA EvUpsertLoss ==
  ASSUME DeliveryInv, LossInv, EvUpsert
  PROVE  LossInv'
<1>0. ev \in EvState
  BY DEF DeliveryInv, WellFormed, TypeOK
<1>1. RowsFrom({}, NoSession, {}, {}) /\ SessionsFrom(NoSession, {})
  BY UpsertFlow
<1>2. NothingDropped
  BY UpsertKeeps
<1>3. OldRowsSame
  BY UpsertSame
<1>4. ev.pc = "upsert" /\ ev'.pc \in {"offLoad", "done"} /\ EvFrame
  BY <1>0 DEF EvUpsert, EvFinish, IdleEv, EvState
<1>5. EvLossStep
  BY <1>4, EvQuiet DEF Marking
<1> QED
  BY <1>1, <1>2, <1>3, <1>4, <1>5, EvFrameLoss, LossSaved

LEMMA EvStepLoss ==
  ASSUME DeliveryInv, LossInv, EndsClean, EvStep
  PROVE  LossInv'
BY EvLocalLoss, EvNextLoss, EvMarkLoss, EvReplySentLoss, EvSaveLoss, EvAckLoss,
   EvSendLoss, EvPersistLoss, EvUpsertLoss
   DEF EvStep, EvRegister, EvMessage, EvReply, EvAck, EvUnregister

-----------------------------------------------------------------------------
(* The timers and the socket *)

LEMMA AkLoss ==
  ASSUME DeliveryInv, LossInv, EndsClean, AkLoad \/ AkStep
  PROVE  LossInv'
<1>0. /\ ak \in AkState /\ TypeOK /\ ak.todo \subseteq DOMAIN messages
  BY DEF DeliveryInv, WellFormed, TypeOK, AkRefsOK
<1>1. ASSUME AkFrame PROVE EvLossStep /\ offered' = offered
  BY <1>1, EvRests DEF AkFrame, auxVars
<1>2. CASE AkLoad
  <2>1. /\ AkFrame /\ UNCHANGED <<messages, sessions, outbox>>
    BY <1>2 DEF AkLoad, storeVars, sessVars
  <2>2. PICK old \in DOMAIN messages :
          \E ids \in Prefixes(LoadExpiredSent(messages, old)) :
            ak' = [ak EXCEPT !.pc = "next", !.todo = ids]
    BY <1>2 DEF AkLoad
  <2>3. PICK ids \in Prefixes(LoadExpiredSent(messages, old)) :
          ak' = [ak EXCEPT !.pc = "next", !.todo = ids]
    BY <2>2
  <2>4. ak'.pc = "next" /\ ak'.todo = ids
    BY <1>0, <2>3 DEF AkState
  <2>5. \A i \in ids : i \in DOMAIN messages /\ messages[i].status = "SENT"
    BY PrefixSubset DEF LoadExpiredSent
  <2>6. AkLossStep
    BY <2>4, <2>5 DEF AkLossStep, LossInv, RowsHanded
  <2> QED
    BY <1>1, <2>1, <2>6, LossLocal
<1>3. CASE AkNext
  <2>1. AkFrame /\ sessions' = sessions /\ outbox' = outbox /\ UNCHANGED sessVars
    BY <1>3 DEF AkNext, sessVars
  <2>2. CASE ak' = IdleAk /\ messages' = messages
    <3>1. AkLossStep
      BY <2>2, AkRests DEF IdleAk
    <3> QED
      BY <1>1, <2>1, <2>2, <3>1, LossLocal
  <2>3. ASSUME NEW i \in ak.todo, messages' = MarkPending(messages, i),
               ak' = [ak EXCEPT !.pc = "find", !.id = i, !.todo = @ \ {i}]
        PROVE  LossInv'
    <3>1. ak'.pc = "find" /\ ak'.id = i /\ ak'.todo \subseteq ak.todo
      BY <1>0, <2>3 DEF AkState
    <3>2. i \in DOMAIN messages /\ \A k \in ak.todo : Entrusted(k)
      BY <1>0 DEF LossInv, AkHanded
    <3>3. AkLossStep
      BY <1>0, <3>1, <3>2 DEF AkLossStep
    <3>4. NothingDropped /\ SessionsFrom(NoSession, {})
      BY <1>1, <2>1, SameQueues, SessionsSame
    <3> QED
      BY <1>1, <2>1, <2>3, <3>3, <3>4, LossMark
  <2> QED
    BY <1>3, <2>2, <2>3 DEF AkNext
<1>4. CASE AkFind
  <2>1. AkFrame /\ UNCHANGED <<messages, sessions, outbox>> /\ ak.pc = "find"
    BY <1>4 DEF AkFind, storeVars, sessVars
  <2>2. /\ ak'.pc \in {"sent", "next"} /\ ak'.todo = ak.todo
        /\ ak'.pc = "sent" => ak'.id = ak.id
    BY <1>0, <1>4 DEF AkFind, AkState
  <2>3. AkLossStep
    BY <2>1, <2>2, AkRests
  <2> QED
    BY <1>1, <2>1, <2>3, LossLocal
<1>5. CASE AkSent
  <2>1. AkFrame /\ sessions' = sessions /\ outbox' = outbox /\ UNCHANGED sessVars
    BY <1>5 DEF AkSent, sessVars
  <2>2. ak'.pc = "send" /\ ak'.todo = ak.todo
    BY <1>0, <1>5 DEF AkSent, AkGoto, AkState
  <2>3. AkLossStep
    BY <2>2, AkRests
  <2>4. PICK i : i = ak.id /\ Entrusted(i)
    BY <1>5 DEF AkSent, LossInv, AkHanded
  <2>5. messages' = MarkSent(messages, i)
    BY <1>5, <2>4 DEF AkSent
  <2>6. NothingDropped /\ SessionsFrom(NoSession, {})
    BY <1>1, <2>1, SameQueues, SessionsSame
  <2> QED
    BY <1>1, <2>1, <2>3, <2>4, <2>5, <2>6, LossMark
<1>6. CASE AkSend
  <2>1. /\ SessionOf(ak.sess, messages[ak.id].msg.dest)
        /\ ak.id \in DOMAIN messages /\ ak.sess \in SessionIds
    BY <1>6 DEF AkSend, DeliveryInv, AkKnows, AkSending, WellFormed, AkRefsOK
  <2>2. PICK s \in SessionIds, m \in Message :
          s = ak.sess /\ m = messages[ak.id].msg
    BY <1>0, <2>1, RowMessage
  <2>3. Born(s) /\ m.dest = sessions[s].name /\ SendMessage(s, m)
    BY <1>6, <2>1, <2>2 DEF SessionOf, AkSend
  <2>4. AkFrame /\ ak'.pc = "release" /\ ak'.todo = ak.todo
    BY <1>0, <1>6 DEF AkSend, AkGoto, AkState
  <2>5. AkLossStep
    BY <2>4, AkRests
  <2> QED
    BY <1>1, <2>3, <2>4, <2>5, LossSend
<1>7. CASE AkRelease
  <2> DEFINE refs == Registered \cup ev.refs
  <2>1. PICK s \in SessionIds : s = ak.sess
    BY <1>7 DEF AkRelease, DeliveryInv, WellFormed, AkRefsOK
  <2>2. CASE ReleaseTerminates(s, refs)
    BY <2>2, ReleaseTerminatesLoss
  <2>3. CASE /\ Release(s, refs)
             /\ ak' = [ak EXCEPT !.pc = "next", !.id = 0, !.sess = NoSession]
             /\ AkFrame /\ outbox' = outbox
    <3>1. ak'.pc = "next" /\ ak'.todo = ak.todo
      BY <1>0, <2>3 DEF AkState
    <3>2. AkLossStep
      BY <3>1, AkRests
    <3> QED
      BY <1>1, <2>3, <3>2, ReleaseLoss
  <2> QED
    BY <1>7, <2>1, <2>2, <2>3 DEF AkRelease
<1>8. CASE AkTerminates
  BY <1>8, RestartLoss DEF AkTerminates, AkThrows
<1> QED
  BY <1>2, <1>3, <1>4, <1>5, <1>6, <1>7, <1>8 DEF AkStep

LEMMA ClLoss ==
  ASSUME DeliveryInv, LossInv, EndsClean, ClStart \/ ClStep
  PROVE  LossInv'
<1>0. TypeOK /\ sessions \in [SessionIds -> Session]
  BY DEF DeliveryInv, WellFormed, TypeOK, SessionsTypeOK
<1>1. ASSUME ClFrame PROVE EvLossStep /\ AkLossStep /\ offered' = offered
  BY <1>1, EvRests, AkRests DEF ClFrame, auxVars
<1>2. CASE ClStart \/ ClSwept \/ ClEnd
  <2>1. ClFrame /\ UNCHANGED <<messages, sessions, outbox>>
    BY <1>2 DEF ClStart, ClSwept, ClEnd, storeVars, sessVars
  <2> QED
    BY <1>1, <2>1, LossLocal
<1>3. ASSUME NEW n \in Names, ClVisit(n) PROVE LossInv'
  <2>1. PICK s \in SessionIds : s = active[n]
    BY <1>3 DEF ClVisit, DeliveryInv, WellFormed, ClRefsOK
  <2>2. /\ ClFrame /\ messages' = messages /\ outbox' = outbox
        /\ sessions' = sessions \/ sessions' = MarkOffline(sessions, s)
    BY <1>3, <2>1 DEF ClVisit, storeVars
  <2>3. ASSUME NEW r \in SessionIds
        PROVE  sessions'[r].queue = sessions[r].queue
    <3>1. CASE sessions' = sessions
      BY <3>1
    <3>2. CASE sessions' = MarkOffline(sessions, s)
      BY <1>0, <3>2 DEF MarkOffline, Session
    <3> QED
      BY <2>2, <3>1, <3>2
  <2>4. NothingDropped
    BY <1>1, <2>2, <2>3, SameQueues
  <2>5. RowsFrom({}, NoSession, {}, {}) /\ OldRowsSame
    BY <1>0, <2>2, StoreFlow, RowsSame
  <2>6. SessionsFrom(NoSession, {})
    BY <1>0, <2>2, SessionFlow
  <2> QED
    BY <1>1, <2>2, <2>4, <2>5, <2>6, LossSaved
<1>4. CASE ClPersist
  <2>1. PICK s \in SessionIds : s = active[cl.cur]
    BY <1>4 DEF ClPersist, DeliveryInv, WellFormed, ClRefsOK
  <2>2. Len(sessions[s].queue) \in 0..Len(sessions[s].queue)
    BY <1>0, LenProperties DEF Session
  <2>3. CASE /\ PersistQueue(s)
             /\ sessions' = Popped(sessions, s, sessions[s].queue,
                                   Len(sessions[s].queue))
             /\ ClFrame /\ outbox' = outbox
    BY <1>1, <2>2, <2>3, PersistLoss
  <2>4. CASE /\ \E n \in 0..Len(sessions[s].queue) : PersistQueueThrows(s, n)
             /\ Restart
    <3>1. DbMayFail
      BY <2>4 DEF PersistQueueThrows
    <3> QED
      BY <2>4, <3>1, RestartLoss
  <2> QED
    BY <1>4, <2>1, <2>3, <2>4 DEF ClPersist
<1>5. ASSUME NEW n \in Names, ClErase(n) PROVE LossInv'
  <2>1. PICK s \in SessionIds : s = active[n]
    BY <1>5 DEF ClErase, DeliveryInv, WellFormed, ClRefsOK
  <2> DEFINE refs == (Registered \ {s}) \cup ev.refs \cup {ak.sess}
  <2>2. CASE ReleaseTerminates(s, refs)
    BY <2>2, ReleaseTerminatesLoss
  <2>3. CASE Release(s, refs) /\ ClFrame /\ outbox' = outbox
    BY <1>1, <2>3, ReleaseLoss
  <2> QED
    BY <1>5, <2>1, <2>2, <2>3 DEF ClErase
<1> QED
  BY <1>2, <1>3, <1>4, <1>5 DEF ClStep

LEMMA TransmitLoss ==
  ASSUME DeliveryInv, LossInv, Transmit
  PROVE  LossInv'
<1>0. TypeOK
  BY DEF DeliveryInv, WellFormed
<1>1. /\ SessionsFrom(NoSession, {}) /\ messages' = messages
      /\ ev' = ev /\ ak' = ak
  BY <1>0, TransmitFlow
<1>2. NothingDropped
  BY <1>0, TransmitKeeps
<1>3. RowsFrom({}, NoSession, {}, {}) /\ OldRowsSame
  BY <1>0, <1>1, StoreFlow, RowsSame
<1>4. EvLossStep /\ AkLossStep
  BY <1>1, EvRests, AkRests
<1> QED
  BY <1>1, <1>2, <1>3, <1>4, LossSaved

-----------------------------------------------------------------------------
(* Nothing is lost *)

LEMMA InitLoss == Init => LossInv
<1> SUFFICES ASSUME Init PROVE LossInv
  OBVIOUS
<1>1. /\ messages = <<>> /\ outbox = <<>> /\ ev.pc = "idle" /\ ak.pc = "idle"
      /\ ak.todo = {} /\ sessions = [s \in SessionIds |-> Unborn]
  BY DEF Init, StorageInit, SessionsInit, IdleEv, IdleAk
<1>2. DOMAIN messages = {} /\ DOMAIN outbox = {}
  BY <1>1
<1>3. \A s \in SessionIds : DOMAIN sessions[s].queue = {}
  BY <1>1 DEF Unborn
<1> QED
  BY <1>1, <1>2, <1>3 DEF LossInv, Addressed, RowsHanded, EvHanded, AkHanded,
                          Carried

LEMMA StepLoss == DeliveryInv /\ LossInv /\ EndsClean /\ [Next]_vars => LossInv'
<1> SUFFICES ASSUME DeliveryInv, LossInv, EndsClean, [Next]_vars PROVE LossInv'
  OBVIOUS
<1>1. CASE \E m \in Requests : Receive(m)
  BY <1>1, EvLocalLoss
<1>2. CASE EvStep
  BY <1>2, EvStepLoss
<1>3. CASE AkLoad \/ AkStep
  BY <1>3, AkLoss
<1>4. CASE ClStart \/ ClStep
  BY <1>4, ClLoss
<1>5. CASE Transmit
  BY <1>5, TransmitLoss
<1>6. CASE Crash
  BY <1>6, RestartLoss DEF Crash
<1>7. CASE UNCHANGED vars
  <2>1. /\ UNCHANGED <<messages, sessions, outbox>> /\ offered' = offered
        /\ ev' = ev /\ ak' = ak
    BY <1>7 DEF vars, storeVars, sessVars, auxVars
  <2> QED
    BY <2>1, EvRests, AkRests, LossLocal
<1> QED
  BY <1>1, <1>2, <1>3, <1>4, <1>5, <1>6, <1>7 DEF Next

LEMMA LossInvAccounts ==
  ASSUME DeliveryInv, LossInv
  PROVE  SocketAloneLoses
<1> SUFFICES ASSUME NEW i \in DOMAIN messages, messages[i].status = "DELIVERED"
             PROVE  Accounted(messages[i].msg) \/ GivenToSocket(messages[i].msg)
  BY DEF SocketAloneLoses
<1>1. Handed(i)
  BY DEF LossInv, RowsHanded
<1>2. ASSUME NEW m \in Message, Loose(m), SameMessage(m, messages[i].msg)
      PROVE  Accounted(messages[i].msg) \/ GivenToSocket(messages[i].msg)
  <2>1. CASE m \in offered
    BY <1>2, <2>1 DEF GivenToSocket
  <2>2. ASSUME NEW s \in SessionIds, Carried(s, m)
        PROVE  Accounted(messages[i].msg)
    <3>1. CASE \E j \in DOMAIN outbox : outbox[j] = [sess |-> s, msg |-> m]
      <4>1. PICK j \in DOMAIN outbox : outbox[j] = [sess |-> s, msg |-> m]
        BY <3>1
      <4>2. outbox[j].msg = m
        BY <4>1
      <4> QED
        BY <1>2, <4>2 DEF Accounted
    <3>2. CASE \E j \in DOMAIN sessions[s].queue : sessions[s].queue[j] = m
      BY <1>2, <3>2 DEF Accounted
    <3> QED
      BY <2>2, <3>1, <3>2 DEF Carried
  <2> QED
    BY <1>2, <2>1, <2>2 DEF Loose
<1>3. ASSUME NEW k \in DOMAIN messages, messages[k].status # "DELIVERED",
             SameMessage(messages[k].msg, messages[i].msg)
      PROVE  Accounted(messages[i].msg)
  BY <1>3 DEF Accounted
<1> QED
  BY <1>1, <1>2, <1>3 DEF Handed

\* What the socket was given and a client received is accounted for.
LEMMA ArrivedAccounts ==
  ASSUME SocketAloneLoses, EverySendArrives
  PROVE  NoSilentLoss
<1> SUFFICES ASSUME NEW i \in DOMAIN messages, messages[i].status = "DELIVERED"
             PROVE  Accounted(messages[i].msg)
  BY DEF NoSilentLoss
<1>1. CASE Accounted(messages[i].msg)
  BY <1>1
<1>2. CASE GivenToSocket(messages[i].msg)
  <2>1. PICK x \in offered : SameMessage(x, messages[i].msg)
    BY <1>2 DEF GivenToSocket
  <2>2. PICK r \in received : r.msg = x
    BY DEF EverySendArrives
  <2> QED
    BY <2>1, <2>2 DEF Accounted
<1> QED
  BY <1>1, <1>2 DEF SocketAloneLoses

\* While no write fails and the process does not crash, nothing but the socket
\* loses a message: what the store calls DELIVERED was received, is on its way in
\* memory, waits in another row, or was given to the socket, which refused or
\* dropped it.  Sessions may be replaced, expire and be destroyed under the
\* handler or the retry that sends to them (Session::SendMessage, ~Session,
\* Router::PersistMessageForClient).
THEOREM NothingLost == ~DbMayFail /\ ~MayCrash => (Spec => []SocketAloneLoses)
<1> SUFFICES ASSUME ~DbMayFail, ~MayCrash PROVE Spec => []SocketAloneLoses
  OBVIOUS
<1>1. EndsClean
  BY DEF EndsClean
<1>2. Init => DeliveryInv /\ LossInv
  BY InitInv, InitLoss
<1>3. DeliveryInv /\ LossInv /\ [Next]_vars => (DeliveryInv /\ LossInv)'
  BY <1>1, StepInv, StepLoss
<1>4. DeliveryInv /\ LossInv => SocketAloneLoses
  BY LossInvAccounts
<1> QED
  BY <1>2, <1>3, <1>4, PTL DEF Spec

\* With writes that fail too, nothing but the socket loses a message as long as
\* the process ends, in a crash or by an exception in a timer or in ~Session,
\* only while neither the send queue nor the queue of a session holds a message
\* and no handler is about to send one.
THEOREM CleanEndsLoseNothing ==
  Spec /\ [][Restart => NothingInMemory]_vars => []SocketAloneLoses
<1>1. Init => DeliveryInv /\ LossInv
  BY InitInv, InitLoss
<1>2. DeliveryInv /\ LossInv /\ [Next]_vars /\ [Restart => NothingInMemory]_vars
        => (DeliveryInv /\ LossInv)'
  <2> SUFFICES ASSUME DeliveryInv, LossInv, [Next]_vars,
                      [Restart => NothingInMemory]_vars
               PROVE  LossInv'
    BY StepInv
  <2>1. CASE Restart => NothingInMemory
    BY <2>1, StepLoss DEF EndsClean
  <2>2. CASE UNCHANGED vars
    <3>1. /\ UNCHANGED <<messages, sessions, outbox>> /\ offered' = offered
          /\ ev' = ev /\ ak' = ak
      BY <2>2 DEF vars, storeVars, sessVars, auxVars
    <3> QED
      BY <3>1, EvRests, AkRests, LossLocal
  <2> QED
    BY <2>1, <2>2
<1>3. DeliveryInv /\ LossInv => SocketAloneLoses
  BY LossInvAccounts
<1> QED
  BY <1>1, <1>2, <1>3, PTL DEF Spec

\* The two ways to lose a message are the only ones.  Where every message that
\* the socket is given reaches its client, and the process ends only while
\* nothing is in memory alone, no message that the store calls DELIVERED is lost,
\* whatever writes fail and whatever becomes of sessions and rows meanwhile.
THEOREM TwoWaysToLose ==
  Spec /\ []EverySendArrives /\ [][Restart => NothingInMemory]_vars
    => []NoSilentLoss
<1>1. SocketAloneLoses /\ EverySendArrives => NoSilentLoss
  BY ArrivedAccounts
<1> QED
  BY <1>1, CleanEndsLoseNothing, PTL

-----------------------------------------------------------------------------
(* What a step does to the backlog *)

\* The step brings no client online.
NoneComesOnline == \A n \in Names : ClientOnline(n)' => ClientOnline(n)

NoneRevived ==
  \A s \in SessionIds :
    sessions'[s].status = "online" => sessions[s].status = "online"

\* The rows that become PENDING are copies, or somebody takes care of them.
NewWaitCovered ==
  \A i \in DOMAIN messages' : Neglected(i)' =>
    \/ i \in DOMAIN messages /\ Waiting(i)
    \/ IsCopy(i)' \/ EvCares(i)' \/ AkCares(i)'

\* Who takes care of a row does so until there is no need to.
CareKept ==
  \A i \in DOMAIN messages : Neglected(i)' =>
    /\ EvCares(i) => EvCares(i)'
    /\ AkCares(i) => AkCares(i)'

\* A copy stays one.
LEMMA CopyStays ==
  ASSUME DeliveryInv, NEW done, Later(messages, messages', done),
         NEW i \in DOMAIN messages, IsCopy(i)
  PROVE  IsCopy(i)'
<1>1. PICK j \in 1..(i - 1) : messages[j].msg = messages[i].msg
  BY DEF IsCopy
<1>2. messages \in Seq(Row)
  BY DEF DeliveryInv, WellFormed, TypeOK, StorageTypeOK
<1>3. j \in DOMAIN messages
  BY <1>2, LenProperties
<1>4. messages'[j].msg = messages[j].msg /\ messages'[i].msg = messages[i].msg
  BY <1>3 DEF Later
<1> QED
  BY <1>1, <1>4 DEF IsCopy

LEMMA BacklogStep ==
  ASSUME DeliveryInv, BacklogInv, NEW done, Later(messages, messages', done),
         NoneComesOnline, NewWaitCovered, CareKept, EvFound'
  PROVE  BacklogInv'
<1> SUFFICES ASSUME NEW i \in DOMAIN messages', Neglected(i)'
             PROVE  IsCopy(i)' \/ EvCares(i)' \/ AkCares(i)'
  BY DEF BacklogInv, BacklogCovered
<1> SUFFICES ASSUME i \in DOMAIN messages, Waiting(i)
             PROVE  IsCopy(i)' \/ EvCares(i)' \/ AkCares(i)'
  BY DEF NewWaitCovered
<1>1. messages'[i].msg = messages[i].msg
  BY DEF Later
<1>2. Neglected(i)
  BY <1>1 DEF Neglected, NoneComesOnline, ClientOnline
<1> QED
  BY <1>2, CopyStays DEF BacklogInv, BacklogCovered, CareKept

\* No client comes online without a session of its own that does.
LEMMA StayOffline ==
  ASSUME TypeOK, NoneRevived,
         \A n \in Names : active'[n] \in {active[n], NoSession}
  PROVE  NoneComesOnline
<1> SUFFICES ASSUME NEW n \in Names, ClientOnline(n)' PROVE ClientOnline(n)
  BY DEF NoneComesOnline
<1>1. active'[n] # NoSession /\ sessions'[active'[n]].status = "online"
  BY DEF ClientOnline, IsOnline
<1>2. active'[n] = active[n] /\ active[n] \in SessionIds
  BY <1>1 DEF TypeOK, SessionsTypeOK
<1> QED
  BY <1>1, <1>2 DEF ClientOnline, IsOnline, NoneRevived

\* No operation on sessions brings one online.
LEMMA SessionsStayOffline ==
  ASSUME TypeOK, NEW s \in SessionIds
  PROVE  /\ sessions' = sessions => NoneRevived
         /\ sessions' = MarkOffline(sessions, s) => NoneRevived
         /\ \A q, n : (\/ sessions' = Popped(sessions, s, q, n)
                       \/ sessions' = MarkOffline(Popped(sessions, s, q, n), s))
                      => NoneRevived
         /\ FlushQueue(s) => NoneRevived
         /\ \A m : SendMessage(s, m) => NoneRevived
         /\ \A refs : Release(s, refs) => NoneRevived
<1>0. sessions \in [SessionIds -> Session]
  BY DEF TypeOK, SessionsTypeOK
<1>1. sessions' = sessions => NoneRevived
  BY DEF NoneRevived
<1>2. sessions' = MarkOffline(sessions, s) => NoneRevived
  BY <1>0 DEF NoneRevived, MarkOffline, Session
<1>3. ASSUME NEW q, NEW n, sessions' = Popped(sessions, s, q, n)
      PROVE  NoneRevived
  BY <1>0, <1>3 DEF NoneRevived, Popped, Session
<1>4. ASSUME NEW q, NEW n,
             sessions' = MarkOffline(Popped(sessions, s, q, n), s)
      PROVE  NoneRevived
  BY <1>0, <1>4 DEF NoneRevived, MarkOffline, Popped, Session
<1>5. FlushQueue(s) => NoneRevived
  BY <1>1, <1>3 DEF FlushQueue
<1>6. ASSUME NEW m, SendMessage(s, m) PROVE NoneRevived
  BY <1>1, <1>3, <1>6 DEF SendMessage, EnqueueMessage
<1>7. ASSUME NEW refs, Release(s, refs) PROVE NoneRevived
  <2>1. CASE sessions' = sessions
    BY <1>1, <2>1
  <2>2. CASE Destroy(s)
    BY <1>0, <2>2 DEF NoneRevived, Destroy, Session
  <2> QED
    BY <1>7, <2>1, <2>2 DEF Release
<1> QED
  BY <1>1, <1>2, <1>3, <1>4, <1>5, <1>6, <1>7

\* A row that is saved for a message on its way to a client is a copy.
LEMMA SavedCopies ==
  ASSUME DeliveryInv, NEW to, NEW sent, RowsFrom({}, to, sent, {}),
         \A m \in sent : m.type = "Message" =>
           /\ m.dest = sessions[to].name
           /\ \E j \in DOMAIN messages : messages[j].msg = m,
         OldRowsSame
  PROVE  NewWaitCovered
<1> SUFFICES ASSUME NEW i \in DOMAIN messages' \ DOMAIN messages, Waiting(i)'
             PROVE  IsCopy(i)'
  BY DEF NewWaitCovered, OldRowsSame, Neglected, Waiting
<1>0. TypeOK /\ messages \in Seq(Row) /\ messages' \in Seq(Row)
      /\ sessions \in [SessionIds -> Session]
  BY DEF DeliveryInv, WellFormed, TypeOK, StorageTypeOK, SessionsTypeOK,
         RowsFrom, Later, Grown
<1>1. PICK s \in SessionIds, m \in Message :
        /\ Carried(s, m) \/ (s = to /\ m \in sent)
        /\ messages'[i].msg = Copy(m, sessions[s].name)
  BY DEF RowsFrom
<1>2. m.type = "Message"
  BY <1>1 DEF Copy, Waiting, Message
<1>3. m.dest = sessions[s].name /\ \E j \in DOMAIN messages : messages[j].msg = m
  <2>1. CASE Carried(s, m)
    <3>1. PICK name \in Names \cup {NoName} : name = sessions[s].name
      BY <1>0 DEF Session
    <3>2. Sendable(m, name)
      BY <2>1, <3>1 DEF DeliveryInv, CarriedSendable
    <3> QED
      BY <1>2, <3>1, <3>2 DEF Sendable
  <2>2. CASE s = to /\ m \in sent
    BY <1>2, <2>2
  <2> QED
    BY <1>1, <2>1, <2>2
<1>4. messages'[i].msg = m
  BY <1>1, <1>3 DEF Copy, Message
<1>5. PICK j \in DOMAIN messages : messages[j].msg = m
  BY <1>3
<1>6. messages'[j].msg = m
  BY <1>5 DEF OldRowsSame
<1>7. j \in 1..(i - 1)
  <2>1. i > j
    BY <1>0, NewRowsLast
  <2> QED
    BY <1>0, <2>1, LenProperties
<1> QED
  BY <1>4, <1>6, <1>7 DEF IsCopy

LEMMA PersistedCopies ==
  ASSUME DeliveryInv, RowsFrom({}, NoSession, {}, {}), OldRowsSame
  PROVE  Later(messages, messages', {}) /\ NewWaitCovered
<1>1. NewWaitCovered
  BY SavedCopies
<1>2. Later(messages, messages', {})
  BY DEF RowsFrom
<1> QED
  BY <1>1, <1>2

\* UPDATE brings a row back only from SENT.
LEMMA MarkedRows ==
  ASSUME TypeOK, NEW id
  PROVE  /\ messages' = messages => NewWaitCovered
         /\ messages' = MarkDelivered(messages, id) =>
              /\ NewWaitCovered
              /\ id \in DOMAIN messages => ~Waiting(id)'
         /\ messages' = MarkSent(messages, id) =>
              /\ NewWaitCovered
              /\ id \in DOMAIN messages => ~Waiting(id)'
         /\ messages' = MarkPending(messages, id) =>
              /\ DOMAIN messages' = DOMAIN messages
              /\ \A i \in DOMAIN messages : Waiting(i)' => Waiting(i) \/ i = id
<1>0. messages \in Seq(Row)
  BY DEF TypeOK, StorageTypeOK
<1>1. messages' = messages => NewWaitCovered
  BY DEF NewWaitCovered, Neglected, Waiting
<1>2. ASSUME NEW i \in DOMAIN messages PROVE messages[i].status \in Status
  <2>1. messages[i] \in Row
    BY <1>0, ElementOfSeq
  <2> QED
    BY <2>1 DEF Row
<1>3. ASSUME messages' = MarkDelivered(messages, id)
      PROVE  NewWaitCovered /\ (id \in DOMAIN messages => ~Waiting(id)')
  <2>1. /\ DOMAIN messages' = DOMAIN messages
        /\ \A i \in DOMAIN messages :
             /\ messages'[i].msg = messages[i].msg
             /\ messages'[i].status = IF i = id /\ messages[i].status \in Status
                                      THEN "DELIVERED" ELSE messages[i].status
    BY <1>0, <1>3, UpdateRows DEF MarkDelivered, Status
  <2> QED
    BY <1>2, <2>1 DEF NewWaitCovered, Neglected, Waiting
<1>4. ASSUME messages' = MarkSent(messages, id)
      PROVE  NewWaitCovered /\ (id \in DOMAIN messages => ~Waiting(id)')
  <2>1. /\ DOMAIN messages' = DOMAIN messages
        /\ \A i \in DOMAIN messages :
             /\ messages'[i].msg = messages[i].msg
             /\ messages'[i].status =
                  IF i = id /\ messages[i].status \in {"PENDING"}
                  THEN "SENT" ELSE messages[i].status
    BY <1>0, <1>4, UpdateRows DEF MarkSent, Status
  <2> QED
    BY <2>1 DEF NewWaitCovered, Neglected, Waiting
<1>5. ASSUME messages' = MarkPending(messages, id)
      PROVE  /\ DOMAIN messages' = DOMAIN messages
             /\ \A i \in DOMAIN messages : Waiting(i)' => Waiting(i) \/ i = id
  <2>1. /\ DOMAIN messages' = DOMAIN messages
        /\ \A i \in DOMAIN messages :
             /\ messages'[i].msg = messages[i].msg
             /\ messages'[i].status =
                  IF i = id /\ messages[i].status \in {"SENT"}
                  THEN "PENDING" ELSE messages[i].status
    BY <1>0, <1>5, UpdateRows DEF MarkPending, Status
  <2> QED
    BY <2>1 DEF Waiting
<1> QED
  BY <1>1, <1>3, <1>4, <1>5

-----------------------------------------------------------------------------
(* The event callback and the backlog *)

EvCaring == {"corr", "send", "mark", "offLoad", "offNext", "offSend", "offDone"}

\* Another activity's step, to which the event callback's part is left as it is.
LEMMA EvStillCares ==
  ASSUME DeliveryInv, BacklogInv, ev' = ev,
         NEW done, Later(messages, messages', done),
         NoneComesOnline, \A n \in Names : active'[n] \in {active[n], NoSession}
  PROVE  EvFound' /\ \A i \in DOMAIN messages : EvCares(i) => EvCares(i)'
<1>1. ASSUME NEW i \in DOMAIN messages, EvCares(i) PROVE EvCares(i)'
  <2>1. messages'[i].msg = messages[i].msg
    BY DEF Later
  <2> QED
    BY <1>1, <2>1 DEF EvCares
<1>2. ASSUME ev.pc \in {"save", "corr"}, ev.sess = NoSession,
             ClientOnline(ev.msg.dest)'
      PROVE  FALSE
  <2>1. PICK n : n = ev.msg.dest
    OBVIOUS
  <2>2. ClientOnline(n)' /\ n \in Names
    BY <1>2, <2>1 DEF ClientOnline
  <2>3. ~ClientOnline(n)
    BY <1>2, <2>1 DEF BacklogInv, EvFound
  <2> QED
    BY <2>2, <2>3 DEF NoneComesOnline
<1>3. ASSUME ev.pc \in EvBacklog
      PROVE  active'[ev.msg.sender] \in {ev.sess, NoSession}
  <2>1. ev.msg.sender \in Names
    BY <1>3 DEF DeliveryInv, EvKnows, SessionOf
  <2> QED
    BY <1>3, <2>1 DEF BacklogInv, EvFound
<1>4. EvFound'
  BY <1>2, <1>3 DEF EvFound
<1> QED
  BY <1>1, <1>4

\* A step of the event callback outside the handlers that look after rows.
LEMMA EvElsewhere ==
  ASSUME DeliveryInv, BacklogInv, ak' = ak,
         NEW done, Later(messages, messages', done),
         NoneComesOnline, NewWaitCovered,
         ev.pc \notin EvCaring,
         ev'.pc \notin {"save", "corr"} \cup EvBacklog
  PROVE  BacklogInv'
<1>1. CareKept
  BY DEF CareKept, EvCares, AkCares, EvCaring
<1>2. EvFound'
  BY DEF EvFound
<1> QED
  BY <1>1, <1>2, BacklogStep

\* A step of the event callback that looks after its rows.
LEMMA EvLooksAfter ==
  ASSUME DeliveryInv, BacklogInv, EvFrame,
         NEW done, Later(messages, messages', done),
         NoneComesOnline, NewWaitCovered, EvFound',
         \A i \in DOMAIN messages : Neglected(i)' /\ EvCares(i) => EvCares(i)'
  PROVE  BacklogInv'
<1>1. CareKept
  BY DEF CareKept, AkCares, EvFrame
<1> QED
  BY <1>1, BacklogStep

\* Nothing happens to the registry, the sessions and the send queue.
LEMMA SessionsRest ==
  ASSUME TypeOK, UNCHANGED sessVars
  PROVE  NoneComesOnline
<1>1. NoneRevived /\ active' = active
  BY DEF sessVars, NoneRevived
<1> QED
  BY <1>1, StayOffline

LEMMA StoreRests ==
  ASSUME TypeOK, messages' = messages
  PROVE  Later(messages, messages', {}) /\ NewWaitCovered
BY SameRows, MarkedRows DEF TypeOK, StorageTypeOK

\* The steps of the event callback that touch neither rows nor sessions.
LEMMA EvLocalBacklog ==
  ASSUME DeliveryInv, BacklogInv,
         \/ \E m \in Requests : Receive(m)
         \/ EvReturn \/ EvRepLoad \/ EvReplyCorr \/ EvReplyFind \/ EvAckLook
         \/ EvAckReceived \/ EvAckNotify \/ EvUnregFind
  PROVE  BacklogInv'
<1>0. ev \in EvState /\ TypeOK
  BY DEF DeliveryInv, WellFormed, TypeOK
<1>1. messages' = messages /\ UNCHANGED sessVars /\ ak' = ak
  BY DEF Receive, EvReturn, EvRepLoad, EvReplyCorr, EvReplyFind, EvAckLook,
         EvAckReceived, EvAckNotify, EvUnregFind, EvFrame, storeVars
<1>2. ev.pc \in {"idle", "done", "repLoad", "rCorr", "rFind", "aLook",
                 "aReceived", "aNotify", "uFind"}
  BY DEF Receive, EvReturn, EvRepLoad, EvReplyCorr, EvReplyFind, EvAckLook,
         EvAckReceived, EvAckNotify, EvUnregFind
<1>3. ev'.pc \notin {"save", "corr"} \cup EvBacklog
  <2>1. ASSUME NEW m \in Requests, Receive(m)
        PROVE  ev'.pc \notin {"save", "corr"} \cup EvBacklog
    <3>1. ev'.pc = Handler(m) /\ m.type \in Types
      BY <2>1, BrokerAssumption DEF Receive, IdleEv, Message
    <3> QED
      BY <3>1 DEF Handler, EvBacklog, Types
  <2>2. CASE EvReturn \/ EvReplyCorr
    <3>1. EvReturn => ev'.pc = "idle"
      BY DEF EvReturn, IdleEv
    <3>2. EvReplyCorr => ev'.pc \in {"done", "rFind"}
      BY <1>0 DEF EvReplyCorr, EvGoto, EvFinish, IdleEv, EvState
    <3> QED
      BY <2>2, <3>1, <3>2 DEF EvBacklog
  <2>6. CASE EvReplyFind
    <3>1. ev'.pc \in {"done", "rSent", "rSend"}
      BY <1>0, <2>6 DEF EvReplyFind, EvFinish, IdleEv, EvState
    <3> QED
      BY <3>1 DEF EvBacklog
  <2>5. CASE EvRepLoad
    <3>1. \/ ev'.pc = "done"
          \/ \E s, ids : ev' = [ev EXCEPT !.pc = "repNext", !.sess = s,
                                          !.todo = ids]
      BY <2>5 DEF EvRepLoad, EvFinish, IdleEv
    <3>2. ev'.pc \in {"done", "repNext"}
      BY <1>0, <3>1 DEF EvState
    <3> QED
      BY <3>2 DEF EvBacklog
  <2>3. CASE EvAckLook
    BY <1>0, <2>3 DEF EvAckLook, EvFinish, IdleEv, EvState, EvBacklog
  <2>4. CASE EvAckReceived \/ EvAckNotify \/ EvUnregFind
    BY <1>0, <2>4 DEF EvAckReceived, EvAckNotify, EvUnregFind, EvGoto,
                      EvFinish, IdleEv, EvState, EvBacklog
  <2> QED
    BY <2>1, <2>2, <2>3, <2>4, <2>5, <2>6
<1> QED
  BY <1>0, <1>1, <1>2, <1>3, SessionsRest, StoreRests, EvElsewhere DEF EvCaring

\* The steps of the event callback that mark a row of which nobody has to take
\* care, or save a notice or a reply.
LEMMA EvOtherRowsBacklog ==
  ASSUME DeliveryInv, BacklogInv, ~DbMayFail,
         \/ EvRepNext \/ EvRepDone \/ EvReplySave \/ EvReplySent \/ EvReplyMark
         \/ EvReplyRollback \/ EvAckDeliver \/ EvAckSave
  PROVE  BacklogInv'
<1>0. /\ ev \in EvState /\ TypeOK /\ messages \in Seq(Row) /\ ev.msg \in Message
      /\ correlations \subseteq Correlation
  BY DEF DeliveryInv, WellFormed, TypeOK, StorageTypeOK, EvState
<1>1. ak' = ak /\ active' = active /\ ~EvThrows
  BY DEF EvRepNext, EvRepDone, EvReplySave, EvReplySent, EvReplyMark,
         EvReplyRollback, EvAckDeliver, EvAckSave, EvFrame, EvThrows, sessVars
<1>2. NoneComesOnline
  <2>1. CASE EvReplyRollback
    <3>1. PICK s \in SessionIds : s = ev.sess
      BY <2>1 DEF EvReplyRollback, DeliveryInv, WellFormed, EvRefsOK
    <3>2. sessions' = MarkOffline(sessions, s)
      BY <2>1, <3>1 DEF EvReplyRollback
    <3> QED
      BY <1>0, <1>1, <3>2, SessionsStayOffline, StayOffline
  <2>2. CASE UNCHANGED sessVars
    BY <1>0, <2>2, SessionsRest
  <2> QED
    BY <2>1, <2>2 DEF EvRepNext, EvRepDone, EvReplySave, EvReplySent,
                      EvReplyMark, EvAckDeliver, EvAckSave
<1>3. /\ ev.pc \notin EvCaring
      /\ ev'.pc \notin {"save", "corr"} \cup EvBacklog
  <2>1. ev.pc \notin EvCaring
    BY DEF EvRepNext, EvRepDone, EvReplySave, EvReplySent, EvReplyMark,
           EvReplyRollback, EvAckDeliver, EvAckSave, EvCaring
  <2>2. ev'.pc \in {"done", "repSend", "repNext", "rSend", "rollback", "rCorr",
                    "aReceived"}
    <3>1. CASE EvRepNext
      BY <1>0, <1>1, <3>1 DEF EvRepNext, EvFinish, IdleEv, EvState
    <3>2. CASE EvRepDone \/ EvReplySent \/ EvReplyMark
      BY <1>0, <1>1, <3>2 DEF EvRepDone, EvReplySent, EvReplyMark, EvGoto,
                              EvFinish, IdleEv, EvState
    <3>3. CASE EvReplySave
      <4>1. \E i, m : ev' = [ev EXCEPT !.pc = "rCorr", !.id = i, !.msg = m]
        BY <1>1, <3>3 DEF EvReplySave
      <4> QED
        BY <1>0, <4>1 DEF EvState
    <3>4. CASE EvReplyRollback \/ EvAckDeliver \/ EvAckSave
      BY <1>0, <1>1, <3>4 DEF EvReplyRollback, EvAckDeliver, EvAckSave, EvGoto,
                              EvFinish, IdleEv, EvState
    <3> QED
      BY <3>1, <3>2, <3>3, <3>4
  <2> QED
    BY <2>1, <2>2 DEF EvBacklog
<1>4. (\E done : Later(messages, messages', done)) /\ NewWaitCovered
  <2>1. ASSUME NEW m \in Message, m.type # "Message",
               messages' = SaveMessage(messages, m)
        PROVE  Later(messages, messages', {}) /\ NewWaitCovered
    <3>1. /\ Later(messages, messages', {})
          /\ DOMAIN messages' = DOMAIN messages \cup {Len(messages) + 1}
          /\ messages'[Len(messages) + 1] = [msg |-> m, status |-> "PENDING"]
      BY <1>0, <2>1, SaveRows
    <3>2. OldRowsSame
      BY <1>0, <2>1, RowsSame
    <3> QED
      BY <2>1, <3>1, <3>2 DEF NewWaitCovered, Neglected, Waiting, OldRowsSame
  <2>2. CASE EvAckSave
    <3>1. PICK m : m = AckNotification
      OBVIOUS
    <3>2. m \in Message /\ m.type # "Message"
      BY <1>0, <3>1 DEF AckNotification, Message, EvState, Types, Flags
    <3> QED
      BY <1>1, <2>1, <2>2, <3>1, <3>2 DEF EvAckSave
  <2>3. CASE EvReplySave
    <3>1. PICK to : messages' = SaveMessage(messages,
                      [ev.msg EXCEPT !.dest = IF to = NoName THEN @ ELSE to])
                    /\ (to = NoName \/ \E r \in correlations : to = r.owner)
      BY <1>1, <2>3 DEF EvReplySave, FindByCorrelation
    <3>2. PICK m : m = [ev.msg EXCEPT !.dest = IF to = NoName THEN @ ELSE to]
      OBVIOUS
    <3>3. to \in Names \cup {NoName}
      BY <1>0, <3>1 DEF Correlation
    <3>4. m \in Message /\ m.type = ev.msg.type
      BY <1>0, <3>2, <3>3 DEF Message
    <3>5. ev.msg.type = "Reply"
      BY <2>3 DEF EvReplySave, DeliveryInv, EvKnows
    <3> QED
      BY <2>1, <3>1, <3>2, <3>4, <3>5
  <2>4. CASE EvReplyRollback
    <3>1. PICK id : id = ev.id /\ id \in DOMAIN messages
                    /\ messages[id].msg.type = "Reply"
      BY <2>4 DEF EvReplyRollback, DeliveryInv, EvKnows, EvStored
    <3>2. CASE messages' = messages
      BY <1>0, <3>2, StoreRests
    <3>3. CASE messages' = MarkPending(messages, id)
      <4>1. Later(messages, messages', {})
        BY <1>0, <3>3, MarkRows
      <4>2. ~Waiting(id)'
        BY <3>1, <4>1 DEF Waiting, Later
      <4>3. /\ DOMAIN messages' = DOMAIN messages
            /\ \A i \in DOMAIN messages : Waiting(i)' => Waiting(i) \/ i = id
        BY <1>0, <3>3, MarkedRows
      <4> QED
        BY <4>1, <4>2, <4>3 DEF NewWaitCovered, Neglected
    <3> QED
      BY <2>4, <3>1, <3>2, <3>3 DEF EvReplyRollback
  <2>5. CASE EvRepNext \/ EvRepDone \/ EvReplySent \/ EvReplyMark \/ EvAckDeliver
    <3>1. PICK id : \/ messages' = messages
                    \/ messages' = MarkSent(messages, id)
                    \/ messages' = MarkDelivered(messages, id)
      BY <1>1, <2>5 DEF EvRepNext, EvRepDone, EvReplySent, EvReplyMark,
                        EvAckDeliver
    <3>2. CASE messages' = messages
      BY <1>0, <3>2, StoreRests
    <3>3. CASE messages' = MarkSent(messages, id)
      BY <1>0, <3>3, MarkedRows, MarkRows
    <3>4. CASE messages' = MarkDelivered(messages, id)
      BY <1>0, <3>4, MarkedRows, MarkRows
    <3> QED
      BY <3>1, <3>2, <3>3, <3>4
  <2> QED
    BY <2>2, <2>3, <2>4, <2>5
<1> QED
  BY <1>1, <1>2, <1>3, <1>4, EvElsewhere

\* Sending a message whose row is in the store.
LEMMA SendBacklog ==
  ASSUME DeliveryInv, NEW s \in SessionIds, NEW m \in Message, SendMessage(s, m),
         active' = active,
         m.type = "Message" =>
           /\ m.dest = sessions[s].name
           /\ \E j \in DOMAIN messages : messages[j].msg = m
  PROVE  Later(messages, messages', {}) /\ NoneComesOnline /\ NewWaitCovered
<1>0. TypeOK
  BY DEF DeliveryInv, WellFormed
<1>1. RowsFrom({}, s, {m}, {}) /\ OldRowsSame
  BY <1>0, SendFlow, RowsSame
<1>2. NewWaitCovered
  BY <1>1, SavedCopies
<1>3. NoneComesOnline
  BY <1>0, SessionsStayOffline, StayOffline
<1> QED
  BY <1>1, <1>2, <1>3 DEF RowsFrom

LEMMA EvSendBacklog ==
  ASSUME DeliveryInv, BacklogInv,
         EvOffSend \/ EvRepSend \/ EvSend \/ EvReplySend \/ EvAckSend
  PROVE  BacklogInv'
<1>0. ev \in EvState /\ TypeOK /\ ev.sess \in SessionIds /\ ev.msg \in Message
  BY DEF DeliveryInv, WellFormed, TypeOK, EvRefsOK, EvSending, EvState,
         EvOffSend, EvRepSend, EvSend, EvReplySend, EvAckSend
<1>1. EvFrame /\ ak' = ak /\ active' = active
  BY DEF EvOffSend, EvRepSend, EvSend, EvReplySend, EvAckSend, EvFrame
<1>2. PICK s \in SessionIds, i \in Nat : s = ev.sess /\ i = ev.id
  BY <1>0 DEF EvState
<1>3. CASE EvRepSend \/ EvReplySend \/ EvAckSend
  <2>1. PICK m : /\ m = IF ev.pc = "repSend" THEN messages[i].msg
                        ELSE IF ev.pc = "rSend" THEN ev.msg ELSE AckNotification
                 /\ SendMessage(s, m)
    BY <1>2, <1>3 DEF EvRepSend, EvReplySend, EvAckSend
  <2>2. m \in Message /\ m.type # "Message"
    <3>1. CASE EvRepSend
      <4>1. i \in DOMAIN messages /\ messages[i].msg.type = "Reply"
        BY <1>2, <3>1 DEF EvRepSend, DeliveryInv, WellFormed, EvRefsOK, EvKnows,
                          ReplyRow
      <4> QED
        BY <1>0, <2>1, <3>1, <4>1, RowMessage DEF EvRepSend
    <3>2. CASE EvReplySend
      BY <1>0, <2>1, <3>2 DEF EvReplySend, DeliveryInv, EvKnows
    <3>3. CASE EvAckSend
      BY <1>0, <2>1, <3>3 DEF EvAckSend, AckNotification, Message, EvState, Types,
                              Flags
    <3> QED
      BY <1>3, <3>1, <3>2, <3>3
  <2>3. ev.pc \in {"repSend", "rSend", "aSend"}
    BY <1>3 DEF EvRepSend, EvReplySend, EvAckSend
  <2>4. ev'.pc \in {"repDone", "rMark", "done"}
    BY <1>0, <1>3 DEF EvRepSend, EvReplySend, EvAckSend, EvGoto, EvFinish,
                      IdleEv, EvState
  <2> QED
    BY <1>1, <2>1, <2>2, <2>3, <2>4, SendBacklog, EvElsewhere
       DEF EvCaring, EvBacklog
<1>4. CASE EvOffSend \/ EvSend
  <2>1. /\ i \in DOMAIN messages
        /\ messages[i].msg.type # "Reply" =>
             messages[i].msg.dest = sessions[s].name
        /\ SendMessage(s, messages[i].msg)
    <3>1. CASE EvOffSend
      <4>1. /\ SessionOf(ev.sess, ev.msg.sender) /\ BacklogRow(ev.id)
            /\ ev.id \in DOMAIN messages
        BY <3>1 DEF EvOffSend, DeliveryInv, EvKnows, EvBacklog, WellFormed,
                    EvRefsOK
      <4> QED
        BY <1>2, <3>1, <4>1 DEF SessionOf, BacklogRow, EvOffSend
    <3>2. CASE EvSend
      <4>1. /\ SessionOf(ev.sess, ev.msg.dest) /\ messages[ev.id].msg = ev.msg
            /\ ev.id \in DOMAIN messages
        BY <1>0, <3>2, SessionsAssumption
           DEF EvSend, DeliveryInv, EvKnows, EvStored
      <4> QED
        BY <1>2, <3>2, <4>1 DEF SessionOf, EvSend
    <3> QED
      BY <1>4, <3>1, <3>2
  <2>2. PICK m \in Message : m = messages[i].msg
    BY <1>0, <2>1, RowMessage
  <2>3. Later(messages, messages', {}) /\ NoneComesOnline /\ NewWaitCovered
    BY <1>1, <2>1, <2>2, SendBacklog
  <2>4. /\ ev'.id = i /\ ev'.sess = ev.sess /\ ev'.todo = ev.todo
        /\ ev'.msg = ev.msg
        /\ \/ ev.pc = "send" /\ ev'.pc = "mark"
           \/ /\ ev.pc = "offSend"
              /\ ev'.pc = IF NeedsAckFlag(messages[i].msg)
                          THEN "offNext" ELSE "offDone"
    BY <1>0, <1>2, <1>4 DEF EvOffSend, EvSend, EvGoto, EvState
  <2>5. ASSUME NEW k \in DOMAIN messages, EvCares(k) PROVE EvCares(k)'
    <3>1. messages'[k].msg = messages[k].msg
      BY <2>3 DEF Later
    <3> QED
      BY <1>0, <1>2, <2>4, <2>5, <3>1, SessionsAssumption DEF EvCares
  <2>6. EvFound'
    <3>1. ASSUME ev.pc = "offSend"
          PROVE  active[ev.msg.sender] \in {ev.sess, NoSession}
      BY <3>1 DEF BacklogInv, EvFound, EvBacklog
    <3> QED
      BY <1>1, <2>4, <3>1 DEF EvFound, EvBacklog
  <2> QED
    BY <1>1, <2>3, <2>5, <2>6, EvLooksAfter
<1> QED
  BY <1>3, <1>4

\* MessageHandler: the row it saves is its own to look after, unless it found
\* the client offline, and then the client still is.
LEMMA EvMessageBacklog ==
  ASSUME DeliveryInv, BacklogInv, ~DbMayFail,
         EvFind \/ EvSave \/ EvCorr \/ EvMark
  PROVE  BacklogInv'
<1>0. /\ ev \in EvState /\ TypeOK /\ ev.msg \in Message
      /\ messages \in Seq(Row)
  BY DEF DeliveryInv, WellFormed, TypeOK, StorageTypeOK, EvState
<1>1. EvFrame /\ ak' = ak /\ active' = active /\ UNCHANGED sessVars /\ ~EvThrows
  BY DEF EvFind, EvSave, EvCorr, EvMark, EvFrame, EvThrows, sessVars
<1>2. NoneComesOnline
  BY <1>0, <1>1, SessionsRest
<1>3. \A n : ClientOnline(n)' <=> ClientOnline(n)
  BY <1>1 DEF ClientOnline, IsOnline, sessVars
<1>4. CASE EvFind
  <2>1. messages' = messages /\ ev.pc = "find"
    BY <1>4 DEF EvFind, storeVars
  <2>2. PICK s : s = FindSession(ev.msg.dest)
    OBVIOUS
  <2>3. /\ ev'.pc = "save" /\ ev'.msg = ev.msg
        /\ ev'.sess = IF s # NoSession /\ IsOnline(s) THEN s ELSE NoSession
    BY <1>0, <1>4, <2>2 DEF EvFind, EvState
  <2>4. ev'.sess = NoSession => ~ClientOnline(ev.msg.dest)
    BY <2>2, <2>3 DEF ClientOnline, FindSession
  <2>5. EvFound'
    <3>1. PICK d : d = ev.msg.dest
      OBVIOUS
    <3>2. ev'.sess = NoSession => ~ClientOnline(d)'
      BY <1>3, <2>4, <3>1
    <3> QED
      BY <2>3, <3>1, <3>2 DEF EvFound, EvBacklog
  <2>6. \A i \in DOMAIN messages : ~EvCares(i)
    BY <2>1 DEF EvCares
  <2> QED
    BY <1>0, <1>1, <1>2, <2>1, <2>5, <2>6, StoreRests, EvLooksAfter
<1>5. CASE EvSave
  <2>1. messages' = SaveMessage(messages, ev.msg) /\ ev.pc = "save"
    BY <1>1, <1>5 DEF EvSave
  <2>2. PICK new : new = Len(messages) + 1
    OBVIOUS
  <2>3. /\ Later(messages, messages', {})
        /\ DOMAIN messages' = DOMAIN messages \cup {new}
        /\ messages'[new] = [msg |-> ev.msg, status |-> "PENDING"]
    BY <1>0, <2>1, <2>2, SaveRows
  <2>4. OldRowsSame
    BY <1>0, <2>1, RowsSame
  <2>5. \/ ev'.pc = "done" /\ ev.sess = NoSession
        \/ /\ ev'.pc \in {"send", "corr"} /\ ev'.id = new
           /\ ev'.sess = ev.sess /\ ev'.msg = ev.msg
    BY <1>0, <1>1, <1>5, <2>2 DEF EvSave, EvFinish, IdleEv, EvState
  <2>6. PICK d : d = ev.msg.dest
    OBVIOUS
  <2>7. ev.sess = NoSession => ~ClientOnline(d)'
    BY <1>3, <2>1, <2>6 DEF BacklogInv, EvFound
  <2>8. NewWaitCovered
    <3> SUFFICES ASSUME NEW i \in DOMAIN messages', Neglected(i)'
                 PROVE  (i \in DOMAIN messages /\ Waiting(i)) \/ EvCares(i)'
      BY DEF NewWaitCovered
    <3>1. CASE i \in DOMAIN messages
      BY <2>4, <3>1 DEF Neglected, Waiting, OldRowsSame
    <3>2. CASE i = new
      <4>1. ClientOnline(d)'
        BY <2>3, <2>6, <3>2 DEF Neglected, ClientOnline
      <4> QED
        BY <2>5, <2>7, <3>2, <4>1 DEF EvCares
    <3> QED
      BY <2>3, <3>1, <3>2
  <2>9. EvFound'
    <3>1. (ev'.pc \in {"save", "corr"} /\ ev'.sess = NoSession) =>
            ~ClientOnline(ev.msg.dest)'
      BY <2>5, <2>6, <2>7 DEF ClientOnline
    <3> QED
      BY <2>5, <3>1 DEF EvFound, EvBacklog
  <2>10. \A i \in DOMAIN messages : ~EvCares(i)
    BY <2>1 DEF EvCares
  <2> QED
    BY <1>1, <1>2, <2>3, <2>8, <2>9, <2>10, EvLooksAfter
<1>6. CASE EvCorr
  <2>1. messages' = messages /\ ev.pc = "corr"
    BY <1>6 DEF EvCorr
  <2>2. \/ ev'.pc = "done" /\ ev.sess = NoSession
        \/ ev'.pc = "send" /\ ev'.id = ev.id /\ ev'.sess = ev.sess
    BY <1>0, <1>6 DEF EvCorr, EvGoto, EvFinish, IdleEv, EvState
  <2>3. EvFound'
    BY <2>2 DEF EvFound, EvBacklog
  <2>4. \A i \in DOMAIN messages : EvCares(i) => EvCares(i)'
    BY <2>1, <2>2 DEF EvCares
  <2> QED
    BY <1>0, <1>1, <1>2, <2>1, <2>3, <2>4, StoreRests, EvLooksAfter
<1>7. CASE EvMark
  <2>1. PICK id : /\ id = ev.id
                  /\ \/ messages' = MarkSent(messages, id)
                     \/ messages' = MarkDelivered(messages, id)
    BY <1>1, <1>7 DEF EvMark
  <2>2. /\ NewWaitCovered /\ \E done : Later(messages, messages', done)
        /\ id \in DOMAIN messages => ~Waiting(id)'
    <3>1. CASE messages' = MarkSent(messages, id)
      BY <1>0, <3>1, MarkedRows, MarkRows
    <3>2. CASE messages' = MarkDelivered(messages, id)
      BY <1>0, <3>2, MarkedRows, MarkRows
    <3> QED
      BY <2>1, <3>1, <3>2
  <2>3. ev.pc = "mark" /\ ev'.pc = "done"
    BY <1>1, <1>7 DEF EvMark, EvFinish, IdleEv
  <2>4. EvFound'
    BY <2>3 DEF EvFound, EvBacklog
  <2>5. \A i \in DOMAIN messages : Neglected(i)' => ~EvCares(i)
    BY <2>1, <2>2, <2>3 DEF EvCares, Neglected
  <2> QED
    BY <1>1, <1>2, <2>2, <2>4, <2>5, EvLooksAfter
<1> QED
  BY <1>4, <1>5, <1>6, <1>7

\* DeliverOfflineMessages: all that waits for the client is loaded, and the rest
\* is left to wait only when the client has gone offline.
LEMMA EvOfflineBacklog ==
  ASSUME DeliveryInv, BacklogInv, ~DbMayFail,
         EvOffLoad \/ EvOffNext \/ EvOffDone
  PROVE  BacklogInv'
<1>0. /\ ev \in EvState /\ TypeOK /\ messages \in Seq(Row)
      /\ active \in [Names -> SessionIds \cup {NoSession}]
  BY DEF DeliveryInv, WellFormed, TypeOK, StorageTypeOK, SessionsTypeOK
<1>1. EvFrame /\ ak' = ak /\ active' = active /\ UNCHANGED sessVars /\ ~EvThrows
  BY DEF EvOffLoad, EvOffNext, EvOffDone, EvFrame, EvThrows, sessVars
<1>2. NoneComesOnline
  BY <1>0, <1>1, SessionsRest
<1>3. \A n : ClientOnline(n)' <=> ClientOnline(n)
  BY <1>1 DEF ClientOnline, IsOnline, sessVars
<1>4. CASE EvOffLoad
  <2>1. messages' = messages /\ ev.pc = "offLoad"
    BY <1>4 DEF EvOffLoad, storeVars
  <2>2. PICK s, ids : /\ s = FindSession(ev.msg.sender)
                      /\ ids = LoadPendingMessagesOnly(messages, ev.msg.sender)
    OBVIOUS
  <2>3. Prefixes(ids) = {ids}
    BY DEF Prefixes
  <2>4. \/ ev'.pc = "repLoad" /\ (s = NoSession \/ ids = {})
        \/ /\ ev'.pc = "offNext" /\ ev'.sess = s /\ ev'.todo = ids
           /\ ev'.msg = ev.msg /\ s # NoSession
    BY <1>0, <1>4, <2>2, <2>3 DEF EvOffLoad, EvGoto, EvState
  <2>5. EvFound'
    <3>1. s # NoSession => active[ev.msg.sender] = s
      BY <2>2 DEF FindSession
    <3> QED
      BY <1>1, <2>4, <3>1 DEF EvFound, EvBacklog
  <2>6. ASSUME NEW i \in DOMAIN messages, Neglected(i)', EvCares(i)
        PROVE  EvCares(i)'
    <3>1. /\ Waiting(i) /\ messages[i].msg.dest = ev.msg.sender
          /\ ClientOnline(messages[i].msg.dest)
      BY <1>1, <2>1, <2>6 DEF EvCares, Neglected, Waiting, ClientOnline,
                              IsOnline, sessVars
    <3>2. i \in ids
      BY <2>2, <3>1 DEF LoadPendingMessagesOnly, Waiting
    <3>3. s # NoSession
      BY <2>2, <3>1 DEF ClientOnline, FindSession
    <3> QED
      BY <2>4, <3>2, <3>3 DEF EvCares
  <2> QED
    BY <1>0, <1>1, <1>2, <2>1, <2>5, <2>6, StoreRests, EvLooksAfter
<1>5. CASE EvOffNext
  <2>1. /\ ev.pc = "offNext" /\ ev.sess \in SessionIds
        /\ SessionOf(ev.sess, ev.msg.sender)
        /\ \A i \in ev.todo : BacklogRow(i)
        /\ active[ev.msg.sender] \in {ev.sess, NoSession}
    BY <1>5 DEF EvOffNext, DeliveryInv, WellFormed, EvRefsOK, EvKnows, EvBacklog,
                BacklogInv, EvFound
  <2>2. CASE /\ ev.todo = {} \/ ~IsOnline(ev.sess)
             /\ EvGoto("offFlush") /\ messages' = messages
    <3>1. ev'.pc = "offFlush" /\ ev'.sess = ev.sess /\ ev'.msg = ev.msg
      BY <1>0, <2>2 DEF EvGoto, EvState
    <3>2. EvFound'
      BY <1>1, <2>1, <3>1 DEF EvFound
    <3>3. ASSUME NEW i \in DOMAIN messages, Neglected(i)', EvCares(i)
          PROVE  FALSE
      <4>1. i \in ev.todo
        BY <2>1, <3>3 DEF EvCares
      <4>2. messages[i].msg.dest = ev.msg.sender /\ ~IsOnline(ev.sess)
        BY <2>1, <2>2, <4>1 DEF BacklogRow
      <4>3. ClientOnline(ev.msg.sender)
        BY <1>1, <2>2, <3>3, <4>2 DEF Neglected, ClientOnline, IsOnline, sessVars
      <4> QED
        BY <2>1, <4>2, <4>3 DEF ClientOnline
    <3> QED
      BY <1>0, <1>1, <1>2, <2>2, <3>2, <3>3, StoreRests, EvLooksAfter
  <2>3. ASSUME NEW i \in ev.todo,
               ev' = [ev EXCEPT !.pc = "offSend", !.id = i, !.todo = @ \ {i}],
               messages' = IF NeedsAckFlag(messages[i].msg)
                           THEN MarkSent(messages, i) ELSE messages
        PROVE  BacklogInv'
    <3>1. /\ ev'.pc = "offSend" /\ ev'.id = i /\ ev'.todo = ev.todo \ {i}
          /\ ev'.sess = ev.sess /\ ev'.msg = ev.msg
      BY <1>0, <2>3 DEF EvState
    <3>2. EvFound'
      BY <1>1, <2>1, <3>1 DEF EvFound
    <3>3. /\ Later(messages, messages', {}) /\ NewWaitCovered
          /\ (i \in DOMAIN messages /\ NeedsAckFlag(messages[i].msg)) =>
               ~Waiting(i)'
      <4>1. CASE messages' = messages /\ ~NeedsAckFlag(messages[i].msg)
        BY <1>0, <4>1, StoreRests
      <4>2. CASE messages' = MarkSent(messages, i)
        BY <1>0, <4>2, MarkedRows, MarkRows
      <4> QED
        BY <2>3, <4>1, <4>2
    <3>4. ASSUME NEW k \in DOMAIN messages, Neglected(k)', EvCares(k)
          PROVE  EvCares(k)'
      <4>1. k \in ev.todo
        BY <2>1, <3>4 DEF EvCares
      <4>2. messages'[k].msg = messages[k].msg
        BY <3>3 DEF Later
      <4>3. CASE k # i
        BY <3>1, <4>1, <4>3 DEF EvCares
      <4>4. CASE k = i
        <5>1. ~NeedsAckFlag(messages'[k].msg)
          BY <3>3, <3>4, <4>2, <4>4 DEF Neglected
        <5> QED
          BY <3>1, <4>4, <5>1 DEF EvCares
      <4> QED
        BY <4>3, <4>4
    <3> QED
      BY <1>1, <1>2, <3>2, <3>3, <3>4, EvLooksAfter
  <2> QED
    BY <1>1, <1>5, <2>2, <2>3 DEF EvOffNext
<1>6. CASE EvOffDone
  <2>1. PICK id : id = ev.id /\ messages' = MarkDelivered(messages, id)
    BY <1>1, <1>6 DEF EvOffDone
  <2>2. /\ Later(messages, messages', {id}) /\ NewWaitCovered
        /\ id \in DOMAIN messages => ~Waiting(id)'
    BY <1>0, <2>1, MarkedRows, MarkRows
  <2>3. /\ ev.pc = "offDone" /\ ev'.pc = "offNext" /\ ev'.todo = ev.todo
        /\ ev'.sess = ev.sess /\ ev'.msg = ev.msg
    BY <1>0, <1>1, <1>6 DEF EvOffDone, EvGoto, EvState
  <2>4. EvFound'
    BY <1>1, <2>3 DEF EvFound, BacklogInv, EvBacklog
  <2>5. \A i \in DOMAIN messages : Neglected(i)' /\ EvCares(i) => EvCares(i)'
    BY <2>1, <2>2, <2>3 DEF EvCares, Neglected
  <2> QED
    BY <1>1, <1>2, <2>2, <2>4, <2>5, EvLooksAfter
<1> QED
  BY <1>4, <1>5, <1>6

\* UpsertClient: only the client that registers comes online, and its backlog is
\* loaded next.
LEMMA EvUpsertBacklog ==
  ASSUME DeliveryInv, BacklogInv, ~DbMayFail, EvUpsert
  PROVE  BacklogInv'
<1> DEFINE old == FindSession(ev.msg.sender)
<1>0. /\ ev \in EvState /\ TypeOK
      /\ active \in [Names -> SessionIds \cup {NoSession}]
  BY DEF DeliveryInv, WellFormed, TypeOK, SessionsTypeOK
<1>1. RowsFrom({}, NoSession, {}, {}) /\ OldRowsSame
  BY UpsertFlow, UpsertSame
<1>2. NewWaitCovered
  BY <1>1, SavedCopies
<1>3. Later(messages, messages', {})
  BY <1>1 DEF RowsFrom
<1>4. /\ ev.pc = "upsert" /\ ak' = ak
  BY DEF EvUpsert, EvFrame
<1>5. PICK new \in SessionIds :
        /\ sessions[new].status = "unborn"
        /\ sessions' = [s \in SessionIds |->
             IF s = new
             THEN [status |-> "online", name |-> ev.msg.sender, queue |-> <<>>]
             ELSE IF s = old
             THEN [status |-> "offline", name |-> sessions[s].name,
                   queue |-> <<>>]
             ELSE sessions[s]]
        /\ active' = [active EXCEPT ![ev.msg.sender] = new]
        /\ ev' = [ev EXCEPT !.pc = "offLoad",
                            !.refs = (@ \cup {new, old}) \ {NoSession}]
  BY DEF EvUpsert, PersistQueueThrows
<1>6. ev'.pc = "offLoad" /\ ev'.msg = ev.msg
  BY <1>0, <1>5 DEF EvState
<1>7. ASSUME NEW n \in Names, n # ev.msg.sender, ClientOnline(n)'
      PROVE  ClientOnline(n)
  <2>1. active'[n] = active[n] /\ active[n] # NoSession /\ active[n] \in SessionIds
    BY <1>0, <1>5, <1>7 DEF ClientOnline
  <2>2. active[n] # new
    BY <1>5, <2>1 DEF DeliveryInv, SessionsKnown, SessionOf, Born
  <2> HIDE DEF old
  <2>3. sessions'[active[n]].status = "online" =>
          sessions[active[n]].status = "online"
    BY <1>5, <2>1, <2>2
  <2> QED
    BY <1>7, <2>1, <2>3 DEF ClientOnline, IsOnline
<1>8. EvFound'
  BY <1>6 DEF EvFound, EvBacklog
<1>9. ASSUME NEW i \in DOMAIN messages', Neglected(i)'
      PROVE  IsCopy(i)' \/ EvCares(i)' \/ AkCares(i)'
  <2>1. CASE messages'[i].msg.dest = ev.msg.sender
    BY <1>6, <2>1 DEF EvCares
  <2>2. CASE i \notin DOMAIN messages \/ ~Waiting(i)
    BY <1>2, <1>9, <2>2 DEF NewWaitCovered
  <2>3. CASE /\ i \in DOMAIN messages /\ Waiting(i)
             /\ messages'[i].msg.dest # ev.msg.sender
    <3>1. PICK d : d = messages[i].msg.dest
      OBVIOUS
    <3>2. messages'[i].msg = messages[i].msg
      BY <1>3, <2>3 DEF Later
    <3>3. ClientOnline(d)' /\ d \in Names
      BY <1>9, <3>1, <3>2 DEF Neglected, ClientOnline
    <3>4. Neglected(i)
      BY <1>7, <2>3, <3>1, <3>2, <3>3 DEF Neglected
    <3>5. IsCopy(i) \/ AkCares(i)
      BY <1>4, <2>3, <3>4 DEF BacklogInv, BacklogCovered, EvCares
    <3>6. IsCopy(i) => IsCopy(i)'
      BY <1>3, <2>3, CopyStays
    <3> QED
      BY <1>4, <3>5, <3>6 DEF AkCares
  <2> QED
    BY <2>1, <2>2, <2>3
<1> QED
  BY <1>8, <1>9 DEF BacklogInv, BacklogCovered

\* The steps of the event callback in which a session is persisted, flushed, or
\* taken from the registry.
LEMMA EvPersistBacklog ==
  ASSUME DeliveryInv, BacklogInv, ~DbMayFail
  PROVE  /\ \A s \in SessionIds : EvRelease(s) => BacklogInv'
         /\ EvUnregPersist => BacklogInv'
         /\ EvUnregRemove => BacklogInv'
         /\ EvOffFlush => BacklogInv'
<1>0. /\ ev \in EvState /\ TypeOK
      /\ active \in [Names -> SessionIds \cup {NoSession}]
  BY DEF DeliveryInv, WellFormed, TypeOK, SessionsTypeOK
<1>1. ASSUME NEW s \in SessionIds, EvRelease(s) PROVE BacklogInv'
  <2>1. PICK refs : /\ Release(s, refs)
                    /\ ev' = [ev EXCEPT !.refs = @ \ {s}]
                    /\ EvFrame /\ active' = active /\ outbox' = outbox
    BY <1>1 DEF EvRelease, ReleaseTerminates, PersistQueueThrows
  <2>2. ev.pc = "done" /\ ev'.pc = "done" /\ ak' = ak
    BY <1>0, <1>1, <2>1 DEF EvRelease, EvState, EvFrame
  <2>3. RowsFrom({}, NoSession, {}, {}) /\ OldRowsSame
    BY <1>0, <2>1, PersistFlow, RowsSame
  <2>4. NewWaitCovered /\ Later(messages, messages', {})
    BY <2>3, PersistedCopies
  <2>5. NoneComesOnline
    BY <1>0, <2>1, SessionsStayOffline, StayOffline
  <2> QED
    BY <2>2, <2>4, <2>5, EvElsewhere DEF EvCaring, EvBacklog
<1>2. ASSUME EvUnregPersist PROVE BacklogInv'
  <2>1. PICK s \in SessionIds : s = ev.sess
    BY <1>2 DEF EvUnregPersist, DeliveryInv, WellFormed, EvRefsOK
  <2>2. /\ PersistQueue(s)
        /\ sessions' = MarkOffline(Popped(sessions, s, sessions[s].queue,
                                          Len(sessions[s].queue)), s)
        /\ EvGoto("uRemove")
        /\ ak' = ak /\ active' = active /\ ev.pc = "uPersist"
    BY <1>2, <2>1 DEF EvUnregPersist, PersistQueueThrows, EvFrame
  <2>3. ev'.pc = "uRemove"
    BY <1>0, <2>2 DEF EvGoto, EvState
  <2>4. RowsFrom({}, NoSession, {}, {}) /\ OldRowsSame
    BY <1>0, <2>2, PersistFlow, RowsSame
  <2>5. NewWaitCovered /\ Later(messages, messages', {})
    BY <2>4, PersistedCopies
  <2>6. NoneComesOnline
    BY <1>0, <2>2, SessionsStayOffline, StayOffline
  <2> QED
    BY <2>2, <2>3, <2>5, <2>6, EvElsewhere DEF EvCaring, EvBacklog
<1>3. ASSUME EvUnregRemove PROVE BacklogInv'
  <2>1. /\ ev.pc = "uRemove" /\ ev'.pc = "done" /\ ak' = ak
        /\ messages' = messages /\ sessions' = sessions
    BY <1>3 DEF EvUnregRemove, EvFinish, IdleEv, EvFrame, storeVars
  <2>2. \A n \in Names : active'[n] \in {active[n], NoSession}
    BY <1>0, <1>3 DEF EvUnregRemove
  <2>3. NoneComesOnline
    BY <1>0, <2>1, <2>2, StayOffline DEF NoneRevived
  <2> QED
    BY <1>0, <2>1, <2>3, StoreRests, EvElsewhere DEF EvCaring, EvBacklog
<1>4. ASSUME EvOffFlush PROVE BacklogInv'
  <2>1. PICK s \in SessionIds : s = ev.sess
    BY <1>4 DEF EvOffFlush, DeliveryInv, WellFormed, EvRefsOK
  <2>2. /\ FlushQueue(s) /\ messages' = messages /\ active' = active /\ ak' = ak
        /\ ev.pc = "offFlush"
    BY <1>4, <2>1 DEF EvOffFlush, storeVars, EvFrame
  <2>3. ev'.pc = "repLoad"
    BY <1>0, <1>4 DEF EvOffFlush, EvGoto, EvState
  <2>4. NoneComesOnline
    BY <1>0, <2>2, SessionsStayOffline, StayOffline
  <2> QED
    BY <1>0, <2>2, <2>3, <2>4, StoreRests, EvElsewhere DEF EvCaring, EvBacklog
<1> QED
  BY <1>1, <1>2, <1>3, <1>4

LEMMA EvStepBacklog ==
  ASSUME DeliveryInv, BacklogInv, ~DbMayFail, EvStep
  PROVE  BacklogInv'
BY EvLocalBacklog, EvOtherRowsBacklog, EvSendBacklog, EvMessageBacklog,
   EvOfflineBacklog, EvUpsertBacklog, EvPersistBacklog
   DEF EvStep, EvRegister, EvMessage, EvReply, EvAck, EvUnregister

-----------------------------------------------------------------------------
(* The timers, the send queue and the backlog *)

\* The ACK timer looks after the row it takes back until it is SENT again or
\* its client is found offline.
LEMMA AkBacklog ==
  ASSUME DeliveryInv, BacklogInv, ~DbMayFail, AkLoad \/ AkStep
  PROVE  BacklogInv'
<1>0. ak \in AkState /\ TypeOK /\ messages \in Seq(Row)
  BY DEF DeliveryInv, WellFormed, TypeOK, StorageTypeOK
<1>1. ASSUME AkFrame, active' = active, NoneComesOnline, NewWaitCovered,
             NEW done, Later(messages, messages', done),
             \A i \in DOMAIN messages :
               Neglected(i)' /\ AkCares(i) => AkCares(i)'
      PROVE  BacklogInv'
  <2>1. EvFound' /\ \A i \in DOMAIN messages : EvCares(i) => EvCares(i)'
    BY <1>1, EvStillCares DEF AkFrame
  <2>2. CareKept
    BY <1>1, <2>1 DEF CareKept
  <2> QED
    BY <1>1, <2>1, <2>2, BacklogStep
<1>2. CASE AkLoad
  <2>1. AkFrame /\ messages' = messages /\ UNCHANGED sessVars /\ ak.pc = "idle"
    BY <1>2 DEF AkLoad, storeVars
  <2> QED
    BY <1>0, <1>1, <2>1, StoreRests, SessionsRest DEF AkCares, sessVars
<1>3. CASE AkNext
  <2>1. AkFrame /\ UNCHANGED sessVars /\ ak.pc = "next"
    BY <1>3 DEF AkNext
  <2>2. NoneComesOnline /\ active' = active
    BY <1>0, <2>1, SessionsRest DEF sessVars
  <2>3. CASE messages' = messages
    BY <1>0, <1>1, <2>1, <2>2, <2>3, StoreRests DEF AkCares
  <2>4. ASSUME NEW i \in ak.todo, messages' = MarkPending(messages, i),
               ak' = [ak EXCEPT !.pc = "find", !.id = i, !.todo = @ \ {i}]
        PROVE  BacklogInv'
    <3>1. ak'.pc = "find" /\ ak'.id = i
      BY <1>0, <2>4 DEF AkState
    <3>2. /\ Later(messages, messages', {})
          /\ DOMAIN messages' = DOMAIN messages
          /\ \A k \in DOMAIN messages : Waiting(k)' => Waiting(k) \/ k = i
      BY <1>0, <2>4, MarkedRows, MarkRows
    <3>3. NewWaitCovered
      BY <3>1, <3>2 DEF NewWaitCovered, Neglected, AkCares
    <3> QED
      BY <1>1, <2>1, <2>2, <3>2, <3>3 DEF AkCares
  <2> QED
    BY <1>3, <2>3, <2>4 DEF AkNext
<1>4. CASE AkFind
  <2>1. AkFrame /\ messages' = messages /\ UNCHANGED sessVars /\ ak.pc = "find"
    BY <1>4 DEF AkFind, storeVars
  <2>2. PICK s : s = FindSession(messages[ak.id].msg.dest)
    OBVIOUS
  <2>3. \/ ak'.pc = "sent" /\ ak'.id = ak.id
        \/ s = NoSession \/ ~IsOnline(s)
    BY <1>0, <1>4, <2>2 DEF AkFind, AkState
  <2>4. ASSUME NEW i \in DOMAIN messages, Neglected(i)', AkCares(i)
        PROVE  AkCares(i)'
    <3>1. ClientOnline(messages[i].msg.dest) /\ i = ak.id
      BY <2>1, <2>4 DEF Neglected, ClientOnline, IsOnline, sessVars, AkCares
    <3>2. s # NoSession /\ IsOnline(s)
      BY <2>2, <3>1 DEF ClientOnline, FindSession
    <3> QED
      BY <2>3, <3>1, <3>2 DEF AkCares
  <2> QED
    BY <1>0, <1>1, <2>1, <2>4, StoreRests, SessionsRest DEF sessVars
<1>5. CASE AkSent
  <2>1. AkFrame /\ UNCHANGED sessVars
    BY <1>5 DEF AkSent
  <2>2. PICK i : i = ak.id /\ messages' = MarkSent(messages, i)
    BY <1>5 DEF AkSent
  <2>3. /\ Later(messages, messages', {}) /\ NewWaitCovered
        /\ i \in DOMAIN messages => ~Waiting(i)'
    BY <1>0, <2>2, MarkedRows, MarkRows
  <2>4. \A k \in DOMAIN messages : Neglected(k)' => ~AkCares(k)
    BY <2>2, <2>3 DEF Neglected, AkCares
  <2> QED
    BY <1>0, <1>1, <2>1, <2>3, <2>4, SessionsRest DEF sessVars
<1>6. CASE AkSend
  <2>1. /\ SessionOf(ak.sess, messages[ak.id].msg.dest)
        /\ ak.id \in DOMAIN messages /\ ak.sess \in SessionIds
    BY <1>6 DEF AkSend, DeliveryInv, AkKnows, AkSending, WellFormed, AkRefsOK
  <2>2. PICK s \in SessionIds, m \in Message :
          s = ak.sess /\ m = messages[ak.id].msg
    BY <1>0, <2>1, RowMessage
  <2>3. /\ m.dest = sessions[s].name /\ SendMessage(s, m)
        /\ AkFrame /\ active' = active /\ ak.pc = "send"
    BY <1>6, <2>1, <2>2 DEF SessionOf, AkSend
  <2>4. Later(messages, messages', {}) /\ NoneComesOnline /\ NewWaitCovered
    BY <2>1, <2>2, <2>3, SendBacklog
  <2> QED
    BY <1>1, <2>3, <2>4 DEF AkCares
<1>7. CASE AkRelease
  <2>1. PICK s \in SessionIds : s = ak.sess
    BY <1>7 DEF AkRelease, DeliveryInv, WellFormed, AkRefsOK
  <2>2. PICK refs : /\ Release(s, refs) /\ AkFrame /\ active' = active
                    /\ outbox' = outbox /\ ak.pc = "release"
    BY <1>7, <2>1 DEF AkRelease, ReleaseTerminates, PersistQueueThrows
  <2>3. RowsFrom({}, NoSession, {}, {}) /\ OldRowsSame
    BY <1>0, <2>2, PersistFlow, RowsSame
  <2>4. NewWaitCovered /\ Later(messages, messages', {})
    BY <2>3, PersistedCopies
  <2>5. NoneComesOnline
    BY <1>0, <2>2, SessionsStayOffline, StayOffline
  <2> QED
    BY <1>1, <2>2, <2>4, <2>5 DEF AkCares
<1> QED
  BY <1>2, <1>3, <1>4, <1>5, <1>6, <1>7 DEF AkStep, AkTerminates, AkThrows

\* A step of another activity.
LEMMA OthersBacklog ==
  ASSUME DeliveryInv, BacklogInv, ev' = ev, ak' = ak, NoneRevived,
         \A n \in Names : active'[n] \in {active[n], NoSession},
         NEW done, Later(messages, messages', done), NewWaitCovered
  PROVE  BacklogInv'
<1>1. NoneComesOnline
  BY StayOffline DEF DeliveryInv, WellFormed
<1>2. EvFound' /\ \A i \in DOMAIN messages : EvCares(i) => EvCares(i)'
  BY <1>1, EvStillCares
<1>3. CareKept
  BY <1>2 DEF CareKept, AkCares
<1> QED
  BY <1>1, <1>2, <1>3, BacklogStep

LEMMA ClBacklog ==
  ASSUME DeliveryInv, BacklogInv, ~DbMayFail, ClStart \/ ClStep
  PROVE  BacklogInv'
<1>0. TypeOK /\ active \in [Names -> SessionIds \cup {NoSession}]
  BY DEF DeliveryInv, WellFormed, TypeOK, SessionsTypeOK
<1>1. CASE ClStart \/ ClSwept \/ ClEnd
  <2>1. /\ ev' = ev /\ ak' = ak /\ messages' = messages
        /\ sessions' = sessions /\ active' = active
    BY <1>1 DEF ClStart, ClSwept, ClEnd, ClFrame, storeVars, sessVars
  <2> QED
    BY <1>0, <2>1, StoreRests, OthersBacklog DEF NoneRevived
<1>2. ASSUME NEW n \in Names, ClVisit(n) PROVE BacklogInv'
  <2>1. PICK s \in SessionIds : s = active[n]
    BY <1>2 DEF ClVisit, DeliveryInv, WellFormed, ClRefsOK
  <2>2. /\ ev' = ev /\ ak' = ak /\ messages' = messages /\ active' = active
        /\ sessions' = sessions \/ sessions' = MarkOffline(sessions, s)
    BY <1>2, <2>1 DEF ClVisit, ClFrame, storeVars
  <2>3. NoneRevived
    BY <1>0, <2>2, SessionsStayOffline
  <2> QED
    BY <1>0, <2>2, <2>3, StoreRests, OthersBacklog
<1>3. CASE ClPersist
  <2>1. PICK s \in SessionIds : s = active[cl.cur]
    BY <1>3 DEF ClPersist, DeliveryInv, WellFormed, ClRefsOK
  <2>2. /\ PersistQueue(s)
        /\ sessions' = Popped(sessions, s, sessions[s].queue,
                              Len(sessions[s].queue))
        /\ ev' = ev /\ ak' = ak /\ active' = active
    BY <1>3, <2>1 DEF ClPersist, PersistQueueThrows, ClFrame
  <2>3. NoneRevived
    BY <1>0, <2>2, SessionsStayOffline
  <2>4. RowsFrom({}, NoSession, {}, {}) /\ OldRowsSame
    BY <1>0, <2>2, PersistFlow, RowsSame
  <2>5. NewWaitCovered /\ Later(messages, messages', {})
    BY <2>4, PersistedCopies
  <2> QED
    BY <2>2, <2>3, <2>5, OthersBacklog
<1>4. ASSUME NEW n \in Names, ClErase(n) PROVE BacklogInv'
  <2>1. PICK s \in SessionIds : s = active[n]
    BY <1>4 DEF ClErase, DeliveryInv, WellFormed, ClRefsOK
  <2>2. PICK refs : /\ Release(s, refs) /\ outbox' = outbox
                    /\ active' = [active EXCEPT ![n] = NoSession]
                    /\ ev' = ev /\ ak' = ak
    BY <1>4, <2>1 DEF ClErase, ReleaseTerminates, PersistQueueThrows, ClFrame
  <2>3. NoneRevived
    BY <1>0, <2>2, SessionsStayOffline
  <2>4. RowsFrom({}, NoSession, {}, {}) /\ OldRowsSame
    BY <1>0, <2>2, PersistFlow, RowsSame
  <2>5. NewWaitCovered /\ Later(messages, messages', {})
    BY <2>4, PersistedCopies
  <2>6. \A k \in Names : active'[k] \in {active[k], NoSession}
    BY <1>0, <2>2
  <2> QED
    BY <2>2, <2>3, <2>5, <2>6, OthersBacklog
<1> QED
  BY <1>1, <1>2, <1>3, <1>4 DEF ClStep

LEMMA TransmitBacklog ==
  ASSUME DeliveryInv, BacklogInv, Transmit
  PROVE  BacklogInv'
<1>0. TypeOK /\ outbox \in Seq(PendingSend)
  BY DEF DeliveryInv, WellFormed, TypeOK, SessionsTypeOK
<1>1. messages' = messages /\ ev' = ev /\ ak' = ak /\ active' = active
  BY <1>0, TransmitFlow
<1>2. PICK i \in DOMAIN outbox :
        TransmitDelivered(i) \/ TransmitDropped(i) \/ TransmitFailed(i)
  BY DEF Transmit
<1>3. PICK s \in SessionIds : s = outbox[i].sess
  <2>1. outbox[i] \in PendingSend
    BY <1>0, ElementOfSeq
  <2> QED
    BY <2>1 DEF PendingSend
<1>4. sessions' = sessions \/ sessions' = MarkOffline(sessions, s)
  BY <1>2, <1>3 DEF TransmitDelivered, TransmitDropped, TransmitFailed
<1>5. NoneRevived
  BY <1>0, <1>4, SessionsStayOffline
<1> QED
  BY <1>0, <1>1, <1>5, StoreRests, OthersBacklog

-----------------------------------------------------------------------------
(* Nothing waits for a client that is online *)

LEMMA InitBacklog == Init => BacklogInv
BY DEF Init, StorageInit, SessionsInit, IdleEv, BacklogInv, BacklogCovered,
       EvFound, EvBacklog

\* After a crash nobody is online.
LEMMA CrashBacklog == Crash => BacklogInv'
<1> SUFFICES ASSUME Crash PROVE BacklogInv'
  OBVIOUS
<1>1. active' = [n \in Names |-> NoSession] /\ ev'.pc = "idle"
  BY DEF Crash, Restart, IdleEv
<1>2. BacklogCovered'
  BY <1>1 DEF BacklogCovered, Neglected, ClientOnline
<1>3. EvFound'
  BY <1>1 DEF EvFound, EvBacklog
<1> QED
  BY <1>2, <1>3 DEF BacklogInv

LEMMA StepBacklog ==
  DeliveryInv /\ BacklogInv /\ ~DbMayFail /\ [Next]_vars => BacklogInv'
<1> SUFFICES ASSUME DeliveryInv, BacklogInv, ~DbMayFail, [Next]_vars
             PROVE  BacklogInv'
  OBVIOUS
<1>1. CASE \E m \in Requests : Receive(m)
  BY <1>1, EvLocalBacklog
<1>2. CASE EvStep
  BY <1>2, EvStepBacklog
<1>3. CASE AkLoad \/ AkStep
  BY <1>3, AkBacklog
<1>4. CASE ClStart \/ ClStep
  BY <1>4, ClBacklog
<1>5. CASE Transmit
  BY <1>5, TransmitBacklog
<1>6. CASE Crash
  BY <1>6, CrashBacklog
<1>7. CASE UNCHANGED vars
  <2>1. /\ ev' = ev /\ ak' = ak /\ messages' = messages
        /\ sessions' = sessions /\ active' = active
    BY <1>7 DEF vars, storeVars, sessVars
  <2>2. TypeOK
    BY DEF DeliveryInv, WellFormed
  <2> QED
    BY <2>1, <2>2, StoreRests, OthersBacklog DEF NoneRevived
<1> QED
  BY <1>1, <1>2, <1>3, <1>4, <1>5, <1>6, <1>7 DEF Next

LEMMA NobodyCares ==
  ASSUME DeliveryInv, BacklogInv
  PROVE  NoBacklogWhileOnline
<1> SUFFICES ASSUME ev.pc = "idle", ak.pc = "idle", NEW n \in Names,
                    active[n] # NoSession, IsOnline(active[n]),
                    NEW i \in LoadPendingMessagesOnly(messages, n),
                    messages[i].msg.type = "Message"
             PROVE  IsCopy(i)
  BY DEF NoBacklogWhileOnline
<1>1. i \in DOMAIN messages /\ Neglected(i)
  BY DEF LoadPendingMessagesOnly, Neglected, Waiting, ClientOnline
<1>2. ~EvCares(i) /\ ~AkCares(i)
  BY DEF EvCares, AkCares
<1> QED
  BY <1>1, <1>2 DEF BacklogInv, BacklogCovered

\* While no write fails, no message but copies is left PENDING for a client that
\* is online when no callback is running, although messages arrive, are taken
\* back by the ACK timer and find sessions offline while the client registers
\* (MessageHandler::Handle, Router::DeliverOfflineMessages, CheckExpiredAcks).
\* The process may crash at any time.
THEOREM NothingLeftWaiting == ~DbMayFail => (Spec => []NoBacklogWhileOnline)
<1> SUFFICES ASSUME ~DbMayFail PROVE Spec => []NoBacklogWhileOnline
  OBVIOUS
<1>1. Init => DeliveryInv /\ BacklogInv
  BY InitInv, InitBacklog
<1>2. DeliveryInv /\ BacklogInv /\ [Next]_vars => (DeliveryInv /\ BacklogInv)'
  BY StepInv, StepBacklog
<1>3. DeliveryInv /\ BacklogInv => NoBacklogWhileOnline
  BY NobodyCares
<1> QED
  BY <1>1, <1>2, <1>3, PTL DEF Spec
=============================================================================
