----------------------- MODULE BrokerDeliveryProofs -----------------------
(***************************************************************************)
(* The broker keeps its promises to its clients, for every set of clients, *)
(* messages and sessions, with or without retries, failing writes and      *)
(* crashes: DELIVERED comes after the acknowledgement of the destination   *)
(* and is final, a message reaches the client it names and a reply the     *)
(* client that asked, and nothing reaches a client before it is stored.    *)
(*                                                                         *)
(* None of this is inductive by itself.  DeliveryInv says what has to be   *)
(* true of every place a message passes through: the rows of the store,    *)
(* the correlations, the queues of sessions and the send queue, the locals *)
(* of the callbacks, and what the clients have received.                   *)
(***************************************************************************)
EXTENDS BrokerDelivery, BrokerProofs

-----------------------------------------------------------------------------
(* The invariant *)

\* A client asked, under this correlation id and this name.
Asked(corr, name) ==
  \E m \in submitted : m.type = "Message" /\ m.corr = corr /\ m.sender = name

\* m stems from a client: a reply but for its destination, which the broker
\* sets.  A notice of an acknowledgement stems from the broker.
Genuine(m) ==
  /\ m.type \in {"Message", "Reply", "Ack"}
  /\ m.type = "Message" => m \in submitted
  /\ m.type = "Reply" => \E p \in submitted : /\ p.type = "Reply"
                                              /\ p.corr = m.corr
  /\ m.type = "Ack" => m.flags = {}

\* What a row may hold.
Storable(m) ==
  /\ Genuine(m)
  /\ (m.type = "Reply" /\ m.dest \in Names) => Asked(m.corr, m.dest)

\* What may be on its way to the client `name`: it is in the store, and for
\* this client.
Sendable(m, name) ==
  /\ Genuine(m)
  /\ m.type # "Ack" => \E i \in DOMAIN messages : messages[i].msg = m
  /\ m.type = "Message" => m.dest = name
  /\ m.type = "Reply" => Asked(m.corr, name)

\* m waits in the send queue or in the queue of session s.
Carried(s, m) ==
  \/ \E i \in DOMAIN outbox : outbox[i] = [sess |-> s, msg |-> m]
  \/ \E i \in DOMAIN sessions[s].queue : sessions[s].queue[i] = m

Born(s) == s \in SessionIds /\ sessions[s].status # "unborn"

\* s is a session of the client `name`.
SessionOf(s, name) == Born(s) /\ name \in Names /\ sessions[s].name = name

\* Sessions that are referred to exist, and are registered under their name.
SessionsKnown ==
  /\ \A n \in Names : active[n] # NoSession => SessionOf(active[n], n)
  /\ ev.sess # NoSession => Born(ev.sess)
  /\ ak.sess # NoSession => Born(ak.sess)

RowsStorable ==
  \A i \in DOMAIN messages, m \in Message :
    messages[i].msg = m => Storable(m)

CarriedSendable ==
  \A s \in SessionIds, m \in Message, name \in Names \cup {NoName} :
    (Carried(s, m) /\ sessions[s].name = name) => Born(s) /\ Sendable(m, name)

ReceivedSendable == \A r \in received : Sendable(r.msg, r.name)

\* A correlation leads to a row that has its id, and to a client that asked.
CorrelationsLead ==
  \A r \in correlations :
    /\ r.mid \in DOMAIN messages
    /\ messages[r.mid].msg.corr = r.corr
    /\ r.owner \in Names => Asked(r.corr, r.owner)

EvStored == {"corr", "send", "mark",
             "rCorr", "rFind", "rSent", "rSend", "rMark", "rollback"}
EvBacklog == {"offNext", "offSend", "offDone", "offFlush"}
EvReplies == {"repNext", "repSend", "repDone"}

\* Rows of the backlog and of the pending replies of the client that registers.
BacklogRow(i) ==
  /\ messages[i].msg.type # "Reply"
  /\ messages[i].msg.dest = ev.msg.sender
ReplyRow(i) ==
  /\ messages[i].msg.type = "Reply"
  /\ Asked(messages[i].msg.corr, ev.msg.sender)

\* What the event callback knows about the message and the row it works on.
EvKnows ==
  /\ ev.pc \in {"find", "save", "corr", "send", "mark"} =>
       ev.msg.type = "Message" /\ ev.msg \in submitted
  /\ ev.pc = "rSave" => ev.msg \in submitted
  /\ ev.pc \in {"rSave", "rCorr", "rFind", "rSent", "rSend", "rMark",
                "rollback"} => ev.msg.type = "Reply"
  /\ ev.pc \in EvStored => /\ ev.id \in DOMAIN messages
                           /\ messages[ev.id].msg = ev.msg
  /\ (ev.pc \in {"save", "corr", "send"} /\ ev.sess # NoSession) =>
       SessionOf(ev.sess, ev.msg.dest)
  /\ ev.pc \in {"rSent", "rSend"} => SessionOf(ev.sess, ev.msg.dest)
  /\ ev.pc \in EvBacklog \cup EvReplies => SessionOf(ev.sess, ev.msg.sender)
  /\ ev.pc \in EvBacklog => \A i \in ev.todo : BacklogRow(i)
  /\ ev.pc \in {"offSend", "offDone"} => BacklogRow(ev.id)
  /\ ev.pc = "offDone" => ~NeedsAckFlag(messages[ev.id].msg)
  /\ ev.pc \in EvReplies => \A i \in ev.todo : ReplyRow(i)
  /\ ev.pc \in {"repSend", "repDone"} => ReplyRow(ev.id)
  /\ ev.pc \in {"aLook", "aDeliver"} =>
       /\ ev.msg.corr # 0
       /\ [by |-> ev.msg.sender, corr |-> ev.msg.corr] \in acks
  /\ ev.pc = "aDeliver" => /\ ev.id \in DOMAIN messages
                           /\ messages[ev.id].msg.corr = ev.msg.corr

\* What the ACK timer knows.
AkKnows ==
  ak.pc \in AkSending => SessionOf(ak.sess, messages[ak.id].msg.dest)

\* Clients send what they may: they acknowledge what they received, and reply
\* to what they received once they have acknowledged it.
ClientsHonest ==
  /\ submitted \subseteq Requests
  /\ \A m \in submitted : m.type \in {"Message", "Reply"}
  /\ \A k \in acks : k.corr # 0 =>
       \E r \in received : /\ r.name = k.by
                           /\ r.msg.corr = k.corr
                           /\ NeedsAckFlag(r.msg)
  /\ \A p \in submitted : p.type = "Reply" =>
       \E m \in submitted : /\ m.type = "Message"
                            /\ "NeedsReply" \in m.flags
                            /\ m.corr = p.corr
  /\ \A m, p \in submitted :
       (/\ m.type = "Message" /\ NeedsAckFlag(m) /\ m.corr # 0
        /\ p.type = "Reply" /\ p.corr = m.corr) => AckedByDestination(m)

DeliveryInv ==
  /\ WellFormed
  /\ SessionsKnown
  /\ RowsStorable
  /\ CarriedSendable
  /\ ReceivedSendable
  /\ CorrelationsLead
  /\ EvKnows
  /\ AkKnows
  /\ ClientsHonest
  /\ AckedBeforeDelivered

-----------------------------------------------------------------------------
(* What a step does to rows, queues and sessions *)

\* A row that may become DELIVERED.
MayComplete(i) ==
  LET m == messages[i].msg
  IN  (m.type = "Message" /\ NeedsAckFlag(m)) => AckedByDestination(m)

\* The step adds rows only for the messages `saved` and for what is queued, or
\* is sent to the session `to`; it makes only rows of `done` DELIVERED.
RowsFrom(saved, to, sent, done) ==
  /\ Later(messages, messages', done)
  /\ \A i \in DOMAIN messages' \ DOMAIN messages :
       /\ messages'[i].status = "PENDING"
       /\ \/ messages'[i].msg \in saved
          \/ \E s \in SessionIds, m \in Message :
               /\ Carried(s, m) \/ (s = to /\ m \in sent)
               /\ messages'[i].msg = Copy(m, sessions[s].name)

\* Sessions stay and keep their names; only `sent` is new in a queue, on its
\* way to the session `to`.
SessionsFrom(to, sent) ==
  /\ \A s \in SessionIds :
       Born(s) => Born(s)' /\ sessions'[s].name = sessions[s].name
  /\ \A s \in SessionIds, m \in Message :
       Carried(s, m)' => Carried(s, m) \/ (s = to /\ m \in sent)

\* The arguments of the two are as they have to be.
Proper(saved, to, sent, done) ==
  /\ \A m \in saved : Storable(m)
  /\ \A m \in sent : Born(to) /\ Sendable(m, sessions[to].name)
  /\ \A i \in done : i \in DOMAIN messages => MayComplete(i)

\* What is known of messages stays true as the store and `submitted` grow.
LEMMA StaysTrue ==
  ASSUME NEW done, Later(messages, messages', done),
         submitted \subseteq submitted'
  PROVE  /\ \A c, n : Asked(c, n) => Asked(c, n)'
         /\ \A m : Genuine(m) => Genuine(m)'
         /\ \A m : Storable(m) => Storable(m)'
         /\ \A m, n : Sendable(m, n) => Sendable(m, n)'
<1>1. \A c, n : Asked(c, n) => Asked(c, n)'
  BY DEF Asked
<1>2. \A m : Genuine(m) => Genuine(m)'
  BY DEF Genuine
<1>3. \A m : Storable(m) => Storable(m)'
  BY <1>1, <1>2 DEF Storable
<1>4. ASSUME NEW m, NEW n, Sendable(m, n) PROVE Sendable(m, n)'
  <2>1. ASSUME NEW i \in DOMAIN messages, messages[i].msg = m
        PROVE  i \in DOMAIN messages' /\ messages'[i].msg = m
    BY <2>1 DEF Later, Grown
  <2>2. (m.type # "Ack" => \E i \in DOMAIN messages : messages[i].msg = m)'
    BY <1>4, <2>1 DEF Sendable
  <2> QED
    BY <1>1, <1>2, <1>4, <2>2 DEF Sendable
<1> QED
  BY <1>1, <1>2, <1>3, <1>4

\* A message is stored as it would be sent: with the name of its session as
\* the destination.
LEMMA CopyStorable ==
  ASSUME NEW m \in Message, NEW name, Sendable(m, name)
  PROVE  Storable(Copy(m, name))
<1> DEFINE c == Copy(m, name)
<1>1. /\ c.type = m.type /\ c.flags = m.flags /\ c.corr = m.corr
      /\ c.dest = name
      /\ m.type = "Message" => c = m
  <2>1. c.type = m.type /\ c.flags = m.flags /\ c.corr = m.corr
        /\ c.dest = name
    BY DEF Message, Copy
  <2>2. ASSUME m.type = "Message" PROVE c = m
    <3>1. m.dest = name
      BY <2>2 DEF Sendable
    <3> QED
      BY <3>1 DEF Message, Copy
  <2> QED
    BY <2>1, <2>2
<1> HIDE DEF c
<1>2. Genuine(c)
  BY <1>1 DEF Sendable, Genuine
<1>3. c.type = "Reply" => Asked(c.corr, c.dest)
  BY <1>1 DEF Sendable
<1> QED
  BY <1>2, <1>3 DEF Storable, c

LEMMA OnItsWay ==
  ASSUME DeliveryInv, NEW saved, NEW to, NEW sent, NEW done,
         Proper(saved, to, sent, done),
         NEW s \in SessionIds, NEW m \in Message,
         Carried(s, m) \/ (s = to /\ m \in sent)
  PROVE  /\ Born(s)
         /\ sessions[s].name \in Names \cup {NoName}
         /\ Sendable(m, sessions[s].name)
<1>1. sessions[s].name \in Names \cup {NoName}
  BY DEF DeliveryInv, WellFormed, TypeOK, SessionsTypeOK, Session
<1>2. CASE Carried(s, m)
  BY <1>1, <1>2 DEF DeliveryInv, CarriedSendable
<1>3. CASE s = to /\ m \in sent
  BY <1>1, <1>3 DEF Proper
<1> QED
  BY <1>2, <1>3

\* A step that does no more than that keeps what the invariant says of the
\* rows and of what clients have received.
LEMMA RowsKept ==
  ASSUME DeliveryInv, submitted \subseteq submitted', acks \subseteq acks',
         received' = received,
         NEW saved, NEW to, NEW sent, NEW done,
         RowsFrom(saved, to, sent, done), Proper(saved, to, sent, done)
  PROVE  RowsStorable' /\ ReceivedSendable' /\ AckedBeforeDelivered'
<1>0. Later(messages, messages', done)
  BY DEF RowsFrom
<1>1. ASSUME NEW s \in SessionIds, NEW m \in Message,
             Carried(s, m) \/ (s = to /\ m \in sent)
      PROVE  Sendable(m, sessions[s].name)
  BY <1>1, OnItsWay
<1>2. RowsStorable'
  <2> SUFFICES ASSUME NEW i \in DOMAIN messages', NEW m \in Message,
                      messages'[i].msg = m
               PROVE  Storable(m)'
    BY DEF RowsStorable
  <2>1. CASE i \in DOMAIN messages
    <3>1. messages[i].msg = m
      BY <1>0, <2>1 DEF Later
    <3>2. Storable(m)
      BY <2>1, <3>1 DEF DeliveryInv, RowsStorable
    <3> QED
      BY <1>0, <3>2, StaysTrue
  <2>2. CASE i \notin DOMAIN messages
    <3>1. CASE m \in saved
      BY <1>0, <3>1, StaysTrue DEF Proper
    <3>2. CASE \E s \in SessionIds, k \in Message :
                 /\ Carried(s, k) \/ (s = to /\ k \in sent)
                 /\ m = Copy(k, sessions[s].name)
      <4>1. PICK s \in SessionIds, k \in Message :
                   /\ Carried(s, k) \/ (s = to /\ k \in sent)
                   /\ m = Copy(k, sessions[s].name)
        BY <3>2
      <4>2. Storable(m)
        BY <1>1, <4>1, CopyStorable
      <4> QED
        BY <1>0, <4>2, StaysTrue
    <3> QED
      BY <2>2, <3>1, <3>2 DEF RowsFrom
  <2> QED
    BY <2>1, <2>2
<1>3. ReceivedSendable'
  BY <1>0, StaysTrue DEF DeliveryInv, ReceivedSendable
<1>4. AckedBeforeDelivered'
  <2> SUFFICES ASSUME NEW i \in DOMAIN messages',
                      messages'[i].msg.type = "Message",
                      NeedsAckFlag(messages[i].msg)',
                      messages'[i].status = "DELIVERED"
               PROVE  AckedByDestination(messages[i].msg)'
    BY DEF AckedBeforeDelivered, Awaiting
  <2>1. i \in DOMAIN messages
    BY DEF RowsFrom
  <2>2. /\ messages'[i].msg = messages[i].msg
        /\ messages[i].status = "DELIVERED" \/ i \in done
    BY <1>0, <2>1 DEF Later
  <2>3. AckedByDestination(messages[i].msg)
    <3>1. CASE messages[i].status = "DELIVERED"
      BY <2>1, <2>2, <3>1
         DEF DeliveryInv, AckedBeforeDelivered, Awaiting, NeedsAckFlag
    <3>2. CASE i \in done
      BY <2>1, <2>2, <3>2 DEF Proper, MayComplete, NeedsAckFlag
    <3> QED
      BY <2>2, <3>1, <3>2
  <2> QED
    BY <2>2, <2>3 DEF AckedByDestination
<1> QED
  BY <1>2, <1>3, <1>4

\* The same of the queues.
LEMMA FlowKept ==
  ASSUME DeliveryInv, submitted \subseteq submitted', acks \subseteq acks',
         received' = received,
         NEW saved, NEW to, NEW sent, NEW done,
         RowsFrom(saved, to, sent, done), SessionsFrom(to, sent),
         Proper(saved, to, sent, done)
  PROVE  /\ RowsStorable'
         /\ CarriedSendable'
         /\ ReceivedSendable'
         /\ AckedBeforeDelivered'
<1>1. CarriedSendable'
  <2> SUFFICES ASSUME NEW s \in SessionIds, NEW m \in Message,
                      NEW name \in Names \cup {NoName},
                      Carried(s, m)', sessions'[s].name = name
               PROVE  Born(s)' /\ Sendable(m, name)'
    BY DEF CarriedSendable
  <2>1. Carried(s, m) \/ (s = to /\ m \in sent)
    BY DEF SessionsFrom
  <2>2. Born(s) /\ Sendable(m, sessions[s].name)
    BY <2>1, OnItsWay
  <2>3. Born(s)' /\ sessions[s].name = name
    BY <2>2 DEF SessionsFrom
  <2> QED
    BY <2>2, <2>3, StaysTrue DEF RowsFrom
<1> QED
  BY <1>1, RowsKept
-----------------------------------------------------------------------------
(* The operators of Storage and Sessions, in these terms *)

\* Nothing, an update of a row, and a new row.
LEMMA StoreFlow ==
  ASSUME TypeOK
  PROVE  /\ \A to, sent : messages' = messages => RowsFrom({}, to, sent, {})
         /\ \A id : messages' = MarkDelivered(messages, id) =>
                      RowsFrom({}, NoSession, {}, {id})
         /\ \A id : (\/ messages' = MarkSent(messages, id)
                     \/ messages' = MarkPending(messages, id)) =>
                      RowsFrom({}, NoSession, {}, {})
         /\ \A m \in Message : messages' = SaveMessage(messages, m) =>
                      RowsFrom({m}, NoSession, {}, {})
<1>0. messages \in Seq(Row)
  BY DEF TypeOK, StorageTypeOK
<1>1. ASSUME NEW to, NEW sent, messages' = messages
      PROVE  RowsFrom({}, to, sent, {})
  BY <1>0, <1>1, SameRows DEF RowsFrom
<1>2. ASSUME NEW id, messages' = MarkDelivered(messages, id)
      PROVE  RowsFrom({}, NoSession, {}, {id})
  BY <1>0, <1>2, MarkRows DEF RowsFrom
<1>3. ASSUME NEW id, \/ messages' = MarkSent(messages, id)
                     \/ messages' = MarkPending(messages, id)
      PROVE  RowsFrom({}, NoSession, {}, {})
  BY <1>0, <1>3, MarkRows DEF RowsFrom
<1>4. ASSUME NEW m \in Message, messages' = SaveMessage(messages, m)
      PROVE  RowsFrom({m}, NoSession, {}, {})
  <2>1. /\ Later(messages, messages', {})
        /\ DOMAIN messages' = DOMAIN messages \cup {Len(messages) + 1}
        /\ messages'[Len(messages) + 1] = [msg |-> m, status |-> "PENDING"]
    BY <1>0, <1>4, SaveRows
  <2> QED
    BY <2>1 DEF RowsFrom
<1> QED
  BY <1>1, <1>2, <1>3, <1>4

\* The first messages of a queue are persisted.
LEMMA PersistedFlow ==
  ASSUME TypeOK, NEW s \in SessionIds, NEW to, NEW sent,
         NEW q \in Seq(Message), NEW n \in 0..Len(q),
         \A k \in DOMAIN q : Carried(s, q[k]) \/ (s = to /\ q[k] \in sent),
         messages' = Persisted(messages, sessions[s].name, q, n)
  PROVE  RowsFrom({}, to, sent, {})
<1>0. messages \in Seq(Row) /\ sessions[s].name \in Names \cup {NoName}
  BY DEF TypeOK, StorageTypeOK, SessionsTypeOK, Session
<1>1. /\ Later(messages, messages', {})
      /\ \A i \in DOMAIN messages' \ DOMAIN messages :
           /\ messages'[i].status = "PENDING"
           /\ \E k \in DOMAIN q :
                messages'[i].msg = Copy(q[k], sessions[s].name)
  <2>1. PICK name \in Names \cup {NoName} : name = sessions[s].name
    BY <1>0
  <2>2. messages' = Persisted(messages, name, q, n)
    BY <2>1
  <2>3. /\ Later(messages, messages', {})
        /\ \A i \in DOMAIN messages' \ DOMAIN messages :
             /\ messages'[i].status = "PENDING"
             /\ \E k \in DOMAIN q : messages'[i].msg = Copy(q[k], name)
    <3> DEFINE u == Persisted(messages, name, q, n)
    <3>0. Later(messages, u, {})
      BY <1>0, PersistedRows
    <3>1. ASSUME NEW i \in DOMAIN u \ DOMAIN messages
          PROVE  /\ u[i].status = "PENDING"
                 /\ \E k \in DOMAIN q : u[i].msg = Copy(q[k], name)
      BY <1>0, PersistedRows
    <3> HIDE DEF u
    <3>2. messages' = u
      BY <2>2 DEF u
    <3> QED
      BY <3>0, <3>1, <3>2, Zenon
  <2> QED
    BY <2>1, <2>3, Zenon
<1>2. \A k \in DOMAIN q : q[k] \in Message
  BY ElementOfSeq
<1> QED
  BY <1>1, <1>2 DEF RowsFrom

\* What is left of a queue after a pop was in it.
LEMMA PoppedQueue ==
  ASSUME NEW q \in Seq(Message), NEW n \in 0..Len(q),
         NEW k \in DOMAIN SubSeq(q, n + 1, Len(q))
  PROVE  \E j \in DOMAIN q : SubSeq(q, n + 1, Len(q))[k] = q[j]
<1> DEFINE u == SubSeq(q, n + 1, Len(q))
<1>0. Len(q) \in Nat /\ DOMAIN q = 1..Len(q) /\ n \in Nat
  BY LenProperties
<1>1. /\ Len(u) = IF n + 1 <= Len(q) THEN Len(q) - (n + 1) + 1 ELSE 0
      /\ \A i \in 1..Len(u) : u[i] = q[(n + 1) + i - 1]
      /\ u \in Seq(Message)
  BY <1>0, SubSeqProperties
<1> HIDE DEF u
<1>2. k \in 1..Len(u)
  BY <1>1, LenProperties DEF u
<1>3. k \in Nat /\ 1 <= k /\ k <= Len(u) /\ Len(u) \in Nat
  BY <1>1, <1>2, LenProperties
<1>4. Len(u) = Len(q) - n
  BY <1>0, <1>1, <1>3
<1>5. n + k \in 1..Len(q) /\ (n + 1) + k - 1 = n + k
  BY <1>0, <1>3, <1>4
<1>6. u[k] = q[n + k]
  BY <1>1, <1>2, <1>5
<1> QED
  BY <1>0, <1>5, <1>6 DEF u

\* Sessions that keep their names and the queues they have, or parts of them.
LEMMA SessionsKept ==
  ASSUME NEW to, NEW sent, outbox' = outbox,
         \A s \in SessionIds :
           /\ Born(s) => Born(s)' /\ sessions'[s].name = sessions[s].name
           /\ \A k \in DOMAIN sessions'[s].queue :
                \/ s = to /\ sessions'[s].queue[k] \in sent
                \/ \E j \in DOMAIN sessions[s].queue :
                     sessions'[s].queue[k] = sessions[s].queue[j]
  PROVE  SessionsFrom(to, sent)
<1>1. ASSUME NEW s \in SessionIds, NEW m \in Message, Carried(s, m)'
      PROVE  Carried(s, m) \/ (s = to /\ m \in sent)
  <2>1. CASE \E i \in DOMAIN outbox' : outbox'[i] = [sess |-> s, msg |-> m]
    BY <2>1 DEF Carried
  <2>2. CASE \E i \in DOMAIN sessions'[s].queue : sessions'[s].queue[i] = m
    BY <2>2 DEF Carried
  <2> QED
    BY <1>1, <2>1, <2>2 DEF Carried
<1> QED
  BY <1>1 DEF SessionsFrom

\* Nothing, MarkOffline, a pop, and ~Session.
LEMMA SessionFlow ==
  ASSUME TypeOK, outbox' = outbox, NEW s \in SessionIds
  PROVE  /\ sessions' = sessions => SessionsFrom(NoSession, {})
         /\ sessions' = MarkOffline(sessions, s) => SessionsFrom(NoSession, {})
         /\ \A n \in 0..Len(sessions[s].queue) :
              (\/ sessions' = Popped(sessions, s, sessions[s].queue, n)
               \/ sessions' = MarkOffline(Popped(sessions, s,
                                                 sessions[s].queue, n), s))
              => SessionsFrom(NoSession, {})
         /\ sessions' = [sessions EXCEPT ![s] =
              [status |-> "destroyed", name |-> @.name, queue |-> <<>>]]
              => SessionsFrom(NoSession, {})
<1>0. sessions \in [SessionIds -> Session] /\ sessions[s].queue \in Seq(Message)
  BY DEF TypeOK, SessionsTypeOK, Session
<1>1. ASSUME sessions' = sessions \/ sessions' = MarkOffline(sessions, s)
      PROVE  SessionsFrom(NoSession, {})
  <2>1. ASSUME NEW r \in SessionIds
        PROVE  /\ Born(r) => Born(r)'
               /\ sessions'[r].name = sessions[r].name
               /\ sessions'[r].queue = sessions[r].queue
    BY <1>0, <1>1 DEF MarkOffline, Born, Session
  <2> QED
    BY <2>1, SessionsKept
<1>2. ASSUME NEW n \in 0..Len(sessions[s].queue),
             \/ sessions' = Popped(sessions, s, sessions[s].queue, n)
             \/ sessions' = MarkOffline(Popped(sessions, s,
                                               sessions[s].queue, n), s)
      PROVE  SessionsFrom(NoSession, {})
  <2> DEFINE q == sessions[s].queue
             u == SubSeq(q, n + 1, Len(q))
             p == Popped(sessions, s, q, n)
  <2>1. ASSUME NEW r \in SessionIds
        PROVE  /\ p[r].status = sessions[r].status
               /\ p[r].name = sessions[r].name
               /\ p[r].queue = IF r = s THEN u ELSE sessions[r].queue
    <3> HIDE DEF q, u
    <3> QED
      BY <1>0 DEF Popped, Session, u
  <2>2. p \in [SessionIds -> Session]
    BY <1>0, SessionUpdates
  <2>3. \A k \in DOMAIN u : \E j \in DOMAIN q : u[k] = q[j]
    BY <1>0, PoppedQueue
  <2> HIDE DEF p, u
  <2>4. ASSUME NEW r \in SessionIds
        PROVE  /\ Born(r) => Born(r)'
               /\ sessions'[r].name = sessions[r].name
               /\ sessions'[r].queue = IF r = s THEN u ELSE sessions[r].queue
    <3>1. sessions' = p \/ sessions' = MarkOffline(p, s)
      BY <1>2 DEF p
    <3> QED
      BY <2>1, <2>2, <3>1 DEF MarkOffline, Born, Session
  <2>5. ASSUME NEW r \in SessionIds, NEW k \in DOMAIN sessions'[r].queue
        PROVE  \E j \in DOMAIN sessions[r].queue :
                 sessions'[r].queue[k] = sessions[r].queue[j]
    <3>1. CASE r = s
      BY <2>3, <2>4, <2>5, <3>1
    <3>2. CASE r # s
      BY <2>4, <2>5, <3>2
    <3> QED
      BY <3>1, <3>2
  <2>6. \A r \in SessionIds :
          /\ Born(r) => Born(r)' /\ sessions'[r].name = sessions[r].name
          /\ \A k \in DOMAIN sessions'[r].queue :
               \/ r = NoSession /\ sessions'[r].queue[k] \in {}
               \/ \E j \in DOMAIN sessions[r].queue :
                    sessions'[r].queue[k] = sessions[r].queue[j]
    BY <2>4, <2>5, Zenon
  <2> QED
    BY ONLY <2>6, SessionsKept, outbox' = outbox
<1>3. ASSUME sessions' = [sessions EXCEPT ![s] =
               [status |-> "destroyed", name |-> @.name, queue |-> <<>>]]
      PROVE  SessionsFrom(NoSession, {})
  <2>1. ASSUME NEW r \in SessionIds
        PROVE  /\ Born(r) => Born(r)'
               /\ sessions'[r].name = sessions[r].name
               /\ sessions'[r].queue = IF r = s THEN <<>> ELSE sessions[r].queue
    BY <1>0, <1>3 DEF Born, Session
  <2>2. ASSUME NEW r \in SessionIds, NEW k \in DOMAIN sessions'[r].queue
        PROVE  \E j \in DOMAIN sessions[r].queue :
                 sessions'[r].queue[k] = sessions[r].queue[j]
    BY <2>1, <2>2
  <2>3. \A r \in SessionIds :
          /\ Born(r) => Born(r)' /\ sessions'[r].name = sessions[r].name
          /\ \A k \in DOMAIN sessions'[r].queue :
               \/ r = NoSession /\ sessions'[r].queue[k] \in {}
               \/ \E j \in DOMAIN sessions[r].queue :
                    sessions'[r].queue[k] = sessions[r].queue[j]
    BY <2>1, <2>2, Zenon
  <2> QED
    BY <2>3, SessionsKept
<1> QED
  BY <1>1, <1>2, <1>3

\* SendMessage: the message is new on its way, and over the threshold the
\* older half of the queue is persisted.
LEMMA SendFlow ==
  ASSUME TypeOK, NEW s \in SessionIds, NEW m \in Message, SendMessage(s, m)
  PROVE  RowsFrom({}, s, {m}, {}) /\ SessionsFrom(s, {m})
<1>0. /\ sessions \in [SessionIds -> Session]
      /\ sessions[s].queue \in Seq(Message)
      /\ outbox \in Seq(PendingSend)
  BY DEF TypeOK, SessionsTypeOK, Session
<1>1. CASE /\ outbox' = Append(outbox, [sess |-> s, msg |-> m])
           /\ UNCHANGED <<sessions, messages>>
  <2> DEFINE p == [sess |-> s, msg |-> m]
  <2>1. RowsFrom({}, s, {m}, {})
    BY <1>1, StoreFlow
  <2>2. p \in PendingSend
    BY DEF PendingSend
  <2> HIDE DEF p
  <2>3. /\ DOMAIN outbox' = DOMAIN outbox \cup {Len(outbox) + 1}
        /\ \A i \in DOMAIN outbox : outbox'[i] = outbox[i]
        /\ outbox'[Len(outbox) + 1] = p
    <3>1. /\ Append(outbox, p) \in Seq(PendingSend)
          /\ Len(Append(outbox, p)) = Len(outbox) + 1
          /\ \A i \in 1..Len(outbox) : Append(outbox, p)[i] = outbox[i]
          /\ Append(outbox, p)[Len(outbox) + 1] = p
      BY <1>0, <2>2, AppendProperties
    <3>2. outbox' = Append(outbox, p)
      BY <1>1 DEF p
    <3>3. /\ Len(outbox) \in Nat /\ DOMAIN outbox = 1..Len(outbox)
          /\ DOMAIN outbox' = 1..(Len(outbox) + 1)
      BY <1>0, <3>1, <3>2, LenProperties
    <3> QED
      BY <3>1, <3>2, <3>3
  <2>4. ASSUME NEW r \in SessionIds, NEW k \in Message, Carried(r, k)'
        PROVE  Carried(r, k) \/ (r = s /\ k \in {m})
    <3>1. CASE \E i \in DOMAIN sessions'[r].queue : sessions'[r].queue[i] = k
      BY <1>1, <3>1 DEF Carried
    <3>2. CASE \E i \in DOMAIN outbox' : outbox'[i] = [sess |-> r, msg |-> k]
      <4>1. PICK i \in DOMAIN outbox' : outbox'[i] = [sess |-> r, msg |-> k]
        BY <3>2
      <4>2. CASE i \in DOMAIN outbox
        BY <2>3, <4>1, <4>2 DEF Carried
      <4>3. CASE i = Len(outbox) + 1
        BY <2>3, <4>1, <4>3 DEF p
      <4> QED
        BY <2>3, <4>2, <4>3
    <3> QED
      BY <2>4, <3>1, <3>2 DEF Carried
  <2>5. SessionsFrom(s, {m})
    BY <1>1, <2>4 DEF SessionsFrom, Born
  <2> QED
    BY <2>1, <2>5
<1>2. CASE EnqueueMessage(s, m) /\ UNCHANGED outbox
  <2> DEFINE q == Append(sessions[s].queue, m)
             n == IF Len(q) > Threshold THEN Len(q) \div 2 ELSE 0
             u == SubSeq(q, n + 1, Len(q))
  <2>1. /\ sessions' = Popped(sessions, s, q, n)
        /\ messages' = Persisted(messages, sessions[s].name, q, n)
    BY <1>2 DEF EnqueueMessage
  <2>2. /\ q \in Seq(Message) /\ Len(q) \in Nat
        /\ \A k \in DOMAIN q :
             \/ q[k] = m
             \/ \E j \in DOMAIN sessions[s].queue : q[k] = sessions[s].queue[j]
    <3> DEFINE o == sessions[s].queue
    <3> HIDE DEF o
    <3>1. /\ Append(o, m) \in Seq(Message)
          /\ Len(Append(o, m)) = Len(o) + 1
          /\ \A i \in 1..Len(o) : Append(o, m)[i] = o[i]
          /\ Append(o, m)[Len(o) + 1] = m
      BY <1>0, AppendProperties DEF o
    <3>2. /\ Len(o) \in Nat /\ DOMAIN o = 1..Len(o)
          /\ DOMAIN Append(o, m) = 1..(Len(o) + 1)
      BY <1>0, <3>1, LenProperties DEF o
    <3> QED
      BY <3>1, <3>2 DEF o
  <2>3. n \in 0..Len(q)
    <3> HIDE DEF q
    <3> QED
      BY <2>2
  <2> HIDE DEF q, n
  <2>4. \A k \in DOMAIN q : q[k] \in Message
    BY <2>2, ElementOfSeq
  <2>5. RowsFrom({}, s, {m}, {})
    <3>1. \A k \in DOMAIN q : Carried(s, q[k]) \/ (s = s /\ q[k] \in {m})
      BY <2>2 DEF Carried
    <3> QED
      BY <2>1, <2>2, <2>3, <3>1, PersistedFlow
  <2>6. ASSUME NEW r \in SessionIds
        PROVE  /\ sessions'[r].status = sessions[r].status
               /\ sessions'[r].name = sessions[r].name
               /\ sessions'[r].queue = IF r = s THEN u ELSE sessions[r].queue
    <3> HIDE DEF u
    <3> QED
      BY <1>0, <2>1 DEF Popped, Session, u
  <2>7. \A k \in DOMAIN u : \E j \in DOMAIN q : u[k] = q[j]
    BY <2>2, <2>3, PoppedQueue
  <2> HIDE DEF u
  <2>8. ASSUME NEW r \in SessionIds, NEW k \in DOMAIN sessions'[r].queue
        PROVE  \/ r = s /\ sessions'[r].queue[k] \in {m}
               \/ \E j \in DOMAIN sessions[r].queue :
                    sessions'[r].queue[k] = sessions[r].queue[j]
    <3>1. CASE r = s
      BY <2>2, <2>6, <2>7, <2>8, <3>1
    <3>2. CASE r # s
      BY <2>6, <2>8, <3>2
    <3> QED
      BY <3>1, <3>2
  <2>9. \A r \in SessionIds :
          Born(r) => Born(r)' /\ sessions'[r].name = sessions[r].name
    BY <2>6 DEF Born
  <2>10. outbox' = outbox
    BY <1>2
  <2>11. \A r \in SessionIds :
          /\ Born(r) => Born(r)' /\ sessions'[r].name = sessions[r].name
          /\ \A k \in DOMAIN sessions'[r].queue :
               \/ r = s /\ sessions'[r].queue[k] \in {m}
               \/ \E j \in DOMAIN sessions[r].queue :
                    sessions'[r].queue[k] = sessions[r].queue[j]
    BY <2>8, <2>9, Zenon
  <2>12. SessionsFrom(s, {m})
    BY ONLY <2>10, <2>11, SessionsKept
  <2> QED
    BY <2>5, <2>12
<1> QED
  BY <1>1, <1>2 DEF SendMessage

\* PersistQueue to the end or until it throws, and Release.
LEMMA PersistFlow ==
  ASSUME TypeOK, NEW s \in SessionIds
  PROVE  /\ PersistQueue(s) => RowsFrom({}, NoSession, {}, {})
         /\ \A n \in 0..Len(sessions[s].queue) :
              PersistQueueThrows(s, n) => RowsFrom({}, NoSession, {}, {})
         /\ \A refs : Release(s, refs) /\ outbox' = outbox =>
              /\ RowsFrom({}, NoSession, {}, {})
              /\ SessionsFrom(NoSession, {})
         /\ \A refs : ReleaseTerminates(s, refs) =>
              /\ Restart
              /\ RowsFrom({}, NoSession, {}, {})
<1>0. /\ sessions[s].queue \in Seq(Message)
      /\ Len(sessions[s].queue) \in 0..Len(sessions[s].queue)
  BY LenProperties DEF TypeOK, SessionsTypeOK, Session
<1>1. \A k \in DOMAIN sessions[s].queue : Carried(s, sessions[s].queue[k])
  BY DEF Carried
<1>2. ASSUME NEW n \in 0..Len(sessions[s].queue),
             messages' = Persisted(messages, sessions[s].name,
                                   sessions[s].queue, n)
      PROVE  RowsFrom({}, NoSession, {}, {})
  BY <1>0, <1>1, <1>2, PersistedFlow
<1>3. PersistQueue(s) => RowsFrom({}, NoSession, {}, {})
  BY <1>0, <1>2 DEF PersistQueue
<1>4. ASSUME NEW n \in 0..Len(sessions[s].queue), PersistQueueThrows(s, n)
      PROVE  RowsFrom({}, NoSession, {}, {})
  BY <1>2, <1>4 DEF PersistQueueThrows
<1>5. ASSUME NEW refs, Release(s, refs), outbox' = outbox
      PROVE  RowsFrom({}, NoSession, {}, {}) /\ SessionsFrom(NoSession, {})
  <2>1. CASE UNCHANGED <<sessions, messages>>
    BY <1>5, <2>1, StoreFlow, SessionFlow
  <2>2. CASE Destroy(s)
    BY <1>3, <1>5, <2>2, SessionFlow DEF Destroy
  <2> QED
    BY <1>5, <2>1, <2>2 DEF Release
<1>6. ASSUME NEW refs, ReleaseTerminates(s, refs)
      PROVE  Restart /\ RowsFrom({}, NoSession, {}, {})
  BY <1>4, <1>6 DEF ReleaseTerminates
<1> QED
  BY <1>3, <1>4, <1>5, <1>6

\* FlushQueue moves a queue to the send queue.
LEMMA FlushFlow ==
  ASSUME TypeOK, NEW s \in SessionIds, FlushQueue(s)
  PROVE  SessionsFrom(NoSession, {})
<1>0. /\ sessions \in [SessionIds -> Session]
      /\ sessions[s].queue \in Seq(Message)
      /\ outbox \in Seq(PendingSend)
  BY DEF TypeOK, SessionsTypeOK, Session
<1>1. CASE UNCHANGED <<sessions, outbox>>
  BY <1>1, SessionFlow
<1>2. CASE IsOnline(s)
  <2> DEFINE q == sessions[s].queue
             p == [i \in 1..Len(q) |-> [sess |-> s, msg |-> q[i]]]
             u == SubSeq(q, Len(q) + 1, Len(q))
  <2>1. outbox' = outbox \o p /\ sessions' = Popped(sessions, s, q, Len(q))
    BY <1>2 DEF FlushQueue
  <2>2. Len(q) \in Nat /\ Len(q) \in 0..Len(q) /\ DOMAIN q = 1..Len(q)
    BY <1>0, LenProperties
  <2>3. /\ p \in Seq(PendingSend) /\ Len(p) = Len(q)
        /\ \A i \in 1..Len(q) : p[i] = [sess |-> s, msg |-> q[i]]
    <3>1. \A i \in 1..Len(q) : q[i] \in Message
      BY <1>0, <2>2, ElementOfSeq
    <3> HIDE DEF q
    <3>2. \A i \in 1..Len(q) : [sess |-> s, msg |-> q[i]] \in PendingSend
      BY <3>1 DEF PendingSend
    <3>3. p \in Seq(PendingSend)
      BY <2>2, <3>2, IsASeq
    <3> QED
      BY <2>2, <3>3, LenProperties
  <2>4. ASSUME NEW r \in SessionIds
        PROVE  /\ sessions'[r].status = sessions[r].status
               /\ sessions'[r].name = sessions[r].name
               /\ sessions'[r].queue = IF r = s THEN u ELSE sessions[r].queue
    <3> HIDE DEF q, u
    <3> QED
      BY <1>0, <2>1 DEF Popped, Session, u
  <2>5. \A k \in DOMAIN u : \E j \in DOMAIN q : u[k] = q[j]
    BY <1>0, <2>2, PoppedQueue
  <2> HIDE DEF u, p
  <2>6. \A i \in DOMAIN outbox' :
          \/ i \in DOMAIN outbox /\ outbox'[i] = outbox[i]
          \/ \E j \in DOMAIN q : outbox'[i] = [sess |-> s, msg |-> q[j]]
    <3>1. /\ outbox \o p \in Seq(PendingSend)
          /\ Len(outbox \o p) = Len(outbox) + Len(p)
          /\ \A i \in 1..Len(outbox) + Len(p) :
               (outbox \o p)[i] =
                 IF i <= Len(outbox) THEN outbox[i] ELSE p[i - Len(outbox)]
      <4>1. outbox \in Seq(PendingSend) /\ p \in Seq(PendingSend)
        BY <1>0, <2>3
      <4> QED
        BY ONLY <4>1, ConcatProperties
    <3>2. /\ Len(outbox) \in Nat /\ DOMAIN outbox = 1..Len(outbox)
          /\ DOMAIN outbox' = 1..(Len(outbox) + Len(q))
      BY <1>0, <2>1, <2>3, <3>1, LenProperties
    <3> HIDE DEF q
    <3> SUFFICES ASSUME NEW i \in DOMAIN outbox', i \notin DOMAIN outbox
                 PROVE  \E j \in DOMAIN q :
                          outbox'[i] = [sess |-> s, msg |-> q[j]]
      BY <2>1, <2>2, <2>3, <3>1, <3>2
    <3>3. PICK j \in 1..Len(q) : j = i - Len(outbox)
      BY <2>2, <3>2
    <3>4. i \in 1..Len(outbox) + Len(p) /\ ~(i <= Len(outbox))
      BY <2>2, <2>3, <3>2
    <3>5. outbox'[i] = p[j]
      BY <2>1, <3>1, <3>3, <3>4
    <3> QED
      BY <2>2, <2>3, <3>5
  <2>7. ASSUME NEW r \in SessionIds, NEW k \in Message, Carried(r, k)'
        PROVE  Carried(r, k)
    <3>1. CASE \E i \in DOMAIN sessions'[r].queue : sessions'[r].queue[i] = k
      <4>1. CASE r = s
        BY <2>4, <2>5, <3>1, <4>1 DEF Carried
      <4>2. CASE r # s
        BY <2>4, <3>1, <4>2 DEF Carried
      <4> QED
        BY <4>1, <4>2
    <3>2. CASE \E i \in DOMAIN outbox' : outbox'[i] = [sess |-> r, msg |-> k]
      <4>1. PICK i \in DOMAIN outbox' : outbox'[i] = [sess |-> r, msg |-> k]
        BY <3>2
      <4>2. CASE i \in DOMAIN outbox /\ outbox'[i] = outbox[i]
        BY <4>1, <4>2 DEF Carried
      <4>3. CASE \E j \in DOMAIN q : outbox'[i] = [sess |-> s, msg |-> q[j]]
        BY <4>1, <4>3 DEF Carried
      <4> QED
        BY <2>6, <4>2, <4>3
    <3> QED
      BY <2>7, <3>1, <3>2 DEF Carried
  <2>8. \A r \in SessionIds :
          Born(r) => Born(r)' /\ sessions'[r].name = sessions[r].name
    BY <2>4 DEF Born
  <2> QED
    BY <2>7, <2>8 DEF SessionsFrom
<1> QED
  BY <1>1, <1>2 DEF FlushQueue

-----------------------------------------------------------------------------
(* What the activities know stays true under the steps of the others *)

LEMMA EvKept ==
  ASSUME WellFormed, EvKnows, ev' = ev,
         NEW done, Later(messages, messages', done),
         NEW to, NEW sent, SessionsFrom(to, sent),
         submitted \subseteq submitted', acks \subseteq acks'
  PROVE  EvKnows'
<1>1. \A i \in DOMAIN messages :
        i \in DOMAIN messages' /\ messages'[i].msg = messages[i].msg
  BY DEF Later, Grown
<1>2. ASSUME NEW s, NEW name, SessionOf(s, name) PROVE SessionOf(s, name)'
  BY <1>2 DEF SessionOf, Born, SessionsFrom
<1>3. ASSUME NEW i \in DOMAIN messages
      PROVE  /\ BacklogRow(i) => BacklogRow(i)'
             /\ ReplyRow(i) => ReplyRow(i)'
  BY <1>1, <1>3 DEF BacklogRow, ReplyRow, Asked
<1>4. /\ ev.todo \subseteq DOMAIN messages
      /\ ev.pc \in {"offSend", "offDone", "repSend", "repDone"} =>
           ev.id \in DOMAIN messages
  BY DEF WellFormed, EvRefsOK
<1>5. /\ (ev.pc \in {"find", "save", "corr", "send", "mark"} =>
            ev.msg.type = "Message" /\ ev.msg \in submitted)'
      /\ (ev.pc = "rSave" => ev.msg \in submitted)'
      /\ (ev.pc \in {"rSave", "rCorr", "rFind", "rSent", "rSend", "rMark",
                     "rollback"} => ev.msg.type = "Reply")'
      /\ (ev.pc \in EvStored => /\ ev.id \in DOMAIN messages
                                /\ messages[ev.id].msg = ev.msg)'
  BY <1>1 DEF EvKnows
<1>6. /\ ((ev.pc \in {"save", "corr", "send"} /\ ev.sess # NoSession) =>
            SessionOf(ev.sess, ev.msg.dest))'
      /\ (ev.pc \in {"rSent", "rSend"} => SessionOf(ev.sess, ev.msg.dest))'
      /\ (ev.pc \in EvBacklog \cup EvReplies =>
            SessionOf(ev.sess, ev.msg.sender))'
  BY <1>2 DEF EvKnows, SessionOf, Born
<1>7. /\ (ev.pc \in EvBacklog => \A i \in ev.todo : BacklogRow(i))'
      /\ (ev.pc \in EvReplies => \A i \in ev.todo : ReplyRow(i))'
  BY <1>3, <1>4 DEF EvKnows
<1>8. /\ (ev.pc \in {"offSend", "offDone"} => BacklogRow(ev.id))'
      /\ (ev.pc = "offDone" => ~NeedsAckFlag(messages[ev.id].msg))'
      /\ (ev.pc \in {"repSend", "repDone"} => ReplyRow(ev.id))'
  BY <1>1, <1>4 DEF EvKnows, BacklogRow, ReplyRow, Asked, NeedsAckFlag
<1>9. /\ (ev.pc \in {"aLook", "aDeliver"} =>
            /\ ev.msg.corr # 0
            /\ [by |-> ev.msg.sender, corr |-> ev.msg.corr] \in acks)'
      /\ (ev.pc = "aDeliver" => /\ ev.id \in DOMAIN messages
                                /\ messages[ev.id].msg.corr = ev.msg.corr)'
  BY <1>1 DEF EvKnows
<1> QED
  BY <1>5, <1>6, <1>7, <1>8, <1>9 DEF EvKnows

LEMMA AkKept ==
  ASSUME WellFormed, AkKnows, ak' = ak,
         NEW done, Later(messages, messages', done),
         NEW to, NEW sent, SessionsFrom(to, sent)
  PROVE  AkKnows'
<1>1. ak.pc \in AkSending => ak.id \in DOMAIN messages
  BY DEF WellFormed, AkRefsOK, AkSending
<1> QED
  BY <1>1 DEF AkKnows, SessionOf, Born, SessionsFrom, Later, Grown

LEMMA CorrelationsKept ==
  ASSUME CorrelationsLead, correlations' \subseteq correlations,
         NEW done, Later(messages, messages', done),
         submitted \subseteq submitted'
  PROVE  CorrelationsLead'
<1>1. \A i \in DOMAIN messages :
        i \in DOMAIN messages' /\ messages'[i].msg = messages[i].msg
  BY DEF Later, Grown
<1>2. \A c, n : Asked(c, n) => Asked(c, n)'
  BY StaysTrue
<1> QED
  BY <1>1, <1>2 DEF CorrelationsLead

\* The registry changes only by losing entries, the event callback and the ACK
\* timer take up sessions that exist.
LEMMA SessionsStay ==
  ASSUME SessionsKnown, NEW to, NEW sent, SessionsFrom(to, sent),
         \A n \in Names : active'[n] \in {active[n], NoSession},
         ev'.sess # NoSession => Born(ev'.sess),
         ak'.sess # NoSession => Born(ak'.sess)
  PROVE  SessionsKnown'
<1>1. ASSUME NEW s, Born(s) PROVE Born(s)'
  BY <1>1 DEF Born, SessionsFrom
<1>2. ASSUME NEW s, NEW n, SessionOf(s, n) PROVE SessionOf(s, n)'
  BY <1>2 DEF SessionOf, Born, SessionsFrom
<1>3. ASSUME NEW n \in Names, active'[n] # NoSession
      PROVE  SessionOf(active[n], n)'
  <2>1. PICK s : s = active'[n]
    OBVIOUS
  <2>2. SessionOf(s, n)'
    BY <1>2, <1>3, <2>1 DEF SessionsKnown
  <2> QED
    BY <2>1, <2>2 DEF SessionOf, Born
<1>4. (ev.sess # NoSession => Born(ev.sess))'
  <2>1. PICK s : s = ev'.sess
    OBVIOUS
  <2>2. s # NoSession => Born(s)'
    BY <1>1, <2>1
  <2> QED
    BY <2>1, <2>2 DEF Born
<1>5. (ak.sess # NoSession => Born(ak.sess))'
  <2>1. PICK s : s = ak'.sess
    OBVIOUS
  <2>2. s # NoSession => Born(s)'
    BY <1>1, <2>1
  <2> QED
    BY <2>1, <2>2 DEF Born
<1> QED
  BY <1>3, <1>4, <1>5 DEF SessionsKnown

\* Where the event callback relies on nothing, or only on ev.sess.
EvUnaware == {"idle", "done", "upsert", "offLoad", "repLoad", "aReceived",
              "aNotify", "aSend", "aSave", "uFind", "uPersist", "uRemove"}

LEMMA Unaware == ev.pc \in EvUnaware => EvKnows
BY DEF EvUnaware, EvKnows, EvStored, EvBacklog, EvReplies

LEMMA UnawareNext == ev'.pc \in EvUnaware => EvKnows'
BY DEF EvUnaware, EvKnows, EvStored, EvBacklog, EvReplies

LEMMA HonestKept ==
  ASSUME ClientsHonest, UNCHANGED auxVars
  PROVE  ClientsHonest'
BY DEF ClientsHonest, auxVars, AckedByDestination

-----------------------------------------------------------------------------
(* Steps of one activity *)

\* A step of the event callback keeps the invariant if it adds and sends what
\* it may, and knows what it has to know afterwards.
LEMMA EvFlow ==
  ASSUME DeliveryInv, WellFormed', EvFrame,
         NEW saved, NEW to, NEW sent, NEW done,
         RowsFrom(saved, to, sent, done), SessionsFrom(to, sent),
         Proper(saved, to, sent, done),
         CorrelationsLead', SessionsKnown', EvKnows'
  PROVE  DeliveryInv'
<1>1. /\ submitted' = submitted /\ acks' = acks /\ received' = received
      /\ ak' = ak /\ UNCHANGED auxVars
  BY DEF EvFrame, auxVars
<1>2. RowsStorable' /\ CarriedSendable' /\ ReceivedSendable'
      /\ AckedBeforeDelivered'
  BY <1>1, FlowKept
<1>3. AkKnows'
  BY <1>1, AkKept DEF DeliveryInv, RowsFrom
<1>4. ClientsHonest'
  BY <1>1, HonestKept DEF DeliveryInv
<1> QED
  BY <1>2, <1>3, <1>4 DEF DeliveryInv

\* Most of them leave the correlations and the registry alone.
LEMMA EvFlowOnly ==
  ASSUME DeliveryInv, WellFormed', EvFrame,
         correlations' = correlations, active' = active,
         NEW saved, NEW to, NEW sent, NEW done,
         RowsFrom(saved, to, sent, done), SessionsFrom(to, sent),
         Proper(saved, to, sent, done),
         ev'.sess # NoSession => Born(ev'.sess), EvKnows'
  PROVE  DeliveryInv'
<1>1. Later(messages, messages', done) /\ submitted' = submitted /\ ak' = ak
  BY DEF RowsFrom, EvFrame, auxVars
<1>2. CorrelationsLead'
  BY <1>1, CorrelationsKept DEF DeliveryInv
<1>3. SessionsKnown'
  <2>1. ak'.sess # NoSession => Born(ak'.sess)
    BY <1>1 DEF DeliveryInv, SessionsKnown
  <2>2. \A n \in Names : active'[n] \in {active[n], NoSession}
    OBVIOUS
  <2> QED
    BY <2>1, <2>2, SessionsStay DEF DeliveryInv
<1> QED
  BY <1>2, <1>3, EvFlow

\* The end of a handler.
LEMMA EvFinishes ==
  ASSUME DeliveryInv, WellFormed', EvFrame, EvFinish,
         correlations' = correlations, active' = active,
         NEW saved, NEW to, NEW sent, NEW done,
         RowsFrom(saved, to, sent, done), SessionsFrom(to, sent),
         Proper(saved, to, sent, done)
  PROVE  DeliveryInv'
<1>1. ev'.pc \in EvUnaware /\ ev'.sess = NoSession
  BY DEF EvFinish, IdleEv, EvUnaware
<1> QED
  BY <1>1, UnawareNext, EvFlowOnly

\* A handler that ends, or goes on to where it relies on nothing, and changes
\* neither rows nor sessions.
LEMMA EvNothing ==
  ASSUME DeliveryInv, UNCHANGED <<messages, sessions, outbox>>
  PROVE  /\ RowsFrom({}, NoSession, {}, {})
         /\ SessionsFrom(NoSession, {})
         /\ Proper({}, NoSession, {}, {})
<1>1. RowsFrom({}, NoSession, {}, {})
  BY StoreFlow DEF DeliveryInv, WellFormed
<1>2. SessionsFrom(NoSession, {})
  BY DEF SessionsFrom, Born, Carried
<1> QED
  BY <1>1, <1>2 DEF Proper

\* The same of the ACK timer.
LEMMA AkFlow ==
  ASSUME DeliveryInv, WellFormed', AkFrame,
         correlations' = correlations, active' = active,
         NEW to, NEW sent,
         RowsFrom({}, to, sent, {}), SessionsFrom(to, sent),
         Proper({}, to, sent, {}),
         ak'.sess # NoSession => Born(ak'.sess), AkKnows'
  PROVE  DeliveryInv'
<1>1. /\ submitted' = submitted /\ acks' = acks /\ received' = received
      /\ ev' = ev /\ UNCHANGED auxVars /\ Later(messages, messages', {})
  BY DEF AkFrame, auxVars, RowsFrom
<1>2. RowsStorable' /\ CarriedSendable' /\ ReceivedSendable'
      /\ AckedBeforeDelivered'
  BY <1>1, FlowKept
<1>3. EvKnows'
  BY <1>1, EvKept DEF DeliveryInv
<1>4. ClientsHonest'
  BY <1>1, HonestKept DEF DeliveryInv
<1>5. CorrelationsLead'
  BY <1>1, CorrelationsKept DEF DeliveryInv
<1>6. SessionsKnown'
  <2>1. ev'.sess # NoSession => Born(ev'.sess)
    BY <1>1 DEF DeliveryInv, SessionsKnown
  <2>2. \A n \in Names : active'[n] \in {active[n], NoSession}
    OBVIOUS
  <2> QED
    BY <2>1, <2>2, SessionsStay DEF DeliveryInv
<1> QED
  BY <1>2, <1>3, <1>4, <1>5, <1>6 DEF DeliveryInv

\* The same of the cleanup, which takes sessions out of the registry.
LEMMA ClFlow ==
  ASSUME DeliveryInv, WellFormed', ClFrame,
         correlations' = correlations,
         \A n \in Names : active'[n] \in {active[n], NoSession},
         RowsFrom({}, NoSession, {}, {}), SessionsFrom(NoSession, {})
  PROVE  DeliveryInv'
<1>1. /\ submitted' = submitted /\ acks' = acks /\ received' = received
      /\ ev' = ev /\ ak' = ak /\ UNCHANGED auxVars
      /\ Later(messages, messages', {})
  BY DEF ClFrame, auxVars, RowsFrom
<1>2. Proper({}, NoSession, {}, {})
  BY DEF Proper
<1>3. RowsStorable' /\ CarriedSendable' /\ ReceivedSendable'
      /\ AckedBeforeDelivered'
  BY <1>1, <1>2, FlowKept
<1>4. EvKnows'
  BY <1>1, EvKept DEF DeliveryInv
<1>5. AkKnows'
  BY <1>1, AkKept DEF DeliveryInv
<1>6. ClientsHonest'
  BY <1>1, HonestKept DEF DeliveryInv
<1>7. CorrelationsLead'
  BY <1>1, CorrelationsKept DEF DeliveryInv
<1>8. SessionsKnown'
  <2>1. /\ ev'.sess # NoSession => Born(ev'.sess)
        /\ ak'.sess # NoSession => Born(ak'.sess)
    BY <1>1 DEF DeliveryInv, SessionsKnown
  <2> QED
    BY <2>1, SessionsStay DEF DeliveryInv
<1> QED
  BY <1>3, <1>4, <1>5, <1>6, <1>7, <1>8 DEF DeliveryInv

\* A restart forgets the queues, and with them everything that is in memory
\* only; the rows persisted before it are as they should be.
LEMMA RestartFlow ==
  ASSUME DeliveryInv, WellFormed', Restart, RowsFrom({}, NoSession, {}, {})
  PROVE  DeliveryInv'
<1>1. /\ submitted' = submitted /\ acks' = acks /\ received' = received
      /\ UNCHANGED auxVars /\ Later(messages, messages', {})
      /\ correlations' = correlations
  BY DEF Restart, auxVars, RowsFrom
<1>2. ~\E s \in SessionIds, m \in Message : Carried(s, m)'
  <2> SUFFICES ASSUME NEW s \in SessionIds, NEW m \in Message, Carried(s, m)'
               PROVE  FALSE
    OBVIOUS
  <2>1. sessions'[s].queue = <<>> /\ outbox' = <<>>
    BY DEF Restart, Unborn
  <2> QED
    BY <2>1 DEF Carried
<1>3. CarriedSendable'
  BY <1>2 DEF CarriedSendable
<1>4. SessionsKnown' /\ EvKnows' /\ AkKnows'
  <2>1. ev' = IdleEv /\ ak' = IdleAk /\ \A n \in Names : active'[n] = NoSession
    BY DEF Restart
  <2>2. ev'.pc \in EvUnaware /\ ev'.sess = NoSession
    BY <2>1 DEF IdleEv, EvUnaware
  <2>3. AkKnows' /\ ak'.sess = NoSession
    BY <2>1 DEF IdleAk, AkKnows, AkSending
  <2> QED
    BY <2>1, <2>2, <2>3, UnawareNext DEF SessionsKnown
<1>5. ClientsHonest'
  BY <1>1, HonestKept DEF DeliveryInv
<1>6. CorrelationsLead'
  BY <1>1, CorrelationsKept DEF DeliveryInv
<1>7. RowsStorable' /\ ReceivedSendable' /\ AckedBeforeDelivered'
  <2>1. Proper({}, NoSession, {}, {})
    BY DEF Proper
  <2> QED
    BY <1>1, <2>1, RowsKept
<1> QED
  BY <1>3, <1>4, <1>5, <1>6, <1>7 DEF DeliveryInv

-----------------------------------------------------------------------------
(* The event callback *)

\* A session that FindSession finds is the client's.
LEMMA FoundOf ==
  ASSUME DeliveryInv, NEW name, FindSession(name) # NoSession
  PROVE  SessionOf(FindSession(name), name)
BY DEF FindSession, DeliveryInv, SessionsKnown

\* A row for the client may be sent to it.
LEMMA RowSendable ==
  ASSUME DeliveryInv, NEW i \in DOMAIN messages, NEW name,
         messages[i].msg.type = "Message" => messages[i].msg.dest = name,
         messages[i].msg.type = "Reply" => Asked(messages[i].msg.corr, name)
  PROVE  messages[i].msg \in Message /\ Sendable(messages[i].msg, name)
<1>1. PICK m : m = messages[i].msg
  OBVIOUS
<1>2. m \in Message
  BY <1>1, RowMessage DEF DeliveryInv, WellFormed
<1>3. Genuine(m)
  BY <1>1, <1>2 DEF DeliveryInv, RowsStorable, Storable
<1> QED
  BY <1>1, <1>2, <1>3 DEF Sendable

LEMMA PrefixSubset == \A ids : \A p \in Prefixes(ids) : p \subseteq ids
BY DEF Prefixes

\* Messages and sessions the callback has in hand, after a step of its own.
LEMMA InHand ==
  ASSUME NEW saved, NEW to, NEW sent, NEW done,
         RowsFrom(saved, to, sent, done), SessionsFrom(to, sent)
  PROVE  /\ \A i \in DOMAIN messages :
              i \in DOMAIN messages' /\ messages'[i].msg = messages[i].msg
         /\ \A s \in SessionIds : sessions[s].status # "unborn" =>
              /\ sessions'[s].status # "unborn"
              /\ sessions'[s].name = sessions[s].name
BY DEF RowsFrom, SessionsFrom, Later, Grown, Born

\* The references of a callback go one by one.
LEMMA EvReleaseInv ==
  ASSUME DeliveryInv, WellFormed', NEW s \in SessionIds, EvRelease(s)
  PROVE  DeliveryInv'
<1> DEFINE others == Registered \cup {ak.sess}
<1>0. TypeOK /\ ev \in EvState
  BY DEF DeliveryInv, WellFormed, TypeOK
<1>1. CASE ReleaseTerminates(s, others)
  BY <1>0, <1>1, PersistFlow, RestartFlow
<1>2. CASE /\ Release(s, others)
           /\ ev' = [ev EXCEPT !.refs = @ \ {s}]
           /\ EvFrame
           /\ UNCHANGED <<active, outbox, correlations>>
  <2> HIDE DEF others
  <2>1. RowsFrom({}, NoSession, {}, {}) /\ SessionsFrom(NoSession, {})
    BY <1>0, <1>2, PersistFlow
  <2>2. Proper({}, NoSession, {}, {})
    BY DEF Proper
  <2>3. ev'.pc = "done" /\ ev'.sess = ev.sess
    BY <1>0, <1>2 DEF EvRelease, EvState
  <2>4. EvKnows'
    BY <2>3, UnawareNext DEF EvUnaware
  <2>5. ev'.sess # NoSession => Born(ev'.sess)
    BY <2>3 DEF DeliveryInv, SessionsKnown
  <2> QED
    BY <1>2, <2>1, <2>2, <2>4, <2>5, EvFlowOnly
<1> QED
  BY <1>1, <1>2 DEF EvRelease

\* Steps that change neither the store nor the sessions and leave the callback
\* where it relies on nothing but its session.
LEMMA EvLocalInv ==
  ASSUME DeliveryInv, WellFormed', EvFrame, UNCHANGED <<storeVars, sessVars>>,
         ev'.sess # NoSession => Born(ev'.sess), EvKnows'
  PROVE  DeliveryInv'
<1>1. /\ UNCHANGED <<messages, sessions, outbox>>
      /\ correlations' = correlations /\ active' = active
  BY DEF storeVars, sessVars
<1>2. /\ RowsFrom({}, NoSession, {}, {})
      /\ SessionsFrom(NoSession, {})
      /\ Proper({}, NoSession, {}, {})
  BY <1>1, EvNothing
<1> QED
  BY <1>1, <1>2, EvFlowOnly

\* UpsertClient: what the session that is replaced has queued is persisted.
LEMMA UpsertFlow ==
  ASSUME DeliveryInv, EvUpsert
  PROVE  RowsFrom({}, NoSession, {}, {}) /\ SessionsFrom(NoSession, {})
<1> DEFINE old == FindSession(ev.msg.sender)
           q == IF old = NoSession THEN <<>> ELSE sessions[old].queue
<1>0. /\ TypeOK /\ messages \in Seq(Row)
      /\ sessions \in [SessionIds -> Session]
      /\ ev.msg.sender \in Names \cup {NoName}
  BY DEF DeliveryInv, WellFormed, TypeOK, StorageTypeOK, SessionsTypeOK,
         EvState, Message
<1>1. old # NoSession => SessionOf(old, ev.msg.sender) /\ old \in SessionIds
  BY FoundOf DEF SessionOf, Born
<1>2. q \in Seq(Message) /\ Len(q) \in 0..Len(q)
  <2>1. q \in Seq(Message)
    BY <1>0, <1>1, EmptySeq DEF Session
  <2> QED
    BY <2>1, LenProperties
<1>3. outbox' = outbox
  BY DEF EvUpsert
<1>5. ASSUME NEW new \in SessionIds,
             sessions[new].status = "unborn",
             sessions' = [s \in SessionIds |->
               IF s = new
               THEN [status |-> "online", name |-> ev.msg.sender,
                     queue |-> <<>>]
               ELSE IF s = old
               THEN [status |-> "offline", name |-> sessions[s].name,
                     queue |-> <<>>]
               ELSE sessions[s]],
             messages' = Persisted(messages, ev.msg.sender, q, Len(q))
      PROVE  RowsFrom({}, NoSession, {}, {}) /\ SessionsFrom(NoSession, {})
  <2>1. PICK name \in Names \cup {NoName} : name = ev.msg.sender
    BY <1>0
  <2>2. RowsFrom({}, NoSession, {}, {})
    <3> HIDE DEF q
    <3>a. PICK p \in Seq(Message) : p = q
      BY <1>2
    <3>b. PICK n \in 0..Len(p) : n = Len(q)
      BY <1>2, <3>a
    <3> DEFINE u == Persisted(messages, name, p, n)
    <3>1. Later(messages, u, {})
      BY <1>0, PersistedRows
    <3>2. ASSUME NEW i \in DOMAIN u \ DOMAIN messages
          PROVE  /\ u[i].status = "PENDING"
                 /\ \E k \in DOMAIN p : u[i].msg = Copy(p[k], name)
      <4>1. messages \in Seq(Row)
        BY <1>0
      <4> QED
        BY <4>1, PersistedRows
    <3> HIDE DEF u
    <3>3. messages' = u
      BY <1>5, <2>1, <3>a, <3>b DEF u
    <3>4. ASSUME NEW k \in DOMAIN p
          PROVE  /\ old \in SessionIds /\ p[k] \in Message
                 /\ Carried(old, p[k]) /\ sessions[old].name = name
      <4>1. p[k] \in Message
        BY ElementOfSeq
      <4>2. old # NoSession
        BY <3>a DEF q
      <4>3. p = sessions[old].queue
        BY <3>a, <4>2 DEF q
      <4> HIDE DEF old
      <4> QED
        BY <1>1, <2>1, <4>1, <4>2, <4>3 DEF Carried, SessionOf
    <3>5. ASSUME NEW i \in DOMAIN messages' \ DOMAIN messages
          PROVE  /\ messages'[i].status = "PENDING"
                 /\ \E s \in SessionIds, m \in Message :
                      /\ Carried(s, m)
                      /\ messages'[i].msg = Copy(m, sessions[s].name)
      <4>1. PICK k \in DOMAIN p : u[i].msg = Copy(p[k], name)
        BY <3>2, <3>3
      <4> HIDE DEF old
      <4> QED
        BY <3>2, <3>3, <3>4, <4>1
    <3> QED
      BY <3>1, <3>3, <3>5, Zenon DEF RowsFrom
  <2>3. new # old
    BY <1>1, <1>5, SessionsAssumption DEF SessionOf, Born
  <2> HIDE DEF q, old
  <2>4. ASSUME NEW s \in SessionIds
        PROVE  /\ Born(s) => Born(s)' /\ sessions'[s].name = sessions[s].name
               /\ \A k \in DOMAIN sessions'[s].queue :
                    \/ s = NoSession /\ sessions'[s].queue[k] \in {}
                    \/ \E j \in DOMAIN sessions[s].queue :
                         sessions'[s].queue[k] = sessions[s].queue[j]
    <3>1. CASE s = new
      BY <1>5, <3>1 DEF Born
    <3>2. CASE s = old /\ s # new
      BY <1>5, <3>2 DEF Born
    <3>3. CASE s # old /\ s # new
      BY <1>5, <3>3 DEF Born
    <3> QED
      BY <3>1, <3>2, <3>3
  <2>5. SessionsFrom(NoSession, {})
    BY ONLY <1>3, <2>4, SessionsKept
  <2> QED
    BY <2>2, <2>5
<1>6. ASSUME old # NoSession,
             NEW n \in 0..Len(q), PersistQueueThrows(old, n),
             sessions' = Popped(sessions, old, q, n)
      PROVE  RowsFrom({}, NoSession, {}, {}) /\ SessionsFrom(NoSession, {})
  <2>1. old \in SessionIds /\ q = sessions[old].queue
    BY <1>1, <1>6
  <2> HIDE DEF q, old
  <2>2. n \in 0..Len(sessions[old].queue)
    BY <2>1
  <2>3. sessions' = Popped(sessions, old, sessions[old].queue, n)
    BY <1>6, <2>1
  <2>4. RowsFrom({}, NoSession, {}, {})
    BY <1>0, <1>6, <2>1, <2>2, PersistFlow
  <2>5. SessionsFrom(NoSession, {})
    BY <1>0, <1>3, <2>1, <2>2, <2>3, SessionFlow
  <2> QED
    BY <2>4, <2>5
<1> QED
  BY <1>5, <1>6 DEF EvUpsert

LEMMA EvUpsertInv ==
  ASSUME DeliveryInv, WellFormed', EvUpsert
  PROVE  DeliveryInv'
<1> DEFINE old == FindSession(ev.msg.sender)
           q == IF old = NoSession THEN <<>> ELSE sessions[old].queue
<1>0. /\ ev \in EvState
      /\ active \in [Names -> SessionIds \cup {NoSession}]
      /\ ev.msg.sender \in Names \cup {NoName}
  BY DEF DeliveryInv, WellFormed, TypeOK, SessionsTypeOK, EvState, Message
<1>1. EvFrame /\ outbox' = outbox /\ correlations' = correlations
  BY DEF EvUpsert
<1>2. RowsFrom({}, NoSession, {}, {}) /\ SessionsFrom(NoSession, {})
  BY UpsertFlow
<1>3. Proper({}, NoSession, {}, {})
  BY DEF Proper
<1>4. ASSUME NEW new \in SessionIds,
             sessions' = [s \in SessionIds |->
               IF s = new
               THEN [status |-> "online", name |-> ev.msg.sender,
                     queue |-> <<>>]
               ELSE IF s = old
               THEN [status |-> "offline", name |-> sessions[s].name,
                     queue |-> <<>>]
               ELSE sessions[s]],
             active' = [active EXCEPT ![ev.msg.sender] = new],
             ev' = [ev EXCEPT !.pc = "offLoad",
                              !.refs = (@ \cup {new, old}) \ {NoSession}]
      PROVE  DeliveryInv'
  <2> HIDE DEF q, old
  <2>1. PICK name \in Names \cup {NoName} : name = ev.msg.sender
    BY <1>0
  <2>2. ASSUME NEW s, Born(s)
        PROVE  Born(s)' /\ sessions'[s].name = sessions[s].name
    BY <1>2, <2>2 DEF SessionsFrom, Born
  <2>3. SessionsKnown'
    <3>1. ASSUME NEW n \in Names, active'[n] # NoSession
          PROVE  SessionOf(active[n], n)'
      <4>1. CASE n = name
        BY <1>0, <1>4, <2>1, <4>1 DEF SessionOf, Born
      <4>2. CASE n # name
        <5>1. active'[n] = active[n]
          BY <1>0, <1>4, <2>1, <4>2
        <5>2. SessionOf(active[n], n)
          BY <3>1, <5>1 DEF DeliveryInv, SessionsKnown
        <5> QED
          BY <2>2, <5>1, <5>2 DEF SessionOf, Born
      <4> QED
        BY <4>1, <4>2
    <3>2. ev'.sess = ev.sess /\ ak' = ak
      BY <1>0, <1>1, <1>4 DEF EvState, EvFrame
    <3> QED
      BY <2>2, <3>1, <3>2 DEF DeliveryInv, SessionsKnown, Born
  <2>4. EvKnows'
    BY <1>0, <1>4, UnawareNext DEF EvUnaware, EvState
  <2>5. CorrelationsLead'
    BY <1>1, <1>2, CorrelationsKept DEF DeliveryInv, RowsFrom, EvFrame, auxVars
  <2> QED
    BY <1>1, <1>2, <1>3, <2>3, <2>4, <2>5, EvFlow
<1>5. CASE EvFinish /\ active' = active
  BY <1>1, <1>2, <1>3, <1>5, EvFinishes
<1> QED
  BY <1>4, <1>5 DEF EvUpsert

LEMMA SessionsSame ==
  ASSUME UNCHANGED sessVars
  PROVE  SessionsFrom(NoSession, {}) /\ active' = active
BY DEF sessVars, SessionsFrom, Born, Carried

\* A handler that ends without writing, by an exception or not.
LEMMA EvEndsInv ==
  ASSUME DeliveryInv, WellFormed', EvFrame, EvFinish, messages' = messages,
         UNCHANGED <<correlations, sessVars>>
  PROVE  DeliveryInv'
<1>1. UNCHANGED <<messages, sessions, outbox>> /\ active' = active
  BY DEF sessVars
<1>2. /\ RowsFrom({}, NoSession, {}, {})
      /\ SessionsFrom(NoSession, {})
      /\ Proper({}, NoSession, {}, {})
  BY <1>1, EvNothing
<1> QED
  BY <1>1, <1>2, EvFinishes

LEMMA EvLoadInv ==
  ASSUME DeliveryInv, WellFormed', EvOffLoad \/ EvRepLoad
  PROVE  DeliveryInv'
<1> DEFINE s == FindSession(ev.msg.sender)
<1>0. ev \in EvState /\ ev.msg.sender \in Names \cup {NoName}
  BY DEF DeliveryInv, WellFormed, TypeOK, EvState, Message
<1>1. s # NoSession => SessionOf(s, ev.msg.sender)
  BY FoundOf
<1>2. /\ EvFrame /\ UNCHANGED <<storeVars, sessVars>>
      /\ messages' = messages /\ correlations' = correlations
      /\ sessions' = sessions /\ UNCHANGED sessVars /\ submitted' = submitted
  BY DEF EvOffLoad, EvRepLoad, storeVars, sessVars, EvFrame, auxVars
<1>3. CASE EvGoto("repLoad")
  <2>1. ev'.pc = "repLoad" /\ ev'.sess = ev.sess
    BY <1>0, <1>3 DEF EvGoto, EvState
  <2>2. ev'.sess # NoSession => Born(ev'.sess)
    BY <2>1 DEF DeliveryInv, SessionsKnown
  <2>3. EvKnows'
    BY <2>1, UnawareNext DEF EvUnaware
  <2> QED
    BY <1>2, <2>2, <2>3, EvLocalInv
<1>4. CASE EvFinish
  BY <1>2, <1>4, EvEndsInv
<1>5. ASSUME NEW ids, ids \subseteq LoadPendingMessagesOnly(messages,
                                                           ev.msg.sender),
             s # NoSession,
             ev' = [ev EXCEPT !.pc = "offNext", !.sess = s, !.todo = ids]
      PROVE  DeliveryInv'
  <2> HIDE DEF s
  <2>1. /\ ev'.pc = "offNext" /\ ev'.sess = s /\ ev'.todo = ids
        /\ ev'.msg = ev.msg
    BY <1>0, <1>5 DEF EvState
  <2>2. \A i \in ids : BacklogRow(i)
    BY <1>5 DEF LoadPendingMessagesOnly, BacklogRow
  <2>3. EvKnows'
    BY <1>1, <1>2, <1>5, <2>1, <2>2
       DEF EvKnows, EvStored, EvBacklog, EvReplies, BacklogRow, SessionOf, Born
  <2>4. Born(ev'.sess)
    BY <1>1, <1>5, <2>1 DEF SessionOf
  <2> QED
    BY <1>2, <2>3, <2>4, EvLocalInv
<1>6. ASSUME NEW ids, ids \subseteq LoadPendingRepliesForSenderOnly(
                                     messages, correlations, ev.msg.sender),
             s # NoSession,
             ev' = [ev EXCEPT !.pc = "repNext", !.sess = s, !.todo = ids]
      PROVE  DeliveryInv'
  <2> HIDE DEF s
  <2>1. /\ ev'.pc = "repNext" /\ ev'.sess = s /\ ev'.todo = ids
        /\ ev'.msg = ev.msg
    BY <1>0, <1>6 DEF EvState
  <2>2. \A i \in ids : ReplyRow(i)
    <3> SUFFICES ASSUME NEW i \in ids PROVE ReplyRow(i)
      OBVIOUS
    <3>1. PICK r \in correlations : /\ messages[i].msg.type = "Reply"
                                    /\ r.corr = messages[i].msg.corr
                                    /\ r.owner = ev.msg.sender
      BY <1>6 DEF LoadPendingRepliesForSenderOnly
    <3>2. ev.msg.sender \in Names
      BY <1>1, <1>6 DEF SessionOf
    <3> QED
      BY <3>1, <3>2 DEF DeliveryInv, CorrelationsLead, ReplyRow
  <2>3. EvKnows'
    BY <1>1, <1>2, <1>6, <2>1, <2>2
       DEF EvKnows, EvStored, EvBacklog, EvReplies, ReplyRow, Asked,
           SessionOf, Born
  <2>4. Born(ev'.sess)
    BY <1>1, <1>6, <2>1 DEF SessionOf
  <2> QED
    BY <1>2, <2>3, <2>4, EvLocalInv
<1> QED
  BY <1>3, <1>4, <1>5, <1>6, PrefixSubset DEF EvOffLoad, EvRepLoad

LEMMA EvNextInv ==
  ASSUME DeliveryInv, WellFormed', EvOffNext \/ EvRepNext
  PROVE  DeliveryInv'
<1>0. ev \in EvState /\ TypeOK /\ ev.todo \subseteq DOMAIN messages
  BY DEF DeliveryInv, WellFormed, TypeOK, EvRefsOK
<1>1. /\ EvFrame /\ UNCHANGED <<correlations, sessVars>>
      /\ correlations' = correlations
      /\ UNCHANGED sessVars /\ submitted' = submitted
      /\ sessions' = sessions
  BY DEF EvOffNext, EvRepNext, EvFrame, auxVars, sessVars
<1>2. SessionsFrom(NoSession, {}) /\ active' = active
  BY <1>1, SessionsSame
<1>3. Proper({}, NoSession, {}, {})
  BY DEF Proper
<1>4. CASE EvFinish /\ messages' = messages
  BY <1>1, <1>4, EvEndsInv
<1>5. CASE ev.pc = "offNext" /\ EvGoto("offFlush") /\ messages' = messages
  <2>1. /\ ev'.pc = "offFlush" /\ ev'.sess = ev.sess /\ ev'.todo = ev.todo
        /\ ev'.msg = ev.msg
    BY <1>0, <1>5 DEF EvGoto, EvState
  <2>2. EvKnows'
    BY <1>1, <1>5, <2>1
       DEF DeliveryInv, EvKnows, EvStored, EvBacklog, EvReplies, BacklogRow,
           SessionOf, Born
  <2>3. ev'.sess # NoSession => Born(ev'.sess)
    BY <2>1 DEF DeliveryInv, SessionsKnown
  <2>4. RowsFrom({}, NoSession, {}, {})
    BY <1>0, <1>5, StoreFlow
  <2> QED
    BY <1>1, <1>2, <1>3, <2>2, <2>3, <2>4, EvFlowOnly
<1>6. ASSUME NEW i \in ev.todo,
             messages' = messages \/ messages' = MarkSent(messages, i)
      PROVE  /\ RowsFrom({}, NoSession, {}, {})
             /\ \A j \in DOMAIN messages :
                  /\ j \in DOMAIN messages'
                  /\ messages'[j].msg = messages[j].msg
             /\ ev.sess # NoSession => Born(ev.sess)
  <2>1. RowsFrom({}, NoSession, {}, {})
    BY <1>0, <1>6, StoreFlow
  <2> QED
    BY <1>2, <2>1, InHand DEF DeliveryInv, SessionsKnown
<1>7. ASSUME ev.pc = "offNext", NEW i \in ev.todo,
             ev' = [ev EXCEPT !.pc = "offSend", !.id = i, !.todo = @ \ {i}],
             messages' = messages \/ messages' = MarkSent(messages, i)
      PROVE  DeliveryInv'
  <2>1. /\ ev'.pc = "offSend" /\ ev'.sess = ev.sess /\ ev'.id = i
        /\ ev'.todo = ev.todo \ {i} /\ ev'.msg = ev.msg
    BY <1>0, <1>7 DEF EvState
  <2>2. EvKnows'
    BY <1>0, <1>1, <1>6, <1>7, <2>1
       DEF DeliveryInv, EvKnows, EvStored, EvBacklog, EvReplies, BacklogRow,
           SessionOf, Born
  <2> QED
    BY <1>1, <1>2, <1>3, <1>6, <1>7, <2>1, <2>2, EvFlowOnly
<1>8. ASSUME ev.pc = "repNext", NEW i \in ev.todo,
             ev' = [ev EXCEPT !.pc = "repSend", !.id = i, !.todo = @ \ {i}],
             messages' = messages \/ messages' = MarkSent(messages, i)
      PROVE  DeliveryInv'
  <2>1. /\ ev'.pc = "repSend" /\ ev'.sess = ev.sess /\ ev'.id = i
        /\ ev'.todo = ev.todo \ {i} /\ ev'.msg = ev.msg
    BY <1>0, <1>8 DEF EvState
  <2>2. EvKnows'
    BY <1>0, <1>1, <1>6, <1>8, <2>1
       DEF DeliveryInv, EvKnows, EvStored, EvBacklog, EvReplies, ReplyRow,
           Asked, SessionOf, Born
  <2> QED
    BY <1>1, <1>2, <1>3, <1>6, <1>8, <2>1, <2>2, EvFlowOnly
<1> QED
  BY <1>4, <1>5, <1>7, <1>8 DEF EvOffNext, EvRepNext, EvThrows

LEMMA EvBacklogSendInv ==
  ASSUME DeliveryInv, WellFormed', EvOffSend \/ EvRepSend
  PROVE  DeliveryInv'
<1> DEFINE m == messages[ev.id].msg
<1>0. /\ ev \in EvState /\ TypeOK
      /\ ev.id \in DOMAIN messages /\ ev.todo \subseteq DOMAIN messages
      /\ ev.sess \in SessionIds
  BY DEF DeliveryInv, WellFormed, TypeOK, EvRefsOK, EvSending, EvOffSend,
         EvRepSend
<1>1. /\ EvFrame /\ correlations' = correlations /\ active' = active
      /\ submitted' = submitted /\ SendMessage(ev.sess, m)
  BY DEF EvOffSend, EvRepSend, EvFrame, auxVars
<1>2. SessionOf(ev.sess, ev.msg.sender)
  BY DEF DeliveryInv, EvKnows, EvBacklog, EvReplies, EvOffSend, EvRepSend
<1>3. m \in Message /\ Sendable(m, ev.msg.sender)
  <2>1. CASE EvOffSend
    <3>1. BacklogRow(ev.id)
      BY <2>1 DEF EvOffSend, DeliveryInv, EvKnows
    <3> QED
      BY <1>0, <3>1, RowSendable DEF BacklogRow
  <2>2. CASE EvRepSend
    <3>1. ReplyRow(ev.id)
      BY <2>2 DEF EvRepSend, DeliveryInv, EvKnows
    <3> QED
      BY <1>0, <3>1, RowSendable DEF ReplyRow
  <2> QED
    BY <2>1, <2>2
<1>4. Proper({}, ev.sess, {m}, {})
  BY <1>2, <1>3 DEF Proper, SessionOf
<1>5. RowsFrom({}, ev.sess, {m}, {}) /\ SessionsFrom(ev.sess, {m})
  BY <1>0, <1>1, <1>3, SendFlow
<1>6. /\ \A i \in DOMAIN messages :
           i \in DOMAIN messages' /\ messages'[i].msg = messages[i].msg
      /\ \A s \in SessionIds : sessions[s].status # "unborn" =>
           /\ sessions'[s].status # "unborn"
           /\ sessions'[s].name = sessions[s].name
  BY <1>5, InHand
<1>7. CASE EvOffSend
  <2>1. /\ ev'.pc = IF NeedsAckFlag(m) THEN "offNext" ELSE "offDone"
        /\ ev'.sess = ev.sess /\ ev'.id = ev.id
        /\ ev'.todo = ev.todo /\ ev'.msg = ev.msg
    BY <1>0, <1>7 DEF EvState, EvOffSend, EvGoto
  <2>2. BacklogRow(ev.id) /\ \A i \in ev.todo : BacklogRow(i)
    BY <1>7 DEF EvOffSend, DeliveryInv, EvKnows, EvBacklog
  <2>3. EvKnows'
    BY <1>0, <1>1, <1>2, <1>6, <2>1, <2>2
       DEF EvKnows, EvStored, EvBacklog, EvReplies, BacklogRow, SessionOf,
           Born, NeedsAckFlag
  <2>4. Born(ev'.sess)
    BY <1>2, <2>1 DEF SessionOf
  <2> QED
    BY <1>1, <1>4, <1>5, <2>3, <2>4, EvFlowOnly
<1>8. CASE EvRepSend
  <2>1. /\ ev'.pc = "repDone" /\ ev'.sess = ev.sess /\ ev'.id = ev.id
        /\ ev'.todo = ev.todo /\ ev'.msg = ev.msg
    BY <1>0, <1>8 DEF EvState, EvRepSend, EvGoto
  <2>2. ReplyRow(ev.id) /\ \A i \in ev.todo : ReplyRow(i)
    BY <1>8 DEF EvRepSend, DeliveryInv, EvKnows, EvReplies
  <2>3. EvKnows'
    BY <1>0, <1>1, <1>2, <1>6, <2>1, <2>2
       DEF EvKnows, EvStored, EvBacklog, EvReplies, ReplyRow, Asked, SessionOf,
           Born
  <2>4. Born(ev'.sess)
    BY <1>2, <2>1 DEF SessionOf
  <2> QED
    BY <1>1, <1>4, <1>5, <2>3, <2>4, EvFlowOnly
<1> QED
  BY <1>7, <1>8

\* What a delivery loop completes asks for no acknowledgement, or is a reply.
LEMMA EvBacklogDoneInv ==
  ASSUME DeliveryInv, WellFormed', EvOffDone \/ EvRepDone
  PROVE  DeliveryInv'
<1>0. /\ ev \in EvState /\ TypeOK
      /\ ev.id \in DOMAIN messages /\ ev.todo \subseteq DOMAIN messages
  BY DEF DeliveryInv, WellFormed, TypeOK, EvRefsOK, EvOffDone, EvRepDone
<1>1. /\ EvFrame /\ correlations' = correlations /\ UNCHANGED sessVars
      /\ submitted' = submitted /\ UNCHANGED <<correlations, sessVars>>
      /\ sessions' = sessions
  BY DEF EvOffDone, EvRepDone, EvFrame, auxVars, sessVars
<1>2. SessionsFrom(NoSession, {}) /\ active' = active
  BY <1>1, SessionsSame
<1>3. CASE EvThrows
  BY <1>1, <1>3, EvEndsInv DEF EvThrows
<1>4. CASE messages' = MarkDelivered(messages, ev.id)
  <2>1. RowsFrom({}, NoSession, {}, {ev.id})
    BY <1>0, <1>4, StoreFlow
  <2>2. MayComplete(ev.id)
    BY DEF MayComplete, EvOffDone, EvRepDone, DeliveryInv, EvKnows, ReplyRow
  <2>3. Proper({}, NoSession, {}, {ev.id})
    BY <2>2 DEF Proper
  <2>4. \A i \in DOMAIN messages :
          i \in DOMAIN messages' /\ messages'[i].msg = messages[i].msg
    BY <2>1 DEF RowsFrom, Later, Grown
  <2>5. ev.sess # NoSession => Born(ev.sess)
    BY DEF DeliveryInv, SessionsKnown
  <2>6. CASE EvOffDone /\ EvGoto("offNext")
    <3>1. /\ ev'.pc = "offNext" /\ ev'.sess = ev.sess
          /\ ev'.todo = ev.todo /\ ev'.msg = ev.msg
      BY <1>0, <2>6 DEF EvState, EvGoto
    <3>2. EvKnows'
      BY <1>0, <1>1, <2>4, <2>6, <3>1
         DEF DeliveryInv, EvKnows, EvStored, EvBacklog, EvReplies, BacklogRow,
             SessionOf, Born, EvOffDone
    <3> QED
      BY <1>1, <1>2, <2>1, <2>3, <2>5, <3>1, <3>2, EvFlowOnly
  <2>7. CASE EvRepDone /\ EvGoto("repNext")
    <3>1. /\ ev'.pc = "repNext" /\ ev'.sess = ev.sess
          /\ ev'.todo = ev.todo /\ ev'.msg = ev.msg
      BY <1>0, <2>7 DEF EvState, EvGoto
    <3>2. EvKnows'
      BY <1>0, <1>1, <2>4, <2>7, <3>1
         DEF DeliveryInv, EvKnows, EvStored, EvBacklog, EvReplies, ReplyRow,
             Asked, SessionOf, Born, EvRepDone
    <3> QED
      BY <1>1, <1>2, <2>1, <2>3, <2>5, <3>1, <3>2, EvFlowOnly
  <2> QED
    BY <1>3, <2>6, <2>7 DEF EvOffDone, EvRepDone
<1> QED
  BY <1>3, <1>4 DEF EvOffDone, EvRepDone

LEMMA EvFlushInv ==
  ASSUME DeliveryInv, WellFormed', EvOffFlush
  PROVE  DeliveryInv'
<1>0. ev \in EvState /\ TypeOK /\ ev.sess \in SessionIds
  BY DEF DeliveryInv, WellFormed, TypeOK, EvRefsOK, EvOffFlush
<1>1. /\ EvFrame /\ correlations' = correlations /\ active' = active
      /\ messages' = messages /\ FlushQueue(ev.sess)
  BY DEF EvOffFlush, storeVars
<1>2. RowsFrom({}, NoSession, {}, {}) /\ SessionsFrom(NoSession, {})
  BY <1>0, <1>1, StoreFlow, FlushFlow
<1>3. Proper({}, NoSession, {}, {})
  BY DEF Proper
<1>4. ev'.pc = "repLoad" /\ ev'.sess = ev.sess
  BY <1>0 DEF EvOffFlush, EvGoto, EvState
<1>5. EvKnows' /\ (ev'.sess # NoSession => Born(ev'.sess))
  BY <1>4, UnawareNext DEF EvUnaware, DeliveryInv, SessionsKnown
<1> QED
  BY <1>1, <1>2, <1>3, <1>5, EvFlowOnly

LEMMA EvRegisterInv ==
  ASSUME DeliveryInv, WellFormed', EvRegister
  PROVE  DeliveryInv'
BY EvUpsertInv, EvLoadInv, EvNextInv, EvBacklogSendInv, EvBacklogDoneInv,
   EvFlushInv DEF EvRegister

\* The row SaveMessage adds.
LEMMA SavedRow ==
  ASSUME NEW t \in Seq(Row), NEW m \in Message
  PROVE  /\ Len(t) + 1 \in DOMAIN SaveMessage(t, m)
         /\ SaveMessage(t, m)[Len(t) + 1].msg = m
<1>1. /\ Len(t) + 1 \in DOMAIN SaveMessage(t, m)
      /\ SaveMessage(t, m)[Len(t) + 1] = [msg |-> m, status |-> "PENDING"]
  BY SaveRows
<1> QED
  BY <1>1

\* A message of a client may be stored.
LEMMA SubmittedStorable ==
  ASSUME NEW m \in submitted, m.type = "Message"
  PROVE  Storable(m) /\ Asked(m.corr, m.sender)
BY DEF Storable, Genuine, Asked

\* SaveCorrelation for a row with that id, and an owner that asked.
LEMMA CorrelationSaved ==
  ASSUME DeliveryInv, UNCHANGED <<messages, submitted>>,
         NEW id \in DOMAIN messages, NEW corr, NEW owner,
         messages[id].msg.corr = corr,
         owner \in Names => Asked(corr, owner),
         correlations' = SaveCorrelation(correlations, id, corr, owner)
  PROVE  CorrelationsLead'
<1> SUFFICES ASSUME NEW r \in correlations'
             PROVE  /\ r.mid \in DOMAIN messages
                    /\ messages[r.mid].msg.corr = r.corr
                    /\ r.owner \in Names => Asked(r.corr, r.owner)
  BY DEF CorrelationsLead, Asked
<1>1. CASE r \in correlations
  BY <1>1 DEF DeliveryInv, CorrelationsLead
<1>2. CASE r = [mid |-> id, corr |-> corr, owner |-> owner]
  BY <1>2
<1> QED
  BY <1>1, <1>2 DEF SaveCorrelation

LEMMA EvMessageInv ==
  ASSUME DeliveryInv, WellFormed', EvMessage
  PROVE  DeliveryInv'
<1>0. /\ ev \in EvState /\ TypeOK /\ messages \in Seq(Row)
      /\ ev.msg \in Message
      /\ ev.sess # NoSession => Born(ev.sess)
  BY DEF DeliveryInv, WellFormed, TypeOK, StorageTypeOK, EvState, SessionsKnown
<1>1. EvFrame /\ submitted' = submitted
  BY DEF EvMessage, EvFind, EvSave, EvCorr, EvSend, EvMark, EvFrame, auxVars
<1>2. ev.msg.type = "Message" /\ ev.msg \in submitted
  BY DEF DeliveryInv, EvKnows, EvMessage, EvFind, EvSave, EvCorr, EvSend, EvMark
<1>3. CASE EvFind
  <2> DEFINE s == FindSession(ev.msg.dest)
  <2>1. s # NoSession => SessionOf(s, ev.msg.dest)
    BY FoundOf
  <2>2. /\ UNCHANGED <<storeVars, sessVars>> /\ messages' = messages
        /\ sessions' = sessions
    BY <1>3 DEF EvFind, storeVars, sessVars
  <2>3. ev'.pc = "save" /\ ev'.sess \in {s, NoSession} /\ ev'.msg = ev.msg
    BY <1>0, <1>3 DEF EvFind, EvState
  <2> HIDE DEF s
  <2>4. EvKnows'
    BY <1>1, <1>2, <2>1, <2>2, <2>3
       DEF EvKnows, EvStored, EvBacklog, EvReplies, SessionOf, Born
  <2>5. ev'.sess # NoSession => Born(ev'.sess)
    BY <2>1, <2>3 DEF SessionOf
  <2> QED
    BY <1>1, <2>2, <2>4, <2>5, EvLocalInv
<1>4. CASE EvSave
  <2>1. /\ correlations' = correlations /\ UNCHANGED sessVars
        /\ UNCHANGED <<correlations, sessVars>> /\ sessions' = sessions
    BY <1>4 DEF EvSave, sessVars
  <2>2. CASE EvThrows
    BY <1>1, <2>1, <2>2, EvEndsInv DEF EvThrows
  <2>3. CASE messages' = SaveMessage(messages, ev.msg)
    <3>1. RowsFrom({ev.msg}, NoSession, {}, {})
      BY <1>0, <2>3, StoreFlow
    <3>2. Proper({ev.msg}, NoSession, {}, {})
      BY <1>2, SubmittedStorable DEF Proper
    <3>3. SessionsFrom(NoSession, {}) /\ active' = active
      BY <2>1, SessionsSame
    <3>4. CASE EvFinish
      BY <1>1, <2>1, <3>1, <3>2, <3>3, <3>4, EvFinishes
    <3>5. CASE ev' = [ev EXCEPT !.id = Len(messages) + 1,
                                !.pc = IF ev.msg.flags = {}
                                       THEN "send" ELSE "corr"]
      <4>1. /\ ev'.pc \in {"send", "corr"} /\ ev'.sess = ev.sess
            /\ ev'.msg = ev.msg /\ ev'.id = Len(messages) + 1
        BY <1>0, <3>5 DEF EvState
      <4>2. /\ Len(messages) + 1 \in DOMAIN messages'
            /\ messages'[Len(messages) + 1].msg = ev.msg
        BY <1>0, <2>3, SavedRow
      <4>3. ev.sess # NoSession => SessionOf(ev.sess, ev.msg.dest)
        BY <1>4 DEF EvSave, DeliveryInv, EvKnows
      <4>4. EvKnows'
        BY <1>1, <1>2, <2>1, <4>1, <4>2, <4>3
           DEF EvKnows, EvStored, EvBacklog, EvReplies, SessionOf, Born
      <4> QED
        BY <1>0, <1>1, <2>1, <3>1, <3>2, <3>3, <4>1, <4>4, EvFlowOnly
    <3> QED
      BY <1>4, <2>2, <3>4, <3>5 DEF EvSave
  <2> QED
    BY <1>4, <2>2, <2>3 DEF EvSave
<1>5. CASE EvCorr
  <2>1. messages' = messages /\ UNCHANGED sessVars /\ sessions' = sessions
    BY <1>5 DEF EvCorr, sessVars
  <2>2. /\ ev.id \in DOMAIN messages /\ messages[ev.id].msg = ev.msg
        /\ ev.sess # NoSession => SessionOf(ev.sess, ev.msg.dest)
    BY <1>5 DEF EvCorr, DeliveryInv, EvKnows, EvStored
  <2>3. CASE EvFinish /\ UNCHANGED correlations
    BY <1>1, <2>1, <2>3, EvEndsInv
  <2>4. CASE correlations' =
               SaveCorrelation(correlations, ev.id, ev.msg.corr, ev.msg.sender)
    <3>1. Asked(ev.msg.corr, ev.msg.sender)
      BY <1>2, SubmittedStorable
    <3>2. CorrelationsLead'
      BY <1>1, <2>1, <2>2, <2>4, <3>1, CorrelationSaved
    <3>3. /\ RowsFrom({}, NoSession, {}, {})
          /\ SessionsFrom(NoSession, {}) /\ active' = active
          /\ Proper({}, NoSession, {}, {})
      BY <1>0, <2>1, StoreFlow, SessionsSame DEF Proper
    <3>4. /\ ev'.sess # NoSession => Born(ev'.sess)
          /\ EvKnows'
      <4>1. CASE EvFinish
        <5>1. ev'.pc \in EvUnaware /\ ev'.sess = NoSession
          BY <4>1 DEF EvFinish, IdleEv, EvUnaware
        <5> QED
          BY <5>1, UnawareNext
      <4>2. CASE EvGoto("send")
        <5>1. /\ ev'.pc = "send" /\ ev'.sess = ev.sess
              /\ ev'.msg = ev.msg /\ ev'.id = ev.id
          BY <1>0, <4>2 DEF EvState, EvGoto
        <5>2. EvKnows'
          BY <1>1, <1>2, <2>1, <2>2, <5>1
             DEF EvKnows, EvStored, EvBacklog, EvReplies, SessionOf, Born
        <5> QED
          BY <1>0, <5>1, <5>2
      <4> QED
        BY <1>5, <4>1, <4>2 DEF EvCorr
    <3>5. SessionsKnown'
      <4>1. ak'.sess # NoSession => Born(ak'.sess)
        BY <1>1 DEF EvFrame, DeliveryInv, SessionsKnown
      <4>2. \A n \in Names : active'[n] \in {active[n], NoSession}
        BY <3>3
      <4> QED
        BY <3>3, <3>4, <4>1, <4>2, SessionsStay DEF DeliveryInv
    <3> QED
      BY <1>1, <3>2, <3>3, <3>4, <3>5, EvFlow
  <2> QED
    BY <1>5, <2>3, <2>4 DEF EvCorr
<1>6. CASE EvSend
  <2>1. /\ ev.id \in DOMAIN messages /\ messages[ev.id].msg = ev.msg
        /\ ev.sess \in SessionIds /\ SessionOf(ev.sess, ev.msg.dest)
    BY <1>6, SessionsAssumption
       DEF EvSend, DeliveryInv, EvKnows, EvStored, WellFormed, EvRefsOK,
           EvSending
  <2>2. Sendable(ev.msg, ev.msg.dest)
    BY <1>2, <2>1, RowSendable
  <2>3. Proper({}, ev.sess, {ev.msg}, {})
    BY <2>1, <2>2 DEF Proper, SessionOf
  <2>4. RowsFrom({}, ev.sess, {ev.msg}, {}) /\ SessionsFrom(ev.sess, {ev.msg})
    BY <1>0, <1>6, <2>1, SendFlow DEF EvSend
  <2>5. /\ ev'.pc = "mark" /\ ev'.sess = ev.sess
        /\ ev'.msg = ev.msg /\ ev'.id = ev.id
    BY <1>0, <1>6 DEF EvState, EvGoto, EvSend
  <2>6. EvKnows'
    BY <1>1, <1>2, <2>1, <2>4, <2>5, InHand
       DEF EvKnows, EvStored, EvBacklog, EvReplies
  <2> QED
    BY <1>0, <1>1, <1>6, <2>3, <2>4, <2>5, <2>6, EvFlowOnly DEF EvSend
<1>7. CASE EvMark
  <2>1. /\ correlations' = correlations /\ UNCHANGED sessVars
        /\ UNCHANGED <<correlations, sessVars>>
    BY <1>7 DEF EvMark
  <2>2. SessionsFrom(NoSession, {}) /\ active' = active
    BY <2>1, SessionsSame
  <2>3. messages[ev.id].msg = ev.msg
    BY <1>7 DEF EvMark, DeliveryInv, EvKnows, EvStored
  <2>4. CASE EvThrows
    BY <1>1, <2>1, <2>4, EvEndsInv DEF EvThrows
  <2>5. CASE EvFinish /\ messages' = MarkSent(messages, ev.id)
    <3>1. RowsFrom({}, NoSession, {}, {}) /\ Proper({}, NoSession, {}, {})
      BY <1>0, <2>5, StoreFlow DEF Proper
    <3> QED
      BY <1>1, <2>1, <2>2, <2>5, <3>1, EvFinishes
  <2>6. CASE /\ EvFinish /\ messages' = MarkDelivered(messages, ev.id)
             /\ ~NeedsAckFlag(ev.msg)
    <3>1. RowsFrom({}, NoSession, {}, {ev.id})
      BY <1>0, <2>6, StoreFlow
    <3>2. Proper({}, NoSession, {}, {ev.id})
      BY <2>3, <2>6 DEF Proper, MayComplete
    <3> QED
      BY <1>1, <2>1, <2>2, <2>6, <3>1, <3>2, EvFinishes
  <2> QED
    BY <1>7, <2>4, <2>5, <2>6 DEF EvMark
<1> QED
  BY <1>3, <1>4, <1>5, <1>6, <1>7 DEF EvMessage

\* A step that saves a correlation, or deletes some, and nothing else.
LEMMA EvCorrelationInv ==
  ASSUME DeliveryInv, WellFormed', EvFrame, messages' = messages,
         UNCHANGED sessVars, CorrelationsLead',
         ev'.sess # NoSession => Born(ev'.sess), EvKnows'
  PROVE  DeliveryInv'
<1>1. /\ RowsFrom({}, NoSession, {}, {})
      /\ SessionsFrom(NoSession, {}) /\ active' = active
      /\ Proper({}, NoSession, {}, {})
  BY StoreFlow, SessionsSame DEF Proper, DeliveryInv, WellFormed
<1>2. SessionsKnown'
  <2>1. ak'.sess # NoSession => Born(ak'.sess)
    BY DEF EvFrame, DeliveryInv, SessionsKnown
  <2>2. \A n \in Names : active'[n] \in {active[n], NoSession}
    BY <1>1
  <2> QED
    BY <1>1, <2>1, <2>2, SessionsStay DEF DeliveryInv
<1> QED
  BY <1>1, <1>2, EvFlow

\* A reply goes to the client that asked: the owner of the correlation did, and
\* so did the client the reply names, as replies answer what was received.
LEMMA ReplyStorable ==
  ASSUME DeliveryInv, NEW p \in submitted, p.type = "Reply", p \in Message,
         NEW to, NEW m, m = [p EXCEPT !.dest = IF to = NoName THEN @ ELSE to],
         \/ to = NoName
         \/ \E r \in correlations : r.corr = p.corr /\ r.owner = to
  PROVE  /\ m \in Message /\ m.type = "Reply" /\ Storable(m)
<1>1. to \in Names \cup {NoName}
  BY DEF DeliveryInv, WellFormed, TypeOK, StorageTypeOK, Correlation
<1>2. /\ m \in Message /\ m.type = "Reply" /\ m.corr = p.corr
      /\ m.dest = IF to = NoName THEN p.dest ELSE to
  BY <1>1 DEF Message
<1>3. Genuine(m)
  BY <1>2 DEF Genuine
<1>4. ASSUME m.dest \in Names PROVE Asked(m.corr, m.dest)
  <2>1. CASE to = NoName
    <3>1. PICK k \in submitted : /\ k.type = "Message"
                                 /\ "NeedsReply" \in k.flags
                                 /\ k.corr = p.corr
      BY DEF DeliveryInv, ClientsHonest
    <3>2. p \in Requests /\ k \in Requests
      BY DEF DeliveryInv, ClientsHonest
    <3>3. p.dest \in {NoName, k.sender}
      BY <3>1, <3>2, ClientAssumption
    <3>4. p.dest = k.sender
      BY <1>2, <1>4, <2>1, <3>3, StorageAssumption
    <3> QED
      BY <1>2, <2>1, <3>1, <3>4 DEF Asked
  <2>2. CASE to # NoName
    <3>1. to \in Names /\ \E r \in correlations : r.corr = p.corr /\ r.owner = to
      BY <1>1, <2>2
    <3> QED
      BY <1>2, <2>2, <3>1 DEF DeliveryInv, CorrelationsLead
  <2> QED
    BY <2>1, <2>2
<1> QED
  BY <1>2, <1>3, <1>4 DEF Storable

LEMMA EvReplyInv ==
  ASSUME DeliveryInv, WellFormed', EvReply
  PROVE  DeliveryInv'
<1>0. /\ ev \in EvState /\ TypeOK /\ messages \in Seq(Row)
      /\ ev.msg \in Message
      /\ ev.sess # NoSession => Born(ev.sess)
  BY DEF DeliveryInv, WellFormed, TypeOK, StorageTypeOK, EvState, SessionsKnown
<1> USE DEF EvReply
<1>1. EvFrame /\ submitted' = submitted
  BY DEF EvReplySave, EvReplyCorr, EvReplyFind, EvReplySent, EvReplySend,
         EvReplyMark, EvReplyRollback, EvFrame, auxVars
<1>2. ev.msg.type = "Reply"
  BY DEF DeliveryInv, EvKnows, EvReplySave, EvReplyCorr, EvReplyFind,
         EvReplySent, EvReplySend, EvReplyMark, EvReplyRollback
<1>3. CASE EvReplySave
  <2>1. /\ correlations' = correlations /\ UNCHANGED sessVars
        /\ UNCHANGED <<correlations, sessVars>>
    BY <1>3 DEF EvReplySave
  <2>2. ev.msg \in submitted
    BY <1>3 DEF EvReplySave, DeliveryInv, EvKnows
  <2>3. CASE EvThrows
    BY <1>1, <2>1, <2>3, EvEndsInv DEF EvThrows
  <2>4. ASSUME NEW to,
               \/ to = NoName
               \/ \E r \in correlations : r.corr = ev.msg.corr /\ r.owner = to,
               NEW m, m = [ev.msg EXCEPT !.dest = IF to = NoName
                                                  THEN @ ELSE to],
               messages' = SaveMessage(messages, m),
               ev' = [ev EXCEPT !.pc = "rCorr", !.id = Len(messages) + 1,
                                !.msg = m]
        PROVE  DeliveryInv'
    <3>1. m \in Message /\ m.type = "Reply" /\ Storable(m)
      <4>1. PICK p \in submitted : p = ev.msg
        BY <2>2
      <4>2. /\ p.type = "Reply" /\ p \in Message
            /\ m = [p EXCEPT !.dest = IF to = NoName THEN @ ELSE to]
            /\ \/ to = NoName
               \/ \E r \in correlations : r.corr = p.corr /\ r.owner = to
        BY <1>0, <1>2, <2>4, <4>1
      <4> QED
        BY <4>2, ReplyStorable
    <3>2. RowsFrom({m}, NoSession, {}, {}) /\ Proper({m}, NoSession, {}, {})
      BY <1>0, <2>4, <3>1, StoreFlow DEF Proper
    <3>3. SessionsFrom(NoSession, {}) /\ active' = active
      BY <2>1, SessionsSame
    <3>4. /\ ev'.pc = "rCorr" /\ ev'.sess = ev.sess
          /\ ev'.msg = m /\ ev'.id = Len(messages) + 1
      BY <1>0, <2>4 DEF EvState
    <3>5. /\ Len(messages) + 1 \in DOMAIN messages'
          /\ messages'[Len(messages) + 1].msg = m
      BY <1>0, <2>4, <3>1, SavedRow
    <3>6. EvKnows'
      BY <3>1, <3>4, <3>5
         DEF EvKnows, EvStored, EvBacklog, EvReplies
    <3> QED
      BY <1>0, <1>1, <2>1, <3>2, <3>3, <3>4, <3>6, EvFlowOnly
  <2>5. ASSUME NEW to \in
                 {r.owner : r \in FindByCorrelation(correlations, ev.msg.corr)}
                   \cup {NoName}
        PROVE  \/ to = NoName
               \/ \E r \in correlations : r.corr = ev.msg.corr /\ r.owner = to
    BY DEF FindByCorrelation
  <2> QED
    BY <1>3, <2>3, <2>4, <2>5 DEF EvReplySave
<1>4. CASE EvReplyCorr
  <2>1. /\ messages' = messages /\ UNCHANGED sessVars
        /\ UNCHANGED <<messages, submitted>>
    BY <1>1, <1>4 DEF EvReplyCorr
  <2>2. ev.id \in DOMAIN messages /\ messages[ev.id].msg = ev.msg
    BY <1>4 DEF EvReplyCorr, DeliveryInv, EvKnows, EvStored
  <2>3. CASE EvFinish /\ UNCHANGED correlations
    BY <1>1, <2>1, <2>3, EvEndsInv
  <2>4. CASE /\ EvGoto("rFind")
             /\ correlations' =
                  SaveCorrelation(correlations, ev.id, ev.msg.corr, ev.msg.dest)
    <3>1. ev.msg.dest \in Names => Asked(ev.msg.corr, ev.msg.dest)
      BY <1>0, <1>2, <2>2 DEF DeliveryInv, RowsStorable, Storable
    <3>2. CorrelationsLead'
      BY <2>1, <2>2, <2>4, <3>1, CorrelationSaved
    <3>3. /\ ev'.pc = "rFind" /\ ev'.sess = ev.sess
          /\ ev'.msg = ev.msg /\ ev'.id = ev.id
      BY <1>0, <2>4 DEF EvState, EvGoto
    <3>4. EvKnows'
      BY <1>2, <2>1, <2>2, <3>3 DEF EvKnows, EvStored, EvBacklog, EvReplies
    <3> QED
      BY <1>0, <1>1, <2>1, <3>2, <3>3, <3>4, EvCorrelationInv
  <2> QED
    BY <1>4, <2>3, <2>4 DEF EvReplyCorr
<1>5. CASE EvReplyFind
  <2> DEFINE s == FindSession(ev.msg.dest)
  <2>1. s # NoSession => SessionOf(s, ev.msg.dest)
    BY FoundOf
  <2>2. /\ UNCHANGED <<storeVars, sessVars>> /\ messages' = messages
        /\ sessions' = sessions /\ UNCHANGED <<correlations, sessVars>>
    BY <1>5 DEF EvReplyFind, storeVars, sessVars
  <2>3. CASE EvFinish
    BY <1>1, <2>2, <2>3, EvEndsInv
  <2>4. CASE s # NoSession /\
             ev' = [ev EXCEPT !.refs = @ \cup {s}, !.sess = s,
                              !.pc = IF NeedsAckFlag(ev.msg)
                                     THEN "rSent" ELSE "rSend"]
    <3> HIDE DEF s
    <3>1. /\ ev'.pc \in {"rSent", "rSend"} /\ ev'.sess = s
          /\ ev'.msg = ev.msg /\ ev'.id = ev.id
      BY <1>0, <2>4 DEF EvState
    <3>2. ev.id \in DOMAIN messages /\ messages[ev.id].msg = ev.msg
      BY <1>5 DEF EvReplyFind, DeliveryInv, EvKnows, EvStored
    <3>3. EvKnows'
      BY <1>2, <2>1, <2>2, <2>4, <3>1, <3>2
         DEF EvKnows, EvStored, EvBacklog, EvReplies, SessionOf, Born
    <3>4. Born(ev'.sess)
      BY <2>1, <2>4, <3>1 DEF SessionOf
    <3> QED
      BY <1>1, <2>2, <3>3, <3>4, EvLocalInv
  <2> QED
    BY <1>5, <2>3, <2>4 DEF EvReplyFind
<1>6. ASSUME ev.pc \in {"rSent", "rMark"},
             EvGoto("rSend") \/ EvGoto("rollback"),
             EvGoto("rSend") => ev.pc = "rSent",
             messages' = messages \/ messages' = MarkSent(messages, ev.id),
             correlations' = correlations, UNCHANGED sessVars
      PROVE  DeliveryInv'
  <2>1. RowsFrom({}, NoSession, {}, {}) /\ Proper({}, NoSession, {}, {})
    BY <1>0, <1>6, StoreFlow DEF Proper
  <2>2. SessionsFrom(NoSession, {}) /\ active' = active
    BY <1>6, SessionsSame
  <2>3. ev.id \in DOMAIN messages /\ messages[ev.id].msg = ev.msg
    BY <1>6 DEF DeliveryInv, EvKnows, EvStored
  <2>4. ev.id \in DOMAIN messages' /\ messages'[ev.id].msg = ev.msg
    BY <2>1, <2>3 DEF RowsFrom, Later, Grown
  <2>5. /\ ev'.pc \in {"rSend", "rollback"}
        /\ ev'.pc = "rSend" => ev.pc = "rSent"
        /\ ev'.sess = ev.sess /\ ev'.msg = ev.msg /\ ev'.id = ev.id
    BY <1>0, <1>6 DEF EvState, EvGoto
  <2>6. ev.pc = "rSent" => SessionOf(ev.sess, ev.msg.dest)
    BY DEF DeliveryInv, EvKnows
  <2>7. sessions' = sessions
    BY <1>6 DEF sessVars
  <2>8. EvKnows'
    BY <1>2, <2>4, <2>5, <2>6, <2>7
       DEF EvKnows, EvStored, EvBacklog, EvReplies, SessionOf, Born
  <2> QED
    BY <1>0, <1>1, <1>6, <2>1, <2>2, <2>5, <2>8, EvFlowOnly
<1>7. CASE EvReplySent
  BY <1>6, <1>7 DEF EvReplySent, EvGoto
<1>8. CASE EvReplySend
  <2>1. /\ ev.id \in DOMAIN messages /\ messages[ev.id].msg = ev.msg
        /\ ev.sess \in SessionIds /\ SessionOf(ev.sess, ev.msg.dest)
    BY <1>8
       DEF EvReplySend, DeliveryInv, EvKnows, EvStored, WellFormed, EvRefsOK,
           EvSending
  <2>2. Asked(ev.msg.corr, ev.msg.dest)
    BY <1>0, <1>2, <2>1 DEF DeliveryInv, RowsStorable, Storable, SessionOf
  <2>3. Sendable(ev.msg, ev.msg.dest)
    BY <1>2, <2>1, <2>2, RowSendable
  <2>4. Proper({}, ev.sess, {ev.msg}, {})
    BY <2>1, <2>3 DEF Proper, SessionOf
  <2>5. RowsFrom({}, ev.sess, {ev.msg}, {}) /\ SessionsFrom(ev.sess, {ev.msg})
    BY <1>0, <1>8, <2>1, SendFlow DEF EvReplySend
  <2>6. correlations' = correlations /\ active' = active
    BY <1>8 DEF EvReplySend
  <2>7. CASE EvFinish
    BY <1>1, <2>4, <2>5, <2>6, <2>7, EvFinishes
  <2>8. CASE EvGoto("rMark")
    <3>1. /\ ev'.pc = "rMark" /\ ev'.sess = ev.sess
          /\ ev'.msg = ev.msg /\ ev'.id = ev.id
      BY <1>0, <2>8 DEF EvState, EvGoto
    <3>2. EvKnows'
      BY <1>2, <2>1, <2>5, <3>1, InHand
         DEF EvKnows, EvStored, EvBacklog, EvReplies
    <3> QED
      BY <1>0, <1>1, <2>4, <2>5, <2>6, <3>1, <3>2, EvFlowOnly
  <2> QED
    BY <1>8, <2>7, <2>8 DEF EvReplySend
<1>9. CASE EvReplyMark
  <2>1. CASE EvGoto("rollback") /\ UNCHANGED messages
    <3>1. ~EvGoto("rSend")
      BY <1>0, <2>1 DEF EvGoto, EvState
    <3> QED
      BY <1>6, <1>9, <2>1, <3>1 DEF EvReplyMark
  <2>2. CASE messages' = MarkDelivered(messages, ev.id) /\ EvFinish
    <3>1. RowsFrom({}, NoSession, {}, {ev.id})
      BY <1>0, <2>2, StoreFlow
    <3>2. messages[ev.id].msg = ev.msg
      BY <1>9 DEF EvReplyMark, DeliveryInv, EvKnows, EvStored
    <3>3. Proper({}, NoSession, {}, {ev.id})
      BY <1>2, <3>2 DEF Proper, MayComplete
    <3>4. SessionsFrom(NoSession, {}) /\ active' = active
      BY <1>9, SessionsSame DEF EvReplyMark
    <3> QED
      BY <1>1, <1>9, <2>2, <3>1, <3>3, <3>4, EvFinishes DEF EvReplyMark
  <2> QED
    BY <1>9, <2>1, <2>2 DEF EvReplyMark
<1>10. CASE EvReplyRollback
  <2>1. /\ EvFinish /\ correlations' = correlations /\ active' = active
        /\ outbox' = outbox
        /\ sessions' = MarkOffline(sessions, ev.sess)
        /\ messages' = messages \/ messages' = MarkPending(messages, ev.id)
    BY <1>10 DEF EvReplyRollback
  <2>2. ev.sess \in SessionIds
    BY <1>10 DEF EvReplyRollback, DeliveryInv, WellFormed, EvRefsOK
  <2>3. RowsFrom({}, NoSession, {}, {}) /\ Proper({}, NoSession, {}, {})
    BY <1>0, <2>1, StoreFlow DEF Proper
  <2>4. SessionsFrom(NoSession, {})
    BY <1>0, <2>1, <2>2, SessionFlow
  <2> QED
    BY <1>1, <2>1, <2>3, <2>4, EvFinishes
<1> QED
  BY <1>3, <1>4, <1>5, <1>7, <1>8, <1>9, <1>10

\* The heart of it: an acknowledgement that leads to a message comes from the
\* destination of that message.  Its sender received, under that correlation
\* id, something that wants an acknowledgement.  If that was a message it is
\* this one, and has the receiver for its destination.  If it was a reply, the
\* message had been received and acknowledged before somebody replied to it.
LEMMA AckFromDestination ==
  ASSUME DeliveryInv, NEW k \in acks, k.corr # 0,
         NEW m \in submitted, m.type = "Message", NeedsAckFlag(m),
         m.corr = k.corr
  PROVE  AckedByDestination(m)
<1>1. PICK r \in received : /\ r.name = k.by
                            /\ r.msg.corr = k.corr
                            /\ NeedsAckFlag(r.msg)
  BY DEF DeliveryInv, ClientsHonest
<1>2. Sendable(r.msg, r.name)
  BY DEF DeliveryInv, ReceivedSendable
<1>3. Genuine(r.msg)
  BY <1>2 DEF Sendable
<1>4. CASE r.msg.type = "Message"
  <2>1. r.msg \in submitted /\ r.msg.dest = r.name
    BY <1>2, <1>3, <1>4 DEF Genuine, Sendable
  <2>2. r.msg \in Requests /\ m \in Requests
    BY <2>1 DEF DeliveryInv, ClientsHonest
  <2>3. r.msg = m
    BY <1>1, <1>4, <2>2, ClientAssumption DEF NeedsAckFlag
  <2>4. k = [by |-> m.dest, corr |-> m.corr]
    <3>1. k \in Acknowledgement
      BY DEF DeliveryInv, WellFormed, TypeOK, AuxTypeOK
    <3> QED
      BY <1>1, <2>1, <2>3, <3>1 DEF Acknowledgement
  <2> QED
    BY <2>4 DEF AckedByDestination
<1>5. CASE r.msg.type = "Reply"
  <2>1. PICK p \in submitted : p.type = "Reply" /\ p.corr = r.msg.corr
    BY <1>3, <1>5 DEF Genuine
  <2> QED
    BY <1>1, <2>1 DEF DeliveryInv, ClientsHonest
<1>6. CASE r.msg.type = "Ack"
  BY <1>1, <1>3, <1>6 DEF Genuine, NeedsAckFlag
<1> QED
  BY <1>3, <1>4, <1>5, <1>6 DEF Genuine

LEMMA EvAckInv ==
  ASSUME DeliveryInv, WellFormed', EvAck
  PROVE  DeliveryInv'
<1>0. /\ ev \in EvState /\ TypeOK /\ messages \in Seq(Row)
      /\ ev.msg \in Message
      /\ ev.sess # NoSession => Born(ev.sess)
  BY DEF DeliveryInv, WellFormed, TypeOK, StorageTypeOK, EvState, SessionsKnown
<1> USE DEF EvAck
<1>1. EvFrame /\ submitted' = submitted /\ acks' = acks
  BY DEF EvAckLook, EvAckDeliver, EvAckReceived, EvAckNotify, EvAckSend,
         EvAckSave, EvFrame, auxVars
<1>2. AckNotification \in Message /\ Storable(AckNotification)
      /\ \A name : Sendable(AckNotification, name)
  <2>1. AckNotification \in Message
    BY <1>0 DEF AckNotification, Message, Types, EvState
  <2>2. AckNotification.type = "Ack" /\ AckNotification.flags = {}
    BY DEF AckNotification
  <2> QED
    BY <2>1, <2>2 DEF Storable, Sendable, Genuine
<1>3. CASE EvAckLook
  <2>1. /\ UNCHANGED <<storeVars, sessVars>> /\ messages' = messages
        /\ UNCHANGED <<correlations, sessVars>>
    BY <1>3 DEF EvAckLook, storeVars
  <2>2. /\ ev.msg.corr # 0
        /\ [by |-> ev.msg.sender, corr |-> ev.msg.corr] \in acks
    BY <1>3 DEF EvAckLook, DeliveryInv, EvKnows
  <2>3. CASE EvFinish
    BY <1>1, <2>1, <2>3, EvEndsInv
  <2>4. ASSUME NEW r \in FindByCorrelation(correlations, ev.msg.corr), NEW owner,
               ev' = [ev EXCEPT !.pc = "aDeliver", !.id = r.mid,
                                !.owner = owner]
        PROVE  DeliveryInv'
    <3>1. r.mid \in DOMAIN messages /\ messages[r.mid].msg.corr = ev.msg.corr
      BY DEF FindByCorrelation, DeliveryInv, CorrelationsLead
    <3>2. /\ ev'.pc = "aDeliver" /\ ev'.id = r.mid
          /\ ev'.msg = ev.msg /\ ev'.sess = ev.sess
      BY <1>0, <2>4 DEF EvState
    <3>3. EvKnows'
      BY <1>1, <2>1, <2>2, <3>1, <3>2
         DEF EvKnows, EvStored, EvBacklog, EvReplies
    <3> QED
      BY <1>0, <1>1, <2>1, <3>2, <3>3, EvLocalInv
  <2> QED
    BY <1>3, <2>3, <2>4 DEF EvAckLook
<1>4. CASE EvAckDeliver
  <2>1. /\ UNCHANGED <<correlations, sessVars>> /\ correlations' = correlations
        /\ UNCHANGED sessVars
    BY <1>4 DEF EvAckDeliver
  <2>2. CASE EvThrows
    BY <1>1, <2>1, <2>2, EvEndsInv DEF EvThrows
  <2>3. CASE messages' = MarkDelivered(messages, ev.id) /\ EvGoto("aReceived")
    <3>1. RowsFrom({}, NoSession, {}, {ev.id})
      BY <1>0, <2>3, StoreFlow
    <3>2. MayComplete(ev.id)
      <4>1. PICK m : m = messages[ev.id].msg
        OBVIOUS
      <4> SUFFICES ASSUME m.type = "Message", NeedsAckFlag(m)
                   PROVE  AckedByDestination(m)
        BY <4>1 DEF MayComplete
      <4>2. /\ ev.id \in DOMAIN messages /\ m.corr = ev.msg.corr
            /\ ev.msg.corr # 0
            /\ [by |-> ev.msg.sender, corr |-> ev.msg.corr] \in acks
        BY <1>4, <4>1 DEF EvAckDeliver, DeliveryInv, EvKnows
      <4>3. m \in submitted
        <5>1. m \in Message
          BY <1>0, <4>1, <4>2, RowMessage
        <5> QED
          BY <4>1, <4>2, <5>1
             DEF DeliveryInv, RowsStorable, Storable, Genuine
      <4>4. PICK k \in acks : k = [by |-> ev.msg.sender, corr |-> ev.msg.corr]
        BY <4>2
      <4>5. k.corr # 0 /\ m.corr = k.corr
        BY <4>2, <4>4
      <4> QED
        BY <4>3, <4>5, AckFromDestination
    <3>3. Proper({}, NoSession, {}, {ev.id})
      BY <3>2 DEF Proper
    <3>4. SessionsFrom(NoSession, {}) /\ active' = active
      BY <2>1, SessionsSame
    <3>5. ev'.pc = "aReceived" /\ ev'.sess = ev.sess
      BY <1>0, <2>3 DEF EvState, EvGoto
    <3>6. EvKnows'
      BY <3>5, UnawareNext DEF EvUnaware
    <3> QED
      BY <1>0, <1>1, <2>1, <3>1, <3>3, <3>4, <3>5, <3>6, EvFlowOnly
  <2> QED
    BY <1>4, <2>2, <2>3 DEF EvAckDeliver
<1>5. CASE EvAckReceived
  <2>1. /\ messages' = messages /\ UNCHANGED sessVars
        /\ correlations' \subseteq correlations
    BY <1>5 DEF EvAckReceived, MarkAckReceived
  <2>2. Later(messages, messages', {})
    BY <1>0, <2>1, SameRows
  <2>3. CorrelationsLead'
    BY <1>1, <2>1, <2>2, CorrelationsKept DEF DeliveryInv
  <2>4. ev'.pc \in EvUnaware /\ (ev'.sess # NoSession => Born(ev'.sess))
    <3>1. CASE EvFinish
      BY <3>1 DEF EvFinish, IdleEv, EvUnaware
    <3>2. CASE EvGoto("aNotify")
      BY <1>0, <3>2 DEF EvGoto, EvState, EvUnaware
    <3> QED
      BY <1>5, <3>1, <3>2 DEF EvAckReceived
  <2> QED
    BY <1>1, <2>1, <2>3, <2>4, UnawareNext, EvCorrelationInv
<1>6. CASE EvAckNotify
  <2> DEFINE s == FindSession(ev.owner)
  <2>1. s # NoSession => SessionOf(s, ev.owner)
    BY FoundOf
  <2>2. UNCHANGED <<storeVars, sessVars>>
    BY <1>6 DEF EvAckNotify
  <2>3. \/ ev'.pc = "aSend" /\ ev'.sess = s /\ s # NoSession
        \/ ev'.pc = "aSave" /\ ev'.sess = ev.sess
    BY <1>0, <1>6 DEF EvAckNotify, EvState
  <2> HIDE DEF s
  <2>4. ev'.sess # NoSession => Born(ev'.sess)
    BY <1>0, <2>1, <2>3 DEF SessionOf
  <2>5. EvKnows'
    BY <2>3, UnawareNext DEF EvUnaware
  <2> QED
    BY <1>1, <2>2, <2>4, <2>5, EvLocalInv
<1>7. CASE EvAckSend
  <2> DEFINE m == AckNotification
  <2> HIDE DEF m
  <2>1. ev.sess \in SessionIds /\ Born(ev.sess)
    BY <1>0, <1>7, SessionsAssumption
       DEF EvAckSend, DeliveryInv, WellFormed, EvRefsOK, EvSending
  <2>2. m \in Message /\ Sendable(m, sessions[ev.sess].name)
    BY <1>2 DEF m
  <2>3. Proper({}, ev.sess, {m}, {})
    BY <2>1, <2>2 DEF Proper
  <2>4. RowsFrom({}, ev.sess, {m}, {}) /\ SessionsFrom(ev.sess, {m})
    BY <1>0, <1>7, <2>1, <2>2, SendFlow DEF EvAckSend, m
  <2> QED
    BY <1>1, <1>7, <2>3, <2>4, EvFinishes DEF EvAckSend
<1>8. CASE EvAckSave
  <2>1. /\ UNCHANGED <<correlations, sessVars>> /\ correlations' = correlations
        /\ UNCHANGED sessVars /\ EvFinish
    BY <1>8 DEF EvAckSave, EvThrows
  <2>2. CASE EvThrows
    BY <1>1, <2>1, <2>2, EvEndsInv DEF EvThrows
  <2>3. CASE messages' = SaveMessage(messages, AckNotification)
    <3> DEFINE m == AckNotification
    <3> HIDE DEF m
    <3>1. RowsFrom({m}, NoSession, {}, {}) /\ Proper({m}, NoSession, {}, {})
      BY <1>0, <1>2, <2>3, StoreFlow DEF Proper, m
    <3>2. SessionsFrom(NoSession, {}) /\ active' = active
      BY <2>1, SessionsSame
    <3> QED
      BY <1>1, <2>1, <3>1, <3>2, EvFinishes
  <2> QED
    BY <1>8, <2>2, <2>3 DEF EvAckSave
<1> QED
  BY <1>3, <1>4, <1>5, <1>6, <1>7, <1>8

LEMMA EvUnregisterInv ==
  ASSUME DeliveryInv, WellFormed', EvUnregister
  PROVE  DeliveryInv'
<1>0. /\ ev \in EvState /\ TypeOK
      /\ ev.sess # NoSession => Born(ev.sess)
  BY DEF DeliveryInv, WellFormed, TypeOK, SessionsKnown
<1>1. CASE EvUnregFind
  <2> DEFINE s == FindSession(ev.msg.sender)
  <2>1. s # NoSession => SessionOf(s, ev.msg.sender)
    BY FoundOf
  <2>2. /\ EvFrame /\ UNCHANGED <<storeVars, sessVars>> /\ messages' = messages
        /\ UNCHANGED <<correlations, sessVars>>
    BY <1>1 DEF EvUnregFind, storeVars
  <2>3. CASE EvFinish
    BY <2>2, <2>3, EvEndsInv
  <2>4. CASE s # NoSession /\
             ev' = [ev EXCEPT !.pc = "uPersist", !.sess = s,
                              !.refs = @ \cup {s}]
    <3> HIDE DEF s
    <3>1. ev'.pc = "uPersist" /\ ev'.sess = s
      BY <1>0, <2>4 DEF EvState
    <3>2. Born(ev'.sess)
      BY <2>1, <2>4, <3>1 DEF SessionOf
    <3> QED
      BY <2>2, <3>1, <3>2, UnawareNext, EvLocalInv DEF EvUnaware
  <2> QED
    BY <1>1, <2>3, <2>4 DEF EvUnregFind
<1>2. CASE EvUnregPersist
  <2> DEFINE q == sessions[ev.sess].queue
  <2>1. ev.sess \in SessionIds
    BY <1>2 DEF EvUnregPersist, DeliveryInv, WellFormed, EvRefsOK
  <2>2. /\ EvFrame /\ correlations' = correlations /\ active' = active
        /\ outbox' = outbox
    BY <1>2 DEF EvUnregPersist
  <2>3. Len(q) \in 0..Len(q)
    BY <1>0, <2>1, LenProperties DEF TypeOK, SessionsTypeOK, Session
  <2>4. Proper({}, NoSession, {}, {})
    BY DEF Proper
  <2>5. CASE /\ PersistQueue(ev.sess)
             /\ sessions' = MarkOffline(Popped(sessions, ev.sess, q, Len(q)),
                                        ev.sess)
             /\ EvGoto("uRemove")
    <3>1. RowsFrom({}, NoSession, {}, {})
      BY <1>0, <2>1, <2>5, PersistFlow
    <3>2. SessionsFrom(NoSession, {})
      BY <1>0, <2>1, <2>2, <2>3, <2>5, SessionFlow
    <3>3. ev'.pc = "uRemove" /\ ev'.sess = ev.sess
      BY <1>0, <2>5 DEF EvGoto, EvState
    <3>4. EvKnows'
      BY <3>3, UnawareNext DEF EvUnaware
    <3> QED
      BY <1>0, <2>2, <2>4, <3>1, <3>2, <3>3, <3>4, EvFlowOnly
  <2>6. ASSUME NEW n \in 0..Len(q), PersistQueueThrows(ev.sess, n),
               sessions' = Popped(sessions, ev.sess, q, n), EvFinish
        PROVE  DeliveryInv'
    <3>1. RowsFrom({}, NoSession, {}, {})
      BY <1>0, <2>1, <2>6, PersistFlow
    <3>2. SessionsFrom(NoSession, {})
      BY <1>0, <2>1, <2>2, <2>6, SessionFlow
    <3> QED
      BY <2>2, <2>4, <2>6, <3>1, <3>2, EvFinishes
  <2> QED
    BY <1>2, <2>5, <2>6 DEF EvUnregPersist
<1>3. CASE EvUnregRemove
  <2>1. /\ EvFrame /\ EvFinish /\ correlations' = correlations
        /\ UNCHANGED <<messages, sessions, outbox>>
        /\ submitted' = submitted /\ ak' = ak
    BY <1>3 DEF EvUnregRemove, storeVars, EvFrame, auxVars
  <2>2. /\ RowsFrom({}, NoSession, {}, {})
        /\ SessionsFrom(NoSession, {})
        /\ Proper({}, NoSession, {}, {})
    BY <2>1, EvNothing
  <2>3. \A n \in Names : active'[n] \in {active[n], NoSession}
    BY <1>0, <1>3 DEF EvUnregRemove, TypeOK, SessionsTypeOK
  <2>4. ev'.pc \in EvUnaware /\ ev'.sess = NoSession
    BY <2>1 DEF EvFinish, IdleEv, EvUnaware
  <2>5. SessionsKnown'
    BY <2>1, <2>2, <2>3, <2>4, SessionsStay DEF DeliveryInv, SessionsKnown
  <2>6. CorrelationsLead'
    BY <2>1, <2>2, CorrelationsKept DEF DeliveryInv, RowsFrom
  <2> QED
    BY <2>1, <2>2, <2>4, <2>5, <2>6, UnawareNext, EvFlow
<1> QED
  BY <1>1, <1>2, <1>3 DEF EvUnregister

LEMMA EvStepInv ==
  ASSUME DeliveryInv, WellFormed', EvStep
  PROVE  DeliveryInv'
<1>1. CASE EvReturn
  <2>1. /\ EvFrame /\ UNCHANGED <<storeVars, sessVars>>
        /\ ev'.pc = "idle" /\ ev'.sess = NoSession
    BY <1>1 DEF EvReturn, IdleEv
  <2> QED
    BY <2>1, UnawareNext, EvLocalInv DEF EvUnaware
<1> QED
  BY <1>1, EvReleaseInv, EvRegisterInv, EvMessageInv, EvReplyInv, EvAckInv,
     EvUnregisterInv DEF EvStep

-----------------------------------------------------------------------------
(* A message arrives *)

\* What a client received under a correlation id with a flag was asked, with
\* that id and a flag, by a client; and so was what a reply answers.
LEMMA ReceivedWasAsked ==
  ASSUME DeliveryInv, NEW r \in received, NEW flag \in r.msg.flags
  PROVE  \/ /\ r.msg.type = "Message" /\ r.msg \in submitted
            /\ r.msg.dest = r.name
         \/ \E p \in submitted : p.type = "Reply" /\ p.corr = r.msg.corr
<1>1. Sendable(r.msg, r.name)
  BY DEF DeliveryInv, ReceivedSendable
<1>2. Genuine(r.msg)
  BY <1>1 DEF Sendable
<1> QED
  BY <1>1, <1>2 DEF Sendable, Genuine

\* A client that replies answers a message, and if that message wants an
\* acknowledgement its destination has given it.
LEMMA ReplyAnswers ==
  ASSUME DeliveryInv, NEW p \in Requests, p.type = "Reply", ClientMaySend(p)
  PROVE  /\ \E m \in submitted : /\ m.type = "Message"
                                 /\ "NeedsReply" \in m.flags
                                 /\ m.corr = p.corr
         /\ \A m \in submitted :
              (/\ m.type = "Message" /\ NeedsAckFlag(m) /\ m.corr # 0
               /\ p.corr = m.corr) => AckedByDestination(m)
<1>1. PICK r \in received : /\ r.name = p.sender
                            /\ r.msg.corr = p.corr
                            /\ "NeedsReply" \in r.msg.flags
  BY DEF ClientMaySend
<1>2. ASSUME NEW q \in received, q.name = p.sender, q.msg.corr = p.corr,
             "NeedsAck" \in q.msg.flags
      PROVE  [by |-> p.sender, corr |-> p.corr] \in acks
  BY <1>2 DEF ClientMaySend
<1>3. CASE r.msg.type = "Message" /\ r.msg \in submitted /\ r.msg.dest = r.name
  <2>1. ASSUME NEW m \in submitted, m.type = "Message", NeedsAckFlag(m),
               m.corr # 0, p.corr = m.corr
        PROVE  AckedByDestination(m)
    <3>1. m \in Requests /\ r.msg \in Requests
      BY <1>3 DEF DeliveryInv, ClientsHonest
    <3>2. r.msg = m
      BY <1>1, <1>3, <2>1, <3>1, ClientAssumption
    <3>3. [by |-> p.sender, corr |-> p.corr] \in acks
      BY <1>1, <1>2, <2>1, <3>2 DEF NeedsAckFlag
    <3>4. m.dest = p.sender
      BY <1>1, <1>3, <3>2
    <3> QED
      BY <2>1, <3>3, <3>4 DEF AckedByDestination
  <2> QED
    BY <1>1, <1>3, <2>1
<1>4. CASE \E q \in submitted : q.type = "Reply" /\ q.corr = r.msg.corr
  <2>1. PICK q \in submitted : q.type = "Reply" /\ q.corr = p.corr
    BY <1>1, <1>4
  <2> QED
    BY <2>1 DEF DeliveryInv, ClientsHonest
<1> QED
  BY <1>1, <1>3, <1>4, ReceivedWasAsked

LEMMA ReceiveInv ==
  ASSUME DeliveryInv, WellFormed', NEW m \in Requests, Receive(m)
  PROVE  DeliveryInv'
<1>0. /\ UNCHANGED <<messages, sessions, outbox>> /\ sessions' = sessions
      /\ correlations' = correlations /\ active' = active /\ ak' = ak
      /\ received' = received /\ messages' = messages
      /\ submitted \subseteq submitted' /\ acks \subseteq acks'
      /\ ClientMaySend(m) /\ m \in Message
  BY BrokerAssumption DEF Receive, storeVars, sessVars
<1>1. /\ RowsFrom({}, NoSession, {}, {})
      /\ SessionsFrom(NoSession, {})
      /\ Proper({}, NoSession, {}, {})
  BY <1>0, EvNothing
<1>2. /\ RowsStorable' /\ CarriedSendable' /\ ReceivedSendable'
      /\ AckedBeforeDelivered'
  BY <1>0, <1>1, FlowKept
<1>3. Later(messages, messages', {})
  BY <1>1 DEF RowsFrom
<1>4. AkKnows'
  BY <1>0, <1>1, <1>3, AkKept DEF DeliveryInv
<1>5. CorrelationsLead'
  BY <1>0, <1>3, CorrelationsKept DEF DeliveryInv
<1>6. /\ ev'.pc = Handler(m) /\ ev'.msg = m /\ ev'.sess = NoSession
  BY DEF Receive, IdleEv
<1>7. SessionsKnown'
  BY <1>0, <1>6 DEF DeliveryInv, SessionsKnown, SessionOf, Born
<1>8. EvKnows'
  <2>1. CASE m.type = "Message"
    <3>1. ev'.pc = "find" /\ m \in submitted'
      BY <1>6, <2>1 DEF Handler, Receive
    <3> QED
      BY <1>6, <2>1, <3>1 DEF EvKnows, EvStored, EvBacklog, EvReplies
  <2>2. CASE m.type = "Reply"
    <3>1. ev'.pc = "rSave" /\ m \in submitted'
      BY <1>6, <2>2 DEF Handler, Receive
    <3> QED
      BY <1>6, <2>2, <3>1 DEF EvKnows, EvStored, EvBacklog, EvReplies
  <2>3. CASE m.type = "Ack"
    <3>1. /\ ev'.pc = IF m.corr = 0 THEN "done" ELSE "aLook"
          /\ [by |-> m.sender, corr |-> m.corr] \in acks'
      BY <1>6, <2>3 DEF Handler, Receive
    <3> QED
      BY <1>6, <2>3, <3>1 DEF EvKnows, EvStored, EvBacklog, EvReplies
  <2>4. CASE m.type \in {"Register", "Unregister"}
    <3>1. ev'.pc \in EvUnaware
      BY <1>6, <2>4 DEF Handler, EvUnaware
    <3> QED
      BY <3>1, UnawareNext
  <2> QED
    BY <1>0, <2>1, <2>2, <2>3, <2>4 DEF Message, Types
<1>9. ClientsHonest'
  <2>1. /\ submitted' = IF m.type \in {"Message", "Reply"}
                        THEN submitted \cup {m} ELSE submitted
        /\ acks' = IF m.type = "Ack"
                   THEN acks \cup {[by |-> m.sender, corr |-> m.corr]} ELSE acks
    BY DEF Receive
  <2>2. submitted' \subseteq Requests
        /\ \A k \in submitted' : k.type \in {"Message", "Reply"}
    BY <2>1 DEF DeliveryInv, ClientsHonest
  <2>3. ASSUME NEW k \in acks', k.corr # 0
        PROVE  \E r \in received : /\ r.name = k.by
                                   /\ r.msg.corr = k.corr
                                   /\ NeedsAckFlag(r.msg)
    <3>1. CASE k \in acks
      BY <2>3, <3>1 DEF DeliveryInv, ClientsHonest
    <3>2. CASE m.type = "Ack" /\ k = [by |-> m.sender, corr |-> m.corr]
      <4>1. m.corr # 0 /\ k.by = m.sender /\ k.corr = m.corr
        BY <2>3, <3>2
      <4>2. \E r \in received : /\ r.name = m.sender
                                /\ r.msg.corr = m.corr
                                /\ "NeedsAck" \in r.msg.flags
        BY <1>0, <3>2, <4>1 DEF ClientMaySend
      <4> QED
        BY <4>1, <4>2 DEF NeedsAckFlag
    <3> QED
      BY <2>1, <2>3, <3>1, <3>2
  <2>4. ASSUME NEW p \in submitted', p.type = "Reply"
        PROVE  \E k \in submitted : /\ k.type = "Message"
                                    /\ "NeedsReply" \in k.flags
                                    /\ k.corr = p.corr
    <3>1. CASE p \in submitted
      BY <2>4, <3>1 DEF DeliveryInv, ClientsHonest
    <3>2. CASE p = m
      BY <1>0, <2>4, <3>2, ReplyAnswers
    <3> QED
      BY <2>1, <3>1, <3>2
  <2>5. ASSUME NEW k \in submitted', NEW p \in submitted',
               k.type = "Message", NeedsAckFlag(k), k.corr # 0,
               p.type = "Reply", p.corr = k.corr
        PROVE  AckedByDestination(k)
    <3>1. k \in submitted
      \* A new message has a new correlation id: the reply answers another.
      <4>1. PICK a \in submitted : /\ a.type = "Message"
                                   /\ "NeedsReply" \in a.flags
                                   /\ a.corr = p.corr
        BY <2>4, <2>5
      <4>2. a \in Requests /\ k \in Requests
        BY <2>2 DEF DeliveryInv, ClientsHonest
      <4>3. a = k
        BY <2>5, <4>1, <4>2, ClientAssumption
      <4> QED
        BY <4>3
    <3>2. CASE p \in submitted
      BY <2>5, <3>1, <3>2 DEF DeliveryInv, ClientsHonest
    <3>3. CASE p = m
      BY <1>0, <2>5, <3>1, <3>3, ReplyAnswers
    <3> QED
      BY <2>1, <3>2, <3>3
  <2> QED
    BY <1>0, <2>2, <2>3, <2>4, <2>5 DEF ClientsHonest, AckedByDestination
<1> QED
  BY <1>2, <1>4, <1>5, <1>7, <1>8, <1>9 DEF DeliveryInv

-----------------------------------------------------------------------------
(* The timers *)

LEMMA AkInv ==
  ASSUME DeliveryInv, WellFormed', AkLoad \/ AkStep
  PROVE  DeliveryInv'
<1>0. /\ ak \in AkState /\ TypeOK
      /\ ak.sess # NoSession => Born(ak.sess)
      /\ ak.todo \subseteq DOMAIN messages
  BY DEF DeliveryInv, WellFormed, TypeOK, SessionsKnown, AkRefsOK
<1>1. ASSUME AkFrame, UNCHANGED <<storeVars, sessVars>>,
             ak'.sess # NoSession => Born(ak'.sess), AkKnows'
      PROVE  DeliveryInv'
  <2>1. /\ UNCHANGED <<messages, sessions, outbox>>
        /\ correlations' = correlations /\ active' = active
    BY <1>1 DEF storeVars, sessVars
  <2>2. /\ RowsFrom({}, NoSession, {}, {})
        /\ SessionsFrom(NoSession, {})
        /\ Proper({}, NoSession, {}, {})
    BY <2>1, EvNothing
  <2> QED
    BY <1>1, <2>1, <2>2, AkFlow
<1>2. CASE AkLoad
  <2>1. /\ AkFrame /\ UNCHANGED <<storeVars, sessVars>>
        /\ ak'.pc = "next" /\ ak'.sess = ak.sess
    BY <1>0, <1>2 DEF AkLoad, AkState
  <2> QED
    BY <1>0, <1>1, <2>1 DEF AkKnows, AkSending
<1>3. CASE AkNext /\ AkFrame
  <2>1. /\ correlations' = correlations /\ UNCHANGED sessVars
    BY <1>3 DEF AkNext
  <2>2. SessionsFrom(NoSession, {}) /\ active' = active
    BY <2>1, SessionsSame
  <2>3. \/ messages' = messages
        \/ \E i \in ak.todo : messages' = MarkPending(messages, i)
    BY <1>3 DEF AkNext
  <2>4. RowsFrom({}, NoSession, {}, {}) /\ Proper({}, NoSession, {}, {})
    BY <1>0, <2>3, StoreFlow DEF Proper
  <2>5. /\ ak'.pc \in {"idle", "find"}
        /\ ak'.sess \in {NoSession, ak.sess}
    <3>1. CASE ak' = IdleAk
      BY <3>1 DEF IdleAk
    <3>2. ASSUME NEW i \in ak.todo,
                 ak' = [ak EXCEPT !.pc = "find", !.id = i, !.todo = @ \ {i}]
          PROVE  ak'.pc = "find" /\ ak'.sess = ak.sess
      BY <1>0, <3>2 DEF AkState
    <3> QED
      BY <1>3, <3>1, <3>2 DEF AkNext
  <2>6. AkKnows' /\ (ak'.sess # NoSession => Born(ak'.sess))
    BY <1>0, <2>5 DEF AkKnows, AkSending
  <2> QED
    BY <1>3, <2>1, <2>2, <2>4, <2>6, AkFlow
<1>4. CASE AkFind
  <2> DEFINE s == FindSession(messages[ak.id].msg.dest)
  <2>1. s # NoSession => SessionOf(s, messages[ak.id].msg.dest)
    BY FoundOf
  <2>2. /\ AkFrame /\ UNCHANGED <<storeVars, sessVars>>
        /\ messages' = messages /\ sessions' = sessions
    BY <1>4 DEF AkFind, storeVars, sessVars
  <2>3. \/ ak'.pc = "sent" /\ ak'.sess = s /\ s # NoSession /\ ak'.id = ak.id
        \/ ak'.pc = "next" /\ ak'.sess = ak.sess
    BY <1>0, <1>4 DEF AkFind, AkState
  <2> HIDE DEF s
  <2>4. ak'.sess # NoSession => Born(ak'.sess)
    BY <1>0, <2>1, <2>3 DEF SessionOf
  <2>5. AkKnows'
    BY <2>1, <2>2, <2>3 DEF AkKnows, AkSending, SessionOf, Born
  <2> QED
    BY <1>1, <2>2, <2>4, <2>5
<1>5. CASE AkSent
  <2>1. /\ AkFrame /\ correlations' = correlations /\ UNCHANGED sessVars
        /\ messages' = MarkSent(messages, ak.id) /\ sessions' = sessions
    BY <1>5 DEF AkSent, sessVars
  <2>2. SessionsFrom(NoSession, {}) /\ active' = active
    BY <2>1, SessionsSame
  <2>3. RowsFrom({}, NoSession, {}, {}) /\ Proper({}, NoSession, {}, {})
    BY <1>0, <2>1, StoreFlow DEF Proper
  <2>4. ak'.pc = "send" /\ ak'.sess = ak.sess /\ ak'.id = ak.id
    BY <1>0, <1>5 DEF AkSent, AkGoto, AkState
  <2>5. /\ SessionOf(ak.sess, messages[ak.id].msg.dest)
        /\ ak.id \in DOMAIN messages
    BY <1>5 DEF AkSent, DeliveryInv, AkKnows, AkSending, WellFormed, AkRefsOK
  <2>6. messages'[ak.id].msg = messages[ak.id].msg
    BY <2>3, <2>5 DEF RowsFrom, Later
  <2>7. AkKnows'
    BY <2>1, <2>4, <2>5, <2>6 DEF AkKnows, AkSending, SessionOf, Born
  <2> QED
    BY <1>0, <2>1, <2>2, <2>3, <2>4, <2>7, AkFlow
<1>6. CASE AkSend
  <2> DEFINE m == messages[ak.id].msg
  <2>1. /\ SessionOf(ak.sess, m.dest)
        /\ ak.id \in DOMAIN messages /\ ak.sess \in SessionIds
    BY <1>6 DEF AkSend, DeliveryInv, AkKnows, AkSending, WellFormed, AkRefsOK
  <2>2. m \in Message
    BY <1>0, <2>1, RowMessage
  <2>3. m.type = "Reply" => Asked(m.corr, m.dest)
    BY <2>1, <2>2 DEF DeliveryInv, RowsStorable, Storable, SessionOf
  <2>4. Sendable(m, m.dest)
    BY <2>1, <2>3, RowSendable
  <2> HIDE DEF m
  <2>5. Proper({}, ak.sess, {m}, {})
    BY <2>1, <2>4 DEF Proper, SessionOf
  <2>6. RowsFrom({}, ak.sess, {m}, {}) /\ SessionsFrom(ak.sess, {m})
    BY <1>0, <1>6, <2>1, <2>2, SendFlow DEF AkSend, m
  <2>7. /\ AkFrame /\ correlations' = correlations /\ active' = active
        /\ ak'.pc = "release" /\ ak'.sess = ak.sess
    BY <1>0, <1>6 DEF AkSend, AkGoto, AkState
  <2>8. AkKnows'
    BY <2>7 DEF AkKnows, AkSending
  <2> QED
    BY <1>0, <2>5, <2>6, <2>7, <2>8, AkFlow
<1>7. CASE AkRelease
  <2> DEFINE others == Registered \cup ev.refs
  <2>1. ak.sess \in SessionIds
    BY <1>7 DEF AkRelease, DeliveryInv, WellFormed, AkRefsOK
  <2>2. CASE ReleaseTerminates(ak.sess, others)
    BY <1>0, <2>1, <2>2, PersistFlow, RestartFlow
  <2>3. CASE /\ Release(ak.sess, others)
             /\ ak' = [ak EXCEPT !.pc = "next", !.id = 0, !.sess = NoSession]
             /\ AkFrame
             /\ UNCHANGED <<correlations, active, outbox>>
    <3> HIDE DEF others
    <3>1. RowsFrom({}, NoSession, {}, {}) /\ SessionsFrom(NoSession, {})
      BY <1>0, <2>1, <2>3, PersistFlow
    <3>2. Proper({}, NoSession, {}, {})
      BY DEF Proper
    <3>3. ak'.pc = "next" /\ ak'.sess = NoSession
      BY <1>0, <2>3 DEF AkState
    <3> QED
      BY <2>3, <3>1, <3>2, <3>3, AkFlow DEF AkKnows, AkSending
  <2> QED
    BY <1>7, <2>2, <2>3 DEF AkRelease
<1>8. CASE AkTerminates
  <2>1. RowsFrom({}, NoSession, {}, {})
    BY <1>0, <1>8, StoreFlow DEF AkTerminates, AkThrows
  <2> QED
    BY <1>8, <2>1, RestartFlow DEF AkTerminates, AkThrows
<1>9. AkNext => AkFrame
  BY DEF AkNext
<1> QED
  BY <1>2, <1>3, <1>4, <1>5, <1>6, <1>7, <1>8, <1>9 DEF AkStep

LEMMA ClInv ==
  ASSUME DeliveryInv, WellFormed', ClStart \/ ClStep
  PROVE  DeliveryInv'
<1>0. /\ TypeOK /\ active \in [Names -> SessionIds \cup {NoSession}]
      /\ cl \in ClState
  BY DEF DeliveryInv, WellFormed, TypeOK, SessionsTypeOK
<1>1. CASE ClStart \/ ClSwept \/ ClEnd
  <2>1. /\ ClFrame /\ correlations' = correlations /\ active' = active
        /\ UNCHANGED <<messages, sessions, outbox>>
    BY <1>1 DEF ClStart, ClSwept, ClEnd, storeVars, sessVars
  <2>2. RowsFrom({}, NoSession, {}, {}) /\ SessionsFrom(NoSession, {})
    BY <2>1, EvNothing
  <2>3. \A n \in Names : active'[n] \in {active[n], NoSession}
    BY <2>1
  <2> QED
    BY <2>1, <2>2, <2>3, ClFlow
<1>2. ASSUME NEW n \in Names, ClVisit(n) PROVE DeliveryInv'
  <2>1. active[n] \in SessionIds
    BY <1>2 DEF ClVisit, DeliveryInv, WellFormed, ClRefsOK
  <2>2. /\ ClFrame /\ correlations' = correlations /\ active' = active
        /\ messages' = messages /\ outbox' = outbox
        /\ sessions' = sessions \/ sessions' = MarkOffline(sessions, active[n])
    BY <1>2 DEF ClVisit, storeVars
  <2>3. RowsFrom({}, NoSession, {}, {})
    BY <1>0, <2>2, StoreFlow
  <2>4. SessionsFrom(NoSession, {})
    BY <1>0, <2>1, <2>2, SessionFlow
  <2>5. \A k \in Names : active'[k] \in {active[k], NoSession}
    BY <2>2
  <2> QED
    BY <2>2, <2>3, <2>4, <2>5, ClFlow
<1>3. CASE ClPersist
  <2> DEFINE s == active[cl.cur]
             q == sessions[s].queue
  <2>1. s \in SessionIds
    BY <1>3 DEF ClPersist, DeliveryInv, WellFormed, ClRefsOK
  <2> HIDE DEF s
  <2>2. Len(q) \in 0..Len(q)
    BY <1>0, <2>1, LenProperties DEF TypeOK, SessionsTypeOK, Session
  <2>3. CASE /\ PersistQueue(s)
             /\ sessions' = Popped(sessions, s, q, Len(q))
             /\ ClFrame
             /\ UNCHANGED <<correlations, active, outbox, registry>>
    <3>1. RowsFrom({}, NoSession, {}, {})
      BY <1>0, <2>1, <2>3, PersistFlow
    <3>2. SessionsFrom(NoSession, {})
      BY <1>0, <2>1, <2>2, <2>3, SessionFlow
    <3>3. \A k \in Names : active'[k] \in {active[k], NoSession}
      BY <2>3
    <3> QED
      BY <2>3, <3>1, <3>2, <3>3, ClFlow
  <2>4. CASE Restart /\ \E n \in 0..Len(q) : PersistQueueThrows(s, n)
    BY <1>0, <2>1, <2>4, PersistFlow, RestartFlow
  <2> QED
    BY <1>3, <2>3, <2>4 DEF ClPersist, s
<1>4. ASSUME NEW n \in Names, ClErase(n) PROVE DeliveryInv'
  <2> DEFINE s == active[n]
             others == (Registered \ {s}) \cup ev.refs \cup {ak.sess}
  <2>1. s \in SessionIds
    BY <1>4 DEF ClErase, DeliveryInv, WellFormed, ClRefsOK
  <2>2. CASE ReleaseTerminates(s, others)
    <3> HIDE DEF s, others
    <3> QED
      BY <1>0, <2>1, <2>2, PersistFlow, RestartFlow
  <2>3. CASE /\ active' = [active EXCEPT ![n] = NoSession]
             /\ Release(s, others)
             /\ ClFrame
             /\ UNCHANGED <<correlations, outbox, registry>>
    <3>1. \A k \in Names : active'[k] \in {active[k], NoSession}
      BY <1>0, <2>3
    <3> HIDE DEF s, others
    <3>2. RowsFrom({}, NoSession, {}, {}) /\ SessionsFrom(NoSession, {})
      BY <1>0, <2>1, <2>3, PersistFlow
    <3> QED
      BY <2>3, <3>1, <3>2, ClFlow
  <2> QED
    BY <1>4, <2>2, <2>3 DEF ClErase
<1> QED
  BY <1>1, <1>2, <1>3, <1>4 DEF ClStep

-----------------------------------------------------------------------------
(* The socket *)

\* The send queue without its i-th entry.
Without(o, i) == SubSeq(o, 1, i - 1) \o SubSeq(o, i + 1, Len(o))

\* It is one shorter, and the entries after the i-th move up.
LEMMA WithoutIs ==
  ASSUME NEW o \in Seq(PendingSend), NEW i \in DOMAIN o
  PROVE  /\ Len(o) \in Nat /\ DOMAIN o = 1..Len(o) /\ i \in 1..Len(o)
         /\ DOMAIN Without(o, i) = 1..(Len(o) - 1)
         /\ \A k \in 1..(Len(o) - 1) :
              Without(o, i)[k] = IF k < i THEN o[k] ELSE o[k + 1]
<1> DEFINE u == Without(o, i)
           a == SubSeq(o, 1, i - 1)
           b == SubSeq(o, i + 1, Len(o))
<1>0. Len(o) \in Nat /\ DOMAIN o = 1..Len(o) /\ i \in 1..Len(o) /\ i \in Nat
  BY LenProperties
<1>1. /\ a \in Seq(PendingSend) /\ Len(a) = i - 1
      /\ \A k \in 1..(i - 1) : a[k] = o[k]
  <2>1. /\ a \in Seq(PendingSend)
        /\ Len(a) = IF 1 <= i - 1 THEN (i - 1) - 1 + 1 ELSE 0
        /\ \A k \in 1..Len(a) : a[k] = o[1 + k - 1]
    BY <1>0, SubSeqProperties
  <2> HIDE DEF a
  <2>2. Len(a) = i - 1
    BY <1>0, <2>1
  <2>3. ASSUME NEW k \in 1..(i - 1) PROVE a[k] = o[k]
    <3>1. k \in 1..Len(a) /\ 1 + k - 1 = k
      BY <1>0, <2>2
    <3> QED
      BY <2>1, <3>1
  <2> QED
    BY <2>1, <2>2, <2>3
<1>2. /\ b \in Seq(PendingSend) /\ Len(b) = Len(o) - i
      /\ \A k \in 1..(Len(o) - i) : b[k] = o[i + k]
  <2>c. i + 1 \in Int /\ Len(o) \in Int
    BY ONLY <1>0
  <2>0. PICK x \in Int, y \in Int : x = i + 1 /\ y = Len(o)
    BY ONLY <2>c
  <2>a. \A k \in x..y : o[k] \in PendingSend
    BY <1>0, <2>0, ElementOfSeq
  <2>b. /\ SubSeq(o, x, y) \in Seq(PendingSend)
        /\ Len(SubSeq(o, x, y)) = IF x <= y THEN y - x + 1 ELSE 0
        /\ \A k \in 1..y - x + 1 : SubSeq(o, x, y)[k] = o[x + k - 1]
    BY ONLY <2>0, <2>a, SubSeqProperties
  <2>1. /\ b \in Seq(PendingSend)
        /\ Len(b) = IF x <= y THEN y - x + 1 ELSE 0
        /\ \A k \in 1..y - x + 1 : b[k] = o[x + k - 1]
    BY <2>0, <2>b
  <2> HIDE DEF b
  <2>2. Len(b) = Len(o) - i
    BY <1>0, <2>0, <2>1
  <2>3. ASSUME NEW k \in 1..(Len(o) - i) PROVE b[k] = o[i + k]
    <3>0. k \in Nat /\ 1 <= k /\ k <= Len(o) - i
      BY ONLY <1>0, k \in 1..(Len(o) - i)
    <3>1. k \in 1..y - x + 1 /\ x + k - 1 = i + k
      BY ONLY <1>0, <2>0, <3>0
    <3> QED
      BY <2>1, <3>1
  <2> QED
    BY <2>1, <2>2, <2>3
<1> HIDE DEF a, b
<1>3. /\ a \o b \in Seq(PendingSend) /\ Len(a \o b) = Len(a) + Len(b)
      /\ \A k \in 1..Len(a) + Len(b) :
           (a \o b)[k] = IF k <= Len(a) THEN a[k] ELSE b[k - Len(a)]
  BY <1>1, <1>2, ConcatProperties
<1>4. u = a \o b
  BY DEF a, b, Without
<1> HIDE DEF u
<1>5. DOMAIN u = 1..(Len(o) - 1)
  <2>1. u \in Seq(PendingSend) /\ Len(u) = Len(a) + Len(b)
    BY <1>3, <1>4
  <2>2. Len(u) = Len(o) - 1
    BY <1>0, <1>1, <1>2, <2>1
  <2> QED
    BY <2>1, <2>2, LenProperties
<1>6. ASSUME NEW k \in 1..(Len(o) - 1)
      PROVE  u[k] = IF k < i THEN o[k] ELSE o[k + 1]
  <2>0. k \in Nat /\ 1 <= k /\ k <= Len(o) - 1 /\ k \in 1..Len(a) + Len(b)
    BY <1>0, <1>1, <1>2
  <2>1. CASE k < i
    <3>1. k <= Len(a) /\ k \in 1..(i - 1)
      BY <1>0, <1>1, <2>0, <2>1
    <3> QED
      BY <1>1, <1>3, <1>4, <2>0, <2>1, <3>1
  <2>2. CASE ~(k < i)
    <3>1. PICK j \in 1..(Len(o) - i) : j = k - (i - 1)
      BY <1>0, <2>0, <2>2
    <3>2. ~(k <= Len(a)) /\ k - Len(a) = j /\ i + j = k + 1
      BY <1>0, <1>1, <2>0, <2>2, <3>1
    <3>3. u[k] = b[j] /\ b[j] = o[i + j]
      BY <1>2, <1>3, <1>4, <2>0, <3>2
    <3> QED
      BY <2>2, <3>2, <3>3
  <2> QED
    BY <2>1, <2>2
<1> QED
  BY <1>0, <1>5, <1>6 DEF u

\* What is left of the send queue was in it, and all but the i-th is left.
LEMMA OutboxLeft ==
  ASSUME NEW o \in Seq(PendingSend), NEW i \in DOMAIN o
  PROVE  /\ \A k \in DOMAIN Without(o, i) :
              \E j \in DOMAIN o : Without(o, i)[k] = o[j]
         /\ \A j \in DOMAIN o : j # i =>
              \E k \in DOMAIN Without(o, i) : Without(o, i)[k] = o[j]
<1> DEFINE u == Without(o, i)
<1>1. /\ Len(o) \in Nat /\ DOMAIN o = 1..Len(o) /\ i \in 1..Len(o)
      /\ DOMAIN u = 1..(Len(o) - 1)
      /\ \A k \in 1..(Len(o) - 1) :
           u[k] = IF k < i THEN o[k] ELSE o[k + 1]
  BY WithoutIs
<1> HIDE DEF u
<1>2. ASSUME NEW k \in DOMAIN u PROVE \E j \in DOMAIN o : u[k] = o[j]
  <2>1. k \in DOMAIN o /\ k + 1 \in DOMAIN o
    BY <1>1
  <2> QED
    BY <1>1, <2>1
<1>3. ASSUME NEW j \in DOMAIN o, j # i
      PROVE  \E k \in DOMAIN u : u[k] = o[j]
  <2>1. CASE j < i
    <3>1. j \in DOMAIN u
      BY <1>1, <2>1
    <3> QED
      BY <1>1, <2>1, <3>1
  <2>2. CASE j > i
    <3>1. PICK k \in DOMAIN u : k + 1 = j /\ ~(k < i)
      <4>1. j - 1 \in DOMAIN u /\ (j - 1) + 1 = j /\ ~(j - 1 < i)
        BY <1>1, <2>2
      <4> QED
        BY <4>1
    <3> QED
      BY <1>1, <3>1
  <2> QED
    BY <1>1, <1>3, <2>1, <2>2
<1> QED
  BY <1>2, <1>3 DEF u

LEMMA TransmitFlow ==
  ASSUME TypeOK, Transmit
  PROVE  SessionsFrom(NoSession, {}) /\ messages' = messages
         /\ ev' = ev /\ ak' = ak /\ active' = active
<1>0. outbox \in Seq(PendingSend) /\ sessions \in [SessionIds -> Session]
  BY DEF TypeOK, SessionsTypeOK
<1>1. PICK i \in DOMAIN outbox :
        TransmitDelivered(i) \/ TransmitDropped(i) \/ TransmitFailed(i)
  BY DEF Transmit
<1>2. Transmitted(i)
  BY <1>1 DEF TransmitDelivered, TransmitDropped, TransmitFailed
<1>3. outbox[i] \in PendingSend
  BY <1>0, ElementOfSeq
<1>4. PICK s \in SessionIds : s = outbox[i].sess
  BY <1>3 DEF PendingSend
<1>5. sessions' = sessions \/ sessions' = MarkOffline(sessions, s)
  BY <1>1, <1>4 DEF TransmitDelivered, TransmitDropped, TransmitFailed
<1>6. ASSUME NEW r \in SessionIds
      PROVE  /\ Born(r) => Born(r)'
             /\ sessions'[r].name = sessions[r].name
             /\ sessions'[r].queue = sessions[r].queue
  <2>1. CASE sessions' = sessions
    BY <2>1 DEF Born
  <2>2. CASE sessions' = MarkOffline(sessions, s)
    BY <1>0, <2>2 DEF MarkOffline, Born, Session
  <2> QED
    BY <1>5, <2>1, <2>2
<1>7. \A k \in DOMAIN outbox' : \E j \in DOMAIN outbox : outbox'[k] = outbox[j]
  <2>1. outbox' = Without(outbox, i)
    BY <1>2 DEF Transmitted, Without
  <2> QED
    BY <1>0, <2>1, OutboxLeft
<1>8. SessionsFrom(NoSession, {})
  <2>1. ASSUME NEW r \in SessionIds, NEW k \in Message, Carried(r, k)'
        PROVE  Carried(r, k)
    BY <1>6, <1>7, <2>1 DEF Carried
  <2> QED
    BY <1>6, <2>1 DEF SessionsFrom
<1> QED
  BY <1>2, <1>8 DEF Transmitted, storeVars

LEMMA TransmitInv ==
  ASSUME DeliveryInv, WellFormed', Transmit
  PROVE  DeliveryInv'
<1>0. TypeOK /\ outbox \in Seq(PendingSend)
      /\ sessions \in [SessionIds -> Session]
  BY DEF DeliveryInv, WellFormed, TypeOK, SessionsTypeOK
<1>1. PICK i \in DOMAIN outbox :
        TransmitDelivered(i) \/ TransmitDropped(i) \/ TransmitFailed(i)
  BY DEF Transmit
<1>2. Transmitted(i)
  BY <1>1 DEF TransmitDelivered, TransmitDropped, TransmitFailed
<1>3. outbox[i] \in PendingSend
  BY <1>0, ElementOfSeq
<1>4. PICK s \in SessionIds, m \in Message : outbox[i] = [sess |-> s, msg |-> m]
  BY <1>3 DEF PendingSend
<1>5. /\ messages' = messages /\ correlations' = correlations
      /\ active' = active /\ ev' = ev /\ ak' = ak
      /\ submitted' = submitted /\ acks' = acks
      /\ outbox[i].sess = s /\ outbox[i].msg = m
  BY <1>2, <1>4 DEF Transmitted, storeVars
<1>6. sessions' = sessions \/ sessions' = MarkOffline(sessions, s)
  BY <1>1, <1>5 DEF TransmitDelivered, TransmitDropped, TransmitFailed
<1>7. ASSUME NEW r \in SessionIds
      PROVE  /\ Born(r) => Born(r)'
             /\ sessions'[r].name = sessions[r].name
             /\ sessions'[r].queue = sessions[r].queue
  <2>1. CASE sessions' = sessions
    BY <2>1 DEF Born
  <2>2. CASE sessions' = MarkOffline(sessions, s)
    BY <1>0, <2>2 DEF MarkOffline, Born, Session
  <2> QED
    BY <1>6, <2>1, <2>2
<1>9. SessionsFrom(NoSession, {})
  BY <1>0, TransmitFlow
<1>10. /\ RowsFrom({}, NoSession, {}, {}) /\ Proper({}, NoSession, {}, {})
       /\ Later(messages, messages', {})
  BY <1>0, <1>5, StoreFlow DEF Proper, RowsFrom
<1>11. PICK name \in Names \cup {NoName} : name = sessions[s].name
  BY <1>0 DEF Session
<1>12. Sendable(m, name)
  BY <1>4, <1>11 DEF DeliveryInv, CarriedSendable, Carried
<1>13. ReceivedSendable'
  <2> SUFFICES ASSUME NEW r \in received' PROVE Sendable(r.msg, r.name)'
    BY DEF ReceivedSendable
  <2>1. r \in received \/ r = [name |-> name, msg |-> m]
    BY <1>1, <1>5, <1>11
       DEF TransmitDelivered, TransmitDropped, TransmitFailed
  <2>2. Sendable(r.msg, r.name)
    BY <1>12, <2>1 DEF DeliveryInv, ReceivedSendable
  <2> QED
    BY <1>5, <1>10, <2>2, StaysTrue
<1>14. /\ RowsStorable' /\ AckedBeforeDelivered'
  BY <1>5 DEF DeliveryInv, RowsStorable, Storable, Genuine, Asked,
              AckedBeforeDelivered, Awaiting, AckedByDestination
<1>15. CarriedSendable'
  <2> SUFFICES ASSUME NEW r \in SessionIds, NEW k \in Message,
                      NEW n \in Names \cup {NoName},
                      Carried(r, k)', sessions'[r].name = n
               PROVE  Born(r)' /\ Sendable(k, n)'
    BY DEF CarriedSendable
  <2>1. Carried(r, k) /\ sessions[r].name = n
    BY <1>7, <1>9 DEF SessionsFrom
  <2>2. Born(r) /\ Sendable(k, n)
    BY <2>1 DEF DeliveryInv, CarriedSendable
  <2> QED
    BY <1>5, <1>7, <1>10, <2>2, StaysTrue
<1>16. EvKnows' /\ AkKnows' /\ CorrelationsLead'
  <2>1. EvKnows'
    BY <1>5, <1>9, <1>10, EvKept DEF DeliveryInv
  <2>2. AkKnows'
    BY <1>5, <1>9, <1>10, AkKept DEF DeliveryInv
  <2>3. CorrelationsLead'
    BY <1>5, <1>10, CorrelationsKept DEF DeliveryInv
  <2> QED
    BY <2>1, <2>2, <2>3
<1>17. SessionsKnown'
  BY <1>5, <1>7 DEF DeliveryInv, SessionsKnown, SessionOf, Born
<1>18. ClientsHonest'
  <2>1. received \subseteq received'
    BY <1>1 DEF TransmitDelivered, TransmitDropped, TransmitFailed
  <2> QED
    BY <1>5, <2>1 DEF DeliveryInv, ClientsHonest, AckedByDestination
<1> QED
  BY <1>13, <1>14, <1>15, <1>16, <1>17, <1>18 DEF DeliveryInv

-----------------------------------------------------------------------------
(* The invariant holds *)

LEMMA InitInv == Init => DeliveryInv
<1> SUFFICES ASSUME Init PROVE DeliveryInv
  OBVIOUS
<1>1. WellFormed
  BY InitWellFormed
<1>2. /\ messages = <<>> /\ correlations = {} /\ outbox = <<>>
      /\ sessions = [s \in SessionIds |-> Unborn]
      /\ active = [n \in Names |-> NoSession]
      /\ ev = IdleEv /\ ak = IdleAk
      /\ submitted = {} /\ received = {} /\ acks = {}
  BY DEF Init, StorageInit, SessionsInit
<1>3. DOMAIN messages = {} /\ DOMAIN outbox = {}
  BY <1>2
<1>4. SessionsKnown
  BY <1>2 DEF SessionsKnown, IdleEv, IdleAk
<1>5. CarriedSendable
  <2> SUFFICES ASSUME NEW s \in SessionIds, NEW m \in Message, Carried(s, m)
               PROVE  FALSE
    BY DEF CarriedSendable
  <2>1. DOMAIN sessions[s].queue = {}
    BY <1>2 DEF Unborn
  <2> QED
    BY <1>3, <2>1 DEF Carried
<1>6. EvKnows
  BY <1>2, Unaware DEF IdleEv, EvUnaware
<1>7. AkKnows
  BY <1>2 DEF AkKnows, AkSending, IdleAk
<1>8. RowsStorable /\ ReceivedSendable /\ CorrelationsLead /\ ClientsHonest
  BY <1>2, <1>3 DEF RowsStorable, ReceivedSendable, CorrelationsLead,
                    ClientsHonest
<1>9. AckedBeforeDelivered
  BY <1>3 DEF AckedBeforeDelivered, Awaiting
<1> QED
  BY <1>1, <1>4, <1>5, <1>6, <1>7, <1>8, <1>9 DEF DeliveryInv

LEMMA StepInv == DeliveryInv /\ [Next]_vars => DeliveryInv'
<1> SUFFICES ASSUME DeliveryInv, [Next]_vars PROVE DeliveryInv'
  OBVIOUS
<1>0. WellFormed /\ TypeOK
  BY DEF DeliveryInv, WellFormed
<1>1. WellFormed'
  BY <1>0, StepWellFormed
<1>2. ASSUME NEW m \in Requests, Receive(m) PROVE DeliveryInv'
  BY <1>1, <1>2, ReceiveInv
<1>3. CASE EvStep
  BY <1>1, <1>3, EvStepInv
<1>4. CASE AkLoad \/ AkStep
  BY <1>1, <1>4, AkInv
<1>5. CASE ClStart \/ ClStep
  BY <1>1, <1>5, ClInv
<1>6. CASE Transmit
  BY <1>1, <1>6, TransmitInv
<1>7. CASE Crash
  <2>1. RowsFrom({}, NoSession, {}, {})
    BY <1>0, <1>7, StoreFlow DEF Crash
  <2> QED
    BY <1>1, <1>7, <2>1, RestartFlow DEF Crash
<1>8. CASE UNCHANGED vars
  <2>1. /\ UNCHANGED <<messages, sessions, outbox>>
        /\ correlations' = correlations /\ active' = active /\ ak' = ak
        /\ AkFrame
    BY <1>8 DEF vars, storeVars, sessVars, AkFrame
  <2>2. /\ RowsFrom({}, NoSession, {}, {})
        /\ SessionsFrom(NoSession, {})
        /\ Proper({}, NoSession, {}, {})
    BY <2>1, EvNothing
  <2>3. ak'.sess # NoSession => Born(ak'.sess)
    BY <2>1 DEF DeliveryInv, SessionsKnown
  <2>4. AkKnows'
    BY <2>1 DEF DeliveryInv, AkKnows, SessionOf, Born
  <2> QED
    BY <1>1, <2>1, <2>2, <2>3, <2>4, AkFlow
<1> QED
  BY <1>2, <1>3, <1>4, <1>5, <1>6, <1>7, <1>8 DEF Next

-----------------------------------------------------------------------------
(* The promises *)

\* DELIVERED comes after the acknowledgement: no crash, no retry, no loss of
\* a session and no late reply makes the broker call a message that asked for
\* an acknowledgement delivered before its destination gave one.
THEOREM AcknowledgedFirst == Spec => []AckedBeforeDelivered
<1>1. DeliveryInv => AckedBeforeDelivered
  BY DEF DeliveryInv
<1> QED
  BY <1>1, InitInv, StepInv, PTL DEF Spec

\* A reply reaches only a client that sent a message with its correlation id,
\* whichever of the paths through stores, sessions and queues it takes.
THEOREM RepliesFindRequester == Spec => []RepliesToRequester
<1>1. DeliveryInv => RepliesToRequester
  <2> SUFFICES ASSUME DeliveryInv, NEW r \in received, r.msg.type = "Reply"
               PROVE  Asked(r.msg.corr, r.name)
    BY DEF RepliesToRequester, Asked
  <2> QED
    BY DEF DeliveryInv, ReceivedSendable, Sendable
<1> QED
  BY <1>1, InitInv, StepInv, PTL DEF Spec

\* The end to end promise: a message that asked for an acknowledgement is called
\* delivered only when its destination has received a message that asks for one
\* under its correlation id.
THEOREM DeliveredReached == Spec => []DeliveredWasReceived
<1>1. DeliveryInv => DeliveredWasReceived
  <2> SUFFICES ASSUME DeliveryInv, NEW i \in DOMAIN messages,
                      messages[i].status = "DELIVERED",
                      messages[i].msg.type = "Message",
                      "NeedsAck" \in messages[i].msg.flags,
                      messages[i].msg.corr # 0
               PROVE  \E r \in received : /\ r.name = messages[i].msg.dest
                                          /\ r.msg.corr = messages[i].msg.corr
                                          /\ "NeedsAck" \in r.msg.flags
    BY DEF DeliveredWasReceived, D!DeliveredWasReceived, D!Wanted
  <2> DEFINE k == [by |-> messages[i].msg.dest, corr |-> messages[i].msg.corr]
  <2>1. k \in acks
    BY DEF DeliveryInv, AckedBeforeDelivered, Awaiting, NeedsAckFlag,
           AckedByDestination
  <2>2. \E r \in received : /\ r.name = k.by /\ r.msg.corr = k.corr
                            /\ NeedsAckFlag(r.msg)
    BY <2>1 DEF DeliveryInv, ClientsHonest
  <2> QED
    BY <2>2 DEF NeedsAckFlag
<1> QED
  BY <1>1, InitInv, StepInv, PTL DEF Spec

-----------------------------------------------------------------------------
(* Broker implements Delivery *)

\* Only the arrival of a message and the socket touch what clients did and got.
LEMMA AuxStays ==
  ASSUME EvStep \/ AkLoad \/ AkStep \/ ClStart \/ ClStep \/ Crash
  PROVE  UNCHANGED auxVars
<1>0. ASSUME EvFrame \/ AkFrame \/ ClFrame \/ Restart PROVE UNCHANGED auxVars
  BY <1>0 DEF EvFrame, AkFrame, ClFrame, Restart, auxVars
<1>1. ASSUME NEW s, EvRelease(s) PROVE EvFrame \/ Restart
  BY <1>1 DEF EvRelease, ReleaseTerminates
<1>2. CASE EvReturn \/ EvRegister
  BY <1>0, <1>2
     DEF EvReturn, EvRegister, EvUpsert, EvOffLoad, EvOffNext, EvOffSend,
         EvOffDone, EvOffFlush, EvRepLoad, EvRepNext, EvRepSend, EvRepDone,
         EvThrows
<1>3. CASE EvMessage \/ EvReply
  BY <1>0, <1>3
     DEF EvMessage, EvReply, EvFind, EvSave, EvCorr, EvSend, EvMark,
         EvReplySave, EvReplyCorr, EvReplyFind, EvReplySent, EvReplySend,
         EvReplyMark, EvReplyRollback, EvThrows
<1>4. CASE EvAck \/ EvUnregister
  BY <1>0, <1>4
     DEF EvAck, EvUnregister, EvAckLook, EvAckDeliver, EvAckNotify, EvAckSend,
         EvAckSave, EvAckReceived, EvUnregFind, EvUnregPersist, EvUnregRemove,
         EvThrows
<1>5. CASE AkLoad \/ AkStep
  BY <1>0, <1>5
     DEF AkLoad, AkStep, AkNext, AkFind, AkSent, AkSend, AkRelease,
         AkTerminates, AkThrows, ReleaseTerminates
<1>6. CASE ClStart \/ ClStep
  BY <1>0, <1>6
     DEF ClStart, ClStep, ClVisit, ClPersist, ClSwept, ClErase, ClEnd,
         ReleaseTerminates
<1>7. CASE Crash
  BY <1>0, <1>7 DEF Crash
<1> QED
  BY <1>0, <1>1, <1>2, <1>3, <1>4, <1>5, <1>6, <1>7 DEF EvStep

\* A step adds rows that are not DELIVERED, or makes one row DELIVERED.
LEMMA RowsOrDone ==
  ASSUME TypeOK, RowsStep
  PROVE  \/ /\ Later(messages, messages', {})
            /\ \A i \in DOMAIN messages' \ DOMAIN messages :
                 messages'[i].status # "DELIVERED"
         \/ \E id : /\ Later(messages, messages', {id})
                    /\ DOMAIN messages' = DOMAIN messages
<1>1. messages \in Seq(Row)
  BY DEF TypeOK, StorageTypeOK
<1>2. ASSUME NEW name \in Names \cup {NoName}, NEW q \in Seq(Message),
             NEW n \in 0..Len(q), messages' = Persisted(messages, name, q, n)
      PROVE  /\ Later(messages, messages', {})
             /\ \A i \in DOMAIN messages' \ DOMAIN messages :
                  messages'[i].status = "PENDING"
  <2> DEFINE u == Persisted(messages, name, q, n)
  <2>1. Later(messages, u, {})
    BY <1>1, PersistedRows
  <2>2. \A i \in DOMAIN u \ DOMAIN messages : u[i].status = "PENDING"
    BY <1>1, PersistedRows
  <2> QED
    BY <1>2, <2>1, <2>2
<1>3. ASSUME NEW m \in Message, messages' = SaveMessage(messages, m)
      PROVE  /\ Later(messages, messages', {})
             /\ \A i \in DOMAIN messages' \ DOMAIN messages :
                  messages'[i].status = "PENDING"
  <2>1. /\ Later(messages, messages', {})
        /\ DOMAIN messages' = DOMAIN messages \cup {Len(messages) + 1}
        /\ messages'[Len(messages) + 1] = [msg |-> m, status |-> "PENDING"]
    BY <1>1, <1>3, SaveRows
  <2> QED
    BY <2>1
<1>4. ASSUME NEW id \in Nat, \/ messages' = MarkSent(messages, id)
                             \/ messages' = MarkPending(messages, id)
      PROVE  Later(messages, messages', {}) /\ DOMAIN messages' = DOMAIN messages
  BY <1>1, <1>4, MarkRows
<1>5. ASSUME NEW id \in Nat, messages' = MarkDelivered(messages, id)
      PROVE  /\ Later(messages, messages', {id})
             /\ DOMAIN messages' = DOMAIN messages
  BY <1>1, <1>5, MarkRows
<1>6. ASSUME messages' = messages PROVE Later(messages, messages', {})
  BY <1>1, <1>6, SameRows
<1> QED
  BY <1>2, <1>3, <1>4, <1>5, <1>6 DEF RowsStep

\* The log of Delivery, of a table.
LogOf(t) == [i \in DOMAIN t |-> t[i].msg]
DoneOf(t) == {i \in DOMAIN t : t[i].status = "DELIVERED"}

LEMMA LogIsSeq ==
  ASSUME NEW t \in Seq(Row)
  PROVE  LogOf(t) \in Seq(Message) /\ DOMAIN LogOf(t) = DOMAIN t
         /\ Len(LogOf(t)) = Len(t)
<1>1. Len(t) \in Nat /\ DOMAIN t = 1..Len(t)
  BY LenProperties
<1>2. \A i \in 1..Len(t) : t[i].msg \in Message
  <2>1. \A i \in 1..Len(t) : t[i] \in Row
    BY ElementOfSeq
  <2> QED
    BY <2>1 DEF Row
<1>3. LogOf(t) = [i \in 1..Len(t) |-> t[i].msg]
  BY <1>1 DEF LogOf
<1>4. LogOf(t) \in Seq(Message)
  BY <1>1, <1>2, <1>3, IsASeq
<1> QED
  BY <1>1, <1>3, <1>4, LenProperties

\* The table grows: the log does, and nothing is done that was not.
LEMMA GrowingLog ==
  ASSUME NEW t \in Seq(Row), NEW u \in Seq(Row), Later(t, u, {}),
         \A i \in DOMAIN u \ DOMAIN t : u[i].status # "DELIVERED"
  PROVE  /\ LogOf(u) \in Seq(Message)
         /\ Len(LogOf(t)) <= Len(LogOf(u))
         /\ \A i \in DOMAIN LogOf(t) : LogOf(u)[i] = LogOf(t)[i]
         /\ DoneOf(u) = DoneOf(t)
<1>1. /\ Len(t) \in Nat /\ DOMAIN t = 1..Len(t)
      /\ Len(u) \in Nat /\ DOMAIN u = 1..Len(u)
      /\ DOMAIN t \subseteq DOMAIN u
  BY LenProperties DEF Later, Grown
<1>2. Len(t) <= Len(u)
  BY <1>1
<1>3. \A i \in DOMAIN LogOf(t) : LogOf(u)[i] = LogOf(t)[i]
  BY <1>1 DEF LogOf, Later
<1>4. DoneOf(u) = DoneOf(t)
  BY <1>1 DEF DoneOf, Later
<1> QED
  BY <1>2, <1>3, <1>4, LogIsSeq

\* Every step is one of Delivery, or changes nothing there.
LEMMA StepDelivers ==
  ASSUME DeliveryInv, DeliveryInv', [Next]_vars
  PROVE  [D!Next]_(D!vars)
<1>0. TypeOK /\ TypeOK' /\ WellFormed
  BY DEF DeliveryInv, WellFormed
<1>1. messages \in Seq(Row) /\ messages' \in Seq(Row)
  BY <1>0 DEF TypeOK, StorageTypeOK
<1>2. ASSUME messages' = messages, received' = received, acks' = acks
      PROVE  UNCHANGED D!vars
  BY <1>2 DEF D!vars
<1>3. CASE UNCHANGED auxVars
  <2>0. received' = received /\ acks' = acks
    BY <1>3 DEF auxVars
  <2>1. CASE /\ Later(messages, messages', {})
             /\ \A i \in DOMAIN messages' \ DOMAIN messages :
                  messages'[i].status # "DELIVERED"
    <3>1. /\ LogOf(messages') \in Seq(Message)
          /\ Len(LogOf(messages)) <= Len(LogOf(messages'))
          /\ \A i \in DOMAIN LogOf(messages) :
               LogOf(messages')[i] = LogOf(messages)[i]
          /\ DoneOf(messages') = DoneOf(messages)
      <4>1. PICK t \in Seq(Row), u \in Seq(Row) : t = messages /\ u = messages'
        BY <1>1
      <4>2. /\ Later(t, u, {})
            /\ \A i \in DOMAIN u \ DOMAIN t : u[i].status # "DELIVERED"
        BY <2>1, <4>1
      <4>3. /\ LogOf(u) \in Seq(Message)
            /\ Len(LogOf(t)) <= Len(LogOf(u))
            /\ \A i \in DOMAIN LogOf(t) : LogOf(u)[i] = LogOf(t)[i]
            /\ DoneOf(u) = DoneOf(t)
        BY <4>2, GrowingLog
      <4> QED
        BY <4>1, <4>3
    <3>2. D!Accept
      BY <2>0, <3>1, Zenon DEF D!Accept, LogOf, DoneOf
    <3> QED
      BY <3>2 DEF D!Next
  <2>2. ASSUME NEW id, Later(messages, messages', {id}),
               DOMAIN messages' = DOMAIN messages
        PROVE  [D!Next]_(D!vars)
    <3>1. LogOf(messages') = LogOf(messages)
      BY <2>2 DEF Later, LogOf
    <3>2. DoneOf(messages') = DoneOf(messages)
          \/ /\ id \in DOMAIN messages /\ id \notin DoneOf(messages)
             /\ id \in DoneOf(messages')
             /\ DoneOf(messages') = DoneOf(messages) \cup {id}
      BY <2>2 DEF Later, DoneOf
    <3>3. CASE DoneOf(messages') = DoneOf(messages)
      BY <2>0, <3>1, <3>3 DEF D!vars, LogOf, DoneOf
    <3>4. CASE /\ id \in DOMAIN messages /\ id \notin DoneOf(messages)
               /\ id \in DoneOf(messages')
               /\ DoneOf(messages') = DoneOf(messages) \cup {id}
      <4> DEFINE m == messages[id].msg
      <4>1. (m.type = "Message" /\ "NeedsAck" \in m.flags) =>
              [by |-> m.dest, corr |-> m.corr] \in acks
        <5>1. messages'[id].msg = m /\ messages'[id].status = "DELIVERED"
          BY <2>2, <3>4 DEF Later, DoneOf
        <5>2. id \in DOMAIN messages'
          BY <3>4 DEF DoneOf
        <5> QED
          BY <2>0, <5>1, <5>2
             DEF DeliveryInv, AckedBeforeDelivered, Awaiting, NeedsAckFlag,
                 AckedByDestination
      <4>2. LogOf(messages)[id] = m /\ DOMAIN LogOf(messages) = DOMAIN messages
        BY <3>4 DEF LogOf
      <4>3. D!Complete(id)
        BY <2>0, <3>1, <3>4, <4>1, <4>2
           DEF D!Complete, D!Wanted, LogOf, DoneOf
      <4> QED
        BY <3>4, <4>2, <4>3 DEF D!Next, LogOf
    <3> QED
      BY <3>2, <3>3, <3>4
  <2> QED
    BY <1>0, <2>1, <2>2, StepRows, RowsOrDone
<1>4. ASSUME NEW m \in Requests, Receive(m) PROVE [D!Next]_(D!vars)
  <2>1. /\ messages' = messages /\ received' = received
        /\ \/ acks' = acks
           \/ acks' = acks \cup {[by |-> m.sender, corr |-> m.corr]}
    BY <1>4 DEF Receive, storeVars
  <2>2. CASE acks' = acks
    BY <1>2, <2>1, <2>2
  <2>3. ASSUME acks' # acks PROVE D!Acknowledge
    <3> DEFINE k == [by |-> m.sender, corr |-> m.corr]
    <3>1. k \in acks' \ acks /\ acks' = acks \cup {k}
      BY <2>1, <2>3
    <3>2. k.corr # 0 => \E r \in received : /\ r.name = k.by
                                            /\ r.msg.corr = k.corr
                                            /\ "NeedsAck" \in r.msg.flags
      BY <2>1, <3>1 DEF DeliveryInv, ClientsHonest, NeedsAckFlag
    <3> HIDE DEF k
    <3> QED
      BY <2>1, <3>1, <3>2 DEF D!Acknowledge, D!Wanted
  <2> QED
    BY <2>2, <2>3 DEF D!Next
<1>5. CASE Transmit
  <2>1. PICK i \in DOMAIN outbox :
          TransmitDelivered(i) \/ TransmitDropped(i) \/ TransmitFailed(i)
    BY <1>5 DEF Transmit
  <2>r. PICK r : r = [name |-> sessions[outbox[i].sess].name,
                      msg |-> outbox[i].msg]
    OBVIOUS
  <2>2. /\ messages' = messages /\ acks' = acks
        /\ received' = received \/ received' = received \cup {r}
    BY <2>1, <2>r DEF TransmitDelivered, TransmitDropped, TransmitFailed,
                      Transmitted, storeVars
  <2>3. CASE received' = received
    BY <1>2, <2>2, <2>3
  <2>4. ASSUME received' # received PROVE D!HandOver
    <3>1. r \in received' \ received /\ received' = received \cup {r}
      BY <2>2, <2>4
    <3>2. Sendable(r.msg, r.name)'
      BY <3>1 DEF DeliveryInv, ReceivedSendable
    <3>3. /\ r.msg.type \in {"Message", "Reply"} =>
               \E j \in DOMAIN messages : messages[j].msg = r.msg
          /\ r.msg.type = "Message" => r.name = r.msg.dest
      BY <2>2, <3>2 DEF Sendable
    <3>4. r.msg.type \in {"Message", "Reply"} =>
            \E j \in DOMAIN LogOf(messages) : LogOf(messages)[j] = r.msg
      BY <3>3 DEF LogOf
    <3> QED
      BY <2>2, <3>1, <3>3, <3>4 DEF D!HandOver, LogOf
  <2> QED
    BY <2>3, <2>4 DEF D!Next
<1>6. CASE UNCHANGED vars
  BY <1>2, <1>6 DEF vars, storeVars, auxVars
<1> QED
  BY <1>3, <1>4, <1>5, <1>6, AuxStays DEF Next

\* The broker, with its sessions, queues, timers, failing writes and crashes,
\* implements Delivery: a log of which nothing is lost or rewritten, clients
\* that get what is logged and meant for them, and messages that are done once
\* and, when they asked for it, after their acknowledgement.
THEOREM BrokerDelivers == Spec => ImplementsDelivery
<1>1. Init => D!Init
  BY DEF Init, StorageInit, D!Init
<1>2. DeliveryInv /\ DeliveryInv' /\ [Next]_vars => [D!Next]_(D!vars)
  BY StepDelivers
<1> QED
  BY <1>1, <1>2, InitInv, StepInv, PTL DEF Spec, ImplementsDelivery, D!Spec
=============================================================================
