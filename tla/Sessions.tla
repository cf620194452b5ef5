------------------------------ MODULE Sessions ------------------------------
(***************************************************************************)
(* The Session objects (session.cpp), the registry of active clients       *)
(* (Router::active_clients_) and the server's queue of pending sends       *)
(* (Server::pending_sends_).                                               *)
(*                                                                         *)
(* A Session lives as long as a shared_ptr refers to it; a member of       *)
(* SessionIds is one such object.  The bool is_online_ and the life of the *)
(* object are one status: unborn, online, offline, destroyed.  No code in  *)
(* src/ calls MarkOnline, so an offline session never comes back; its      *)
(* client registers again and gets a new Session.                          *)
(*                                                                         *)
(* A client's ZeroMQ routing id is its name, as universal_client sets it,  *)
(* so identity_to_name_ agrees with active_clients_ and is left out.       *)
(***************************************************************************)
EXTENDS Storage

CONSTANTS
  SessionIds,  \* the Session objects that may be made (a bound)
  NoSession,   \* the null shared_ptr
  Threshold,   \* QUEUE_PERSIST_THRESHOLD
  MaxOutbox    \* a bound on pending_sends_

ASSUME SessionsAssumption ==
  /\ NoSession \notin SessionIds
  /\ Threshold \in Nat /\ Threshold >= 2
  /\ MaxOutbox \in Nat

VARIABLES
  sessions,  \* the Session objects
  active,    \* active_clients_: the session registered under each name
  outbox     \* pending_sends_, with the session whose callback each carries

sessVars == <<sessions, active, outbox>>

Session == [status: {"unborn", "online", "offline", "destroyed"},
            name: Names \cup {NoName},
            queue: Seq(Message)]

Unborn == [status |-> "unborn", name |-> NoName, queue |-> <<>>]

PendingSend == [sess: SessionIds, msg: Message]

SessionsTypeOK ==
  /\ sessions \in [SessionIds -> Session]
  /\ active \in [Names -> SessionIds \cup {NoSession}]
  /\ outbox \in Seq(PendingSend)

SessionsInit ==
  /\ sessions = [s \in SessionIds |-> Unborn]
  /\ active = [n \in Names |-> NoSession]
  /\ outbox = <<>>

IsOnline(s) == sessions[s].status = "online"

\* Router::FindSession.
FindSession(name) == IF name \in Names THEN active[name] ELSE NoSession

Registered == {active[n] : n \in Names} \ {NoSession}

\* MarkOffline on a session table.  On a destroyed session the store goes to
\* freed memory, which changes no live session.
MarkOffline(ss, s) ==
  IF ss[s].status = "online" THEN [ss EXCEPT ![s].status = "offline"] ELSE ss

-----------------------------------------------------------------------------
(* Persisting a queue: one SaveMessage for each message taken from its front *)

\* Router::PersistMessageForClient on the first n messages of q.
Persisted(t, name, q, n) ==
  t \o [i \in 1..n |-> [msg |-> [q[i] EXCEPT !.dest = name],
                        status |-> "PENDING"]]

\* The session table after the first n messages of s's queue q are popped.
Popped(ss, s, q, n) == [ss EXCEPT ![s].queue = SubSeq(q, n + 1, Len(q))]

\* PersistQueueToDatabase to the end.
PersistQueue(s) ==
  LET q == sessions[s].queue
  IN  messages' = Persisted(messages, sessions[s].name, q, Len(q))

\* PersistQueueToDatabase that throws: some proper prefix got out.
PersistQueueThrows(s, n) ==
  LET q == sessions[s].queue
  IN  /\ DbMayFail
      /\ n < Len(q)
      /\ messages' = Persisted(messages, sessions[s].name, q, n)

-----------------------------------------------------------------------------
(* Sending *)

\* EnqueueMessage: push, and over the threshold persist the older half.  A
\* SaveMessage that fails there is left out: a queue never holds more than two
\* messages (QueueBounded in module Broker), so the branch is never taken.
EnqueueMessage(s, m) ==
  LET q == Append(sessions[s].queue, m)
      n == IF Len(q) > Threshold THEN Len(q) \div 2 ELSE 0
  IN  /\ sessions' = Popped(sessions, s, q, n)
      /\ messages' = Persisted(messages, sessions[s].name, q, n)

\* A send that queues and leaves the sending to FlushQueue.
SendMessage_Queue(s, m) ==
  /\ EnqueueMessage(s, m)
  /\ UNCHANGED outbox

\* SendMessage: an online session hands the message to the server's queue, an
\* offline one queues it.  It always returns true.  An exception on the way to
\* the queue (of an allocation: Serialize does not throw, TakenWhole in module
\* Codec) marks the session offline and drops the message, as a push does that
\* the socket refuses at once, and has no disjunct of its own.
SendMessage(s, m) ==
  \/ /\ IsOnline(s)
     /\ Len(outbox) < MaxOutbox
     /\ outbox' = Append(outbox, [sess |-> s, msg |-> m])
     /\ UNCHANGED <<sessions, messages>>
  \/ /\ ~IsOnline(s)
     /\ EnqueueMessage(s, m)
     /\ UNCHANGED outbox

\* FlushQueue: an online session moves its whole queue to the server's.
FlushQueue(s) ==
  IF IsOnline(s)
  THEN LET q == sessions[s].queue
       IN  /\ Len(outbox) + Len(q) <= MaxOutbox
           /\ outbox' = outbox \o [i \in 1..Len(q) |->
                                     [sess |-> s, msg |-> q[i]]]
           /\ sessions' = Popped(sessions, s, q, Len(q))
  ELSE UNCHANGED <<sessions, outbox>>

\* ~Session that forgets what is still queued.
Destroy_NoPersist(s) ==
  /\ sessions' = [sessions EXCEPT ![s] = [status |-> "destroyed",
                                           name |-> @.name, queue |-> <<>>]]
  /\ UNCHANGED messages

\* ~Session: what is still queued is persisted.
Destroy(s) ==
  /\ sessions' = [sessions EXCEPT ![s] = [status |-> "destroyed",
                                           name |-> @.name, queue |-> <<>>]]
  /\ PersistQueue(s)
=============================================================================
