------------------------------- MODULE Broker -------------------------------
(***************************************************************************)
(* The broker: what its threads do to the store, the sessions and the      *)
(* queue of pending sends.  Four activities run on the thread pool:        *)
(*                                                                         *)
(*   ev  Server::OnZmqEvent.  The descriptor is re-armed at the end of the *)
(*       callback, so one message at a time goes through                   *)
(*       Router::RouteMessage and its handler;                             *)
(*   ak  the ACK timer, Router::CheckExpiredAcks;                          *)
(*   cl  the cleanup timer, Router::CleanupInactiveSessions;               *)
(*       Server::ProcessPendingSends, which hands messages to the socket.  *)
(*                                                                         *)
(* A step is one call into Storage, Session or the registry: each runs     *)
(* under its own mutex, and the other activities run between any two.      *)
(* CleanupInactiveSessions alone keeps registry_mutex_ over several calls; *)
(* `registry` says whether it does.                                        *)
(*                                                                         *)
(* With DbMayFail a write may throw.  An exception of a handler ends the   *)
(* handler (OnZmqEvent catches it); one of a timer, or of ~Session, ends   *)
(* the process, which starts again with the store it left behind.          *)
(***************************************************************************)
EXTENDS Sessions

CONSTANTS
  Requests,        \* the messages clients may send
  RetryOn,         \* AckTimeout > 0: the ACK timer is set
  SessionsExpire,  \* SessionTimeout > 0
  HasMetrics,      \* is metrics_ set?  Server sets it, the unit tests do not
  MayCrash         \* may the process die at any time?

ASSUME BrokerAssumption ==
  /\ Requests \subseteq Message
  /\ {RetryOn, SessionsExpire, HasMetrics, MayCrash} \subseteq BOOLEAN

VARIABLES
  registry,   \* "free", or "cleanup" while cl holds registry_mutex_
  ev, ak, cl, \* the activities: where each is and the locals it needs there
  submitted,  \* auxiliary: the messages and replies clients have sent
  received,   \* auxiliary: what reached which client
  offered,    \* auxiliary: what the socket was given, whatever came of it
  acks        \* auxiliary: the acknowledgements the broker has taken in

auxVars == <<submitted, received, offered, acks>>
vars == <<storeVars, sessVars, registry, ev, ak, cl, auxVars>>

DefaultMessage == [type |-> "Message", flags |-> {}, corr |-> 0,
                   sender |-> NoName, dest |-> NoName]

\* refs: the sessions the frames of the callback hold a shared_ptr to;
\* sess: the one it is sending to; todo: the rows a delivery loop has left.
IdleEv == [pc |-> "idle", msg |-> DefaultMessage, id |-> 0,
           sess |-> NoSession, refs |-> {}, todo |-> {}, owner |-> NoName]
IdleAk == [pc |-> "idle", id |-> 0, sess |-> NoSession, todo |-> {}]
IdleCl == [pc |-> "idle", todo |-> {}, gone |-> {}, cur |-> NoName]

EvPCs == {"idle", "done", "rollback",
          "upsert", "offLoad", "offNext", "offSend", "offDone", "offFlush",
          "repLoad", "repNext", "repSend", "repDone",
          "find", "save", "corr", "send", "mark",
          "rSave", "rCorr", "rFind", "rSent", "rSend", "rMark",
          "aLook", "aDeliver", "aReceived", "aNotify", "aSend", "aSave",
          "uFind", "uPersist", "uRemove"}
AkPCs == {"idle", "next", "find", "sent", "send", "release"}
ClPCs == {"idle", "visit", "persist", "erase", "relock"}

EvState == [pc: EvPCs, msg: Message, id: Nat,
            sess: SessionIds \cup {NoSession}, refs: SUBSET SessionIds,
            todo: SUBSET Nat, owner: Names \cup {NoName}]
AkState == [pc: AkPCs, id: Nat, sess: SessionIds \cup {NoSession},
            todo: SUBSET Nat]
ClState == [pc: ClPCs, todo: SUBSET Names, gone: SUBSET Names,
            cur: Names \cup {NoName}]

Reception == [name: Names \cup {NoName}, msg: Message]
Acknowledgement == [by: Names \cup {NoName}, corr: Corrs \cup {0}]

Init ==
  /\ StorageInit
  /\ SessionsInit
  /\ registry = "free"
  /\ ev = IdleEv
  /\ ak = IdleAk
  /\ cl = IdleCl
  /\ submitted = {}
  /\ received = {}
  /\ offered = {}
  /\ acks = {}

-----------------------------------------------------------------------------
(* Shared by the activities *)

\* i is the first row of a result that is taken in the order of ids.
IsFirst(i, ids) == i \in ids /\ \A j \in ids : i <= j

\* The process dies and starts again: what is not in the store is gone.
Restart ==
  /\ sessions' = [s \in SessionIds |->
       IF sessions[s].status = "unborn" THEN Unborn
       ELSE [status |-> "destroyed", name |-> NoName, queue |-> <<>>]]
  /\ active' = [n \in Names |-> NoSession]
  /\ outbox' = <<>>
  /\ registry' = "free"
  /\ ev' = IdleEv
  /\ ak' = IdleAk
  /\ cl' = IdleCl
  /\ UNCHANGED <<correlations, auxVars>>

\* A shared_ptr to s is dropped; the last one runs ~Session.
Release(s, otherRefs) ==
  IF s \in otherRefs
  THEN UNCHANGED <<sessions, messages>>
  ELSE Destroy(s)

\* ~Session is noexcept: a failing SaveMessage in it ends the process.
ReleaseTerminates(s, otherRefs) ==
  /\ s \notin otherRefs
  /\ \E n \in 0..Len(sessions[s].queue) : PersistQueueThrows(s, n)
  /\ Restart

EvGoto(pc) == ev' = [ev EXCEPT !.pc = pc]

\* The handler returns or throws; the references of its frames remain.
EvFinish == ev' = [IdleEv EXCEPT !.pc = "done", !.refs = ev.refs]

\* A write of the handler fails and the handler is left.
EvThrows == DbMayFail /\ EvFinish /\ UNCHANGED messages

EvFrame == UNCHANGED <<registry, ak, cl, auxVars>>

-----------------------------------------------------------------------------
(* A message arrives *)

\* What a client sends, when, as universal_client does: a request once; an
\* acknowledgement of what it received with NeedsAck, as often as it likes; a
\* reply to what it received with NeedsReply, after the acknowledgement.
ClientMaySend(m) ==
  LET got(flag) == \E r \in received : /\ r.name = m.sender
                                       /\ r.msg.corr = m.corr
                                       /\ flag \in r.msg.flags
  IN  CASE m.type = "Message" -> m \notin submitted
        [] m.type = "Reply" ->
             /\ m \notin submitted
             /\ got("NeedsReply")
             /\ got("NeedsAck") => [by |-> m.sender, corr |-> m.corr] \in acks
        [] m.type = "Ack" -> m.corr # 0 => got("NeedsAck")
        [] OTHER -> TRUE

\* MessageHandlerFactory::Create and the checks the handlers start with.
Handler(m) ==
  CASE m.type = "Register" -> IF m.sender = NoName THEN "done" ELSE "upsert"
    [] m.type = "Message" -> "find"
    [] m.type = "Reply" -> "rSave"
    [] m.type = "Ack" -> IF m.corr = 0 THEN "done" ELSE "aLook"
    [] m.type = "Unregister" -> "uFind"

\* OnZmqEvent takes a message and RouteMessage finds its sender's session.
\* (Bound: a registration needs a Session object that is not yet made.)
Receive(m) ==
  /\ ev.pc = "idle"
  /\ registry = "free"
  /\ m.type = "Register" => \E s \in SessionIds : sessions[s].status = "unborn"
  /\ ClientMaySend(m)
  /\ ev' = [IdleEv EXCEPT !.pc = Handler(m), !.msg = m,
                          !.refs = {FindSession(m.sender)} \ {NoSession}]
  /\ submitted' = submitted \cup
       (IF m.type \in {"Message", "Reply"} THEN {m} ELSE {})
  /\ acks' = acks \cup
       (IF m.type = "Ack" THEN {[by |-> m.sender, corr |-> m.corr]} ELSE {})
  /\ UNCHANGED <<storeVars, sessVars, registry, ak, cl, received, offered>>

\* RouteMessage returns: its references go one by one, then it is over.
EvRelease(s) ==
  /\ ev.pc = "done"
  /\ s \in ev.refs
  /\ \/ /\ Release(s, Registered \cup {ak.sess})
        /\ ev' = [ev EXCEPT !.refs = @ \ {s}]
        /\ EvFrame
        /\ UNCHANGED <<active, outbox, correlations>>
     \/ ReleaseTerminates(s, Registered \cup {ak.sess})

EvReturn ==
  /\ ev.pc = "done"
  /\ ev.refs = {}
  /\ ev' = IdleEv
  /\ EvFrame
  /\ UNCHANGED <<storeVars, sessVars>>

-----------------------------------------------------------------------------
(* RegisterHandler *)

\* UpsertClient: a session registered before is persisted, marked offline and
\* replaced.  If its queue cannot be persisted it stays.
EvUpsert ==
  LET old == FindSession(ev.msg.sender)
      q == IF old = NoSession THEN <<>> ELSE sessions[old].queue
  IN  /\ ev.pc = "upsert"
      /\ registry = "free"
      /\ \/ \E new \in SessionIds :
              /\ sessions[new].status = "unborn"
              /\ sessions' = [s \in SessionIds |->
                   IF s = new
                   THEN [status |-> "online", name |-> ev.msg.sender,
                         queue |-> <<>>]
                   ELSE IF s = old
                   THEN [status |-> "offline", name |-> sessions[s].name,
                         queue |-> <<>>]
                   ELSE sessions[s]]
              /\ messages' = Persisted(messages, ev.msg.sender, q, Len(q))
              /\ active' = [active EXCEPT ![ev.msg.sender] = new]
              /\ ev' = [ev EXCEPT !.pc = "offLoad",
                                  !.refs = (@ \cup {new, old}) \ {NoSession}]
         \/ /\ old # NoSession
            /\ \E n \in 0..Len(q) : /\ PersistQueueThrows(old, n)
                                    /\ sessions' = Popped(sessions, old, q, n)
            /\ EvFinish
            /\ UNCHANGED active
      /\ EvFrame
      /\ UNCHANGED <<outbox, correlations>>

\* DeliverOfflineMessages finds the session again and loads what is pending.
EvOffLoad ==
  LET s == FindSession(ev.msg.sender)
  IN  /\ ev.pc = "offLoad"
      /\ registry = "free"
      /\ \E ids \in Prefixes(LoadPendingMessagesOnly(messages, ev.msg.sender)) :
           IF s = NoSession \/ ids = {}
           THEN EvGoto("repLoad")
           ELSE ev' = [ev EXCEPT !.pc = "offNext", !.sess = s, !.todo = ids]
      /\ EvFrame
      /\ UNCHANGED <<storeVars, sessVars>>

\* The head of the loop: stop when the client went offline, else mark the
\* next message SENT if it wants an acknowledgement.
EvOffNext ==
  /\ ev.pc = "offNext"
  /\ \/ /\ ev.todo = {} \/ ~IsOnline(ev.sess)
        /\ EvGoto("offFlush")
        /\ UNCHANGED messages
     \/ \E i \in ev.todo :
          /\ IsFirst(i, ev.todo)
          /\ IsOnline(ev.sess)
          /\ ev' = [ev EXCEPT !.pc = "offSend", !.id = i, !.todo = @ \ {i}]
          /\ messages' = IF NeedsAckFlag(messages[i].msg)
                         THEN MarkSent(messages, i) ELSE messages
     \/ /\ \E i \in ev.todo : /\ IsFirst(i, ev.todo)
                              /\ NeedsAckFlag(messages[i].msg)
        /\ IsOnline(ev.sess)
        /\ EvThrows
  /\ EvFrame
  /\ UNCHANGED <<correlations, sessVars>>

\* A delivery that takes every message for delivered once it is sent, as the
\* delivery of replies does.
EvOffSend_NoAckCheck ==
  /\ ev.pc = "offSend"
  /\ SendMessage(ev.sess, messages[ev.id].msg)
  /\ EvGoto("offDone")
  /\ EvFrame
  /\ UNCHANGED <<correlations, active>>

EvOffSend ==
  LET m == messages[ev.id].msg
  IN  /\ ev.pc = "offSend"
      /\ SendMessage(ev.sess, m)
      /\ EvGoto(IF NeedsAckFlag(m) THEN "offNext" ELSE "offDone")
      /\ EvFrame
      /\ UNCHANGED <<correlations, active>>

\* A delivery that forgets to note what it delivered.
EvOffDone_NoMark ==
  /\ ev.pc = "offDone"
  /\ EvGoto("offNext")
  /\ EvFrame
  /\ UNCHANGED <<storeVars, sessVars>>

EvOffDone ==
  /\ ev.pc = "offDone"
  /\ \/ messages' = MarkDelivered(messages, ev.id) /\ EvGoto("offNext")
     \/ EvThrows
  /\ EvFrame
  /\ UNCHANGED <<correlations, sessVars>>

EvOffFlush ==
  /\ ev.pc = "offFlush"
  /\ FlushQueue(ev.sess)
  /\ EvGoto("repLoad")
  /\ EvFrame
  /\ UNCHANGED <<storeVars, active>>

\* DeliverPendingReplies finds the session again and loads the replies.
EvRepLoad ==
  LET s == FindSession(ev.msg.sender)
  IN  /\ ev.pc = "repLoad"
      /\ registry = "free"
      /\ \E ids \in Prefixes(LoadPendingRepliesForSenderOnly(
                               messages, correlations, ev.msg.sender)) :
           IF s = NoSession \/ ids = {}
           THEN EvFinish
           ELSE ev' = [ev EXCEPT !.pc = "repNext", !.sess = s, !.todo = ids]
      /\ EvFrame
      /\ UNCHANGED <<storeVars, sessVars>>

EvRepNext ==
  /\ ev.pc = "repNext"
  /\ \/ /\ ev.todo = {} \/ ~IsOnline(ev.sess)
        /\ EvFinish
        /\ UNCHANGED messages
     \/ \E i \in ev.todo :
          /\ IsFirst(i, ev.todo)
          /\ IsOnline(ev.sess)
          /\ ev' = [ev EXCEPT !.pc = "repSend", !.id = i, !.todo = @ \ {i}]
          /\ messages' = IF NeedsAckFlag(messages[i].msg)
                         THEN MarkSent(messages, i) ELSE messages
     \/ /\ \E i \in ev.todo : /\ IsFirst(i, ev.todo)
                              /\ NeedsAckFlag(messages[i].msg)
        /\ IsOnline(ev.sess)
        /\ EvThrows
  /\ EvFrame
  /\ UNCHANGED <<correlations, sessVars>>

EvRepSend ==
  /\ ev.pc = "repSend"
  /\ SendMessage(ev.sess, messages[ev.id].msg)
  /\ EvGoto("repDone")
  /\ EvFrame
  /\ UNCHANGED <<correlations, active>>

\* The reply is DELIVERED whether or not it waits for an acknowledgement.
EvRepDone ==
  /\ ev.pc = "repDone"
  /\ \/ messages' = MarkDelivered(messages, ev.id) /\ EvGoto("repNext")
     \/ EvThrows
  /\ EvFrame
  /\ UNCHANGED <<correlations, sessVars>>

EvRegister ==
  \/ EvUpsert \/ EvOffLoad \/ EvOffNext \/ EvOffSend \/ EvOffDone
  \/ EvOffFlush \/ EvRepLoad \/ EvRepNext \/ EvRepSend \/ EvRepDone

-----------------------------------------------------------------------------
(* MessageHandler *)

\* A handler that keeps the result of FindSession without looking at it.
EvFind_NoNullCheck ==
  LET s == FindSession(ev.msg.dest)
  IN  /\ ev.pc = "find"
      /\ registry = "free"
      /\ ev' = [ev EXCEPT !.pc = "save", !.refs = @ \cup {s}]
      /\ EvFrame
      /\ UNCHANGED <<storeVars, sessVars>>

\* FindSession and IsOnline.
EvFind ==
  LET s == FindSession(ev.msg.dest)
  IN  /\ ev.pc = "find"
      /\ registry = "free"
      /\ ev' = [ev EXCEPT !.pc = "save",
                          !.refs = (@ \cup {s}) \ {NoSession},
                          !.sess = IF s # NoSession /\ IsOnline(s)
                                   THEN s ELSE NoSession]
      /\ EvFrame
      /\ UNCHANGED <<storeVars, sessVars>>

\* A handler that goes on when the message could not be stored.
EvSave_Unsaved ==
  /\ ev.pc = "save"
  /\ messages' \in {SaveMessage(messages, ev.msg)} \cup
                    (IF DbMayFail THEN {messages} ELSE {})
  /\ IF ev.sess = NoSession
     THEN EvFinish
     ELSE ev' = [ev EXCEPT !.id = Len(messages'), !.pc = "send"]
  /\ EvFrame
  /\ UNCHANGED <<correlations, sessVars>>

\* The message is stored before anything is sent.
EvSave ==
  /\ ev.pc = "save"
  /\ \/ /\ messages' = SaveMessage(messages, ev.msg)
        /\ IF ev.msg.flags = {} /\ ev.sess = NoSession
           THEN EvFinish
           ELSE ev' = [ev EXCEPT !.id = Len(messages) + 1,
                                 !.pc = IF ev.msg.flags = {}
                                        THEN "send" ELSE "corr"]
     \/ EvThrows
  /\ EvFrame
  /\ UNCHANGED <<correlations, sessVars>>

EvCorr ==
  /\ ev.pc = "corr"
  /\ \/ /\ correlations' =
             SaveCorrelation(correlations, ev.id, ev.msg.corr, ev.msg.sender)
        /\ IF ev.sess = NoSession THEN EvFinish ELSE EvGoto("send")
     \/ /\ DbMayFail
        /\ EvFinish
        /\ UNCHANGED correlations
  /\ EvFrame
  /\ UNCHANGED <<messages, sessVars>>

EvSend ==
  /\ ev.pc = "send"
  /\ SendMessage(ev.sess, ev.msg)
  /\ EvGoto("mark")
  /\ EvFrame
  /\ UNCHANGED <<correlations, active>>

\* A handler that marks everything it sent DELIVERED.
EvMark_Delivered ==
  /\ ev.pc = "mark"
  /\ messages' = MarkDelivered(messages, ev.id)
  /\ EvFinish
  /\ EvFrame
  /\ UNCHANGED <<correlations, sessVars>>

\* A failing update is only logged.
EvMark ==
  /\ ev.pc = "mark"
  /\ \/ /\ messages' = IF NeedsAckFlag(ev.msg)
                        THEN MarkSent(messages, ev.id)
                        ELSE MarkDelivered(messages, ev.id)
        /\ EvFinish
     \/ EvThrows
  /\ EvFrame
  /\ UNCHANGED <<correlations, sessVars>>

EvMessage == EvFind \/ EvSave \/ EvCorr \/ EvSend \/ EvMark

-----------------------------------------------------------------------------
(* ReplyHandler *)

\* The reply goes to the owner of its correlation id, if one is found, else to
\* the destination it names.
EvReplySave ==
  LET found == FindByCorrelation(correlations, ev.msg.corr)
      reply(to) == [ev.msg EXCEPT !.dest = IF to = NoName THEN @ ELSE to]
  IN  /\ ev.pc = "rSave"
      /\ \/ \E to \in {r.owner : r \in found} \cup
                    (IF found = {} \/ DbMayFail THEN {NoName} ELSE {}) :
              /\ messages' = SaveMessage(messages, reply(to))
              /\ ev' = [ev EXCEPT !.pc = "rCorr", !.id = Len(messages) + 1,
                                  !.msg = reply(to)]
         \/ EvThrows
      /\ EvFrame
      /\ UNCHANGED <<correlations, sessVars>>

\* correlation_owner is the destination the reply has now.
EvReplyCorr ==
  /\ ev.pc = "rCorr"
  /\ \/ /\ correlations' =
             SaveCorrelation(correlations, ev.id, ev.msg.corr, ev.msg.dest)
        /\ EvGoto("rFind")
     \/ /\ DbMayFail
        /\ EvFinish
        /\ UNCHANGED correlations
  /\ EvFrame
  /\ UNCHANGED <<messages, sessVars>>

EvReplyFind ==
  LET s == FindSession(ev.msg.dest)
  IN  /\ ev.pc = "rFind"
      /\ registry = "free"
      /\ IF s # NoSession /\ IsOnline(s)
         THEN ev' = [ev EXCEPT !.refs = @ \cup {s}, !.sess = s,
                               !.pc = IF NeedsAckFlag(ev.msg)
                                      THEN "rSent" ELSE "rSend"]
         ELSE EvFinish
      /\ EvFrame
      /\ UNCHANGED <<storeVars, sessVars>>

EvReplySent ==
  /\ ev.pc = "rSent"
  /\ \/ messages' = MarkSent(messages, ev.id) /\ EvGoto("rSend")
     \/ DbMayFail /\ EvGoto("rollback") /\ UNCHANGED messages
  /\ EvFrame
  /\ UNCHANGED <<correlations, sessVars>>

EvReplySend ==
  /\ ev.pc = "rSend"
  /\ SendMessage(ev.sess, ev.msg)
  /\ IF NeedsAckFlag(ev.msg) THEN EvFinish ELSE EvGoto("rMark")
  /\ EvFrame
  /\ UNCHANGED <<correlations, active>>

EvReplyMark ==
  /\ ev.pc = "rMark"
  /\ \/ messages' = MarkDelivered(messages, ev.id) /\ EvFinish
     \/ DbMayFail /\ EvGoto("rollback") /\ UNCHANGED messages
  /\ EvFrame
  /\ UNCHANGED <<correlations, sessVars>>

\* The catch block: back to PENDING, if the store lets it, and offline.
EvReplyRollback ==
  /\ ev.pc = "rollback"
  /\ messages' \in {messages, MarkPending(messages, ev.id)}
  /\ sessions' = MarkOffline(sessions, ev.sess)
  /\ EvFinish
  /\ EvFrame
  /\ UNCHANGED <<correlations, active, outbox>>

EvReply ==
  \/ EvReplySave \/ EvReplyCorr \/ EvReplyFind \/ EvReplySent \/ EvReplySend
  \/ EvReplyMark \/ EvReplyRollback

-----------------------------------------------------------------------------
(* AckHandler *)

\* The row the correlation id leads to and its owner.  The second lookup, by
\* correlation id and destination, joins the same table and finds nothing when
\* the first did not.  A row that is not SENT, or wants no acknowledgement,
\* ends the handler; so does a lookup of the row that the store fails.  When it
\* fails the lookup of the owner alone, nobody will be notified.
EvAckLook ==
  /\ ev.pc = "aLook"
  /\ \/ \E r \in FindByCorrelation(correlations, ev.msg.corr) :
        \E owner \in {r.owner} \cup (IF DbMayFail THEN {NoName} ELSE {}) :
          IF NeedsAck(messages, r.mid)
          THEN ev' = [ev EXCEPT !.pc = "aDeliver", !.id = r.mid,
                                !.owner = owner]
          ELSE EvFinish
     \/ /\ FindByCorrelation(correlations, ev.msg.corr) = {} \/ DbMayFail
        /\ EvFinish
  /\ EvFrame
  /\ UNCHANGED <<storeVars, sessVars>>

EvAckDeliver ==
  /\ ev.pc = "aDeliver"
  /\ \/ messages' = MarkDelivered(messages, ev.id) /\ EvGoto("aReceived")
     \/ EvThrows
  /\ EvFrame
  /\ UNCHANGED <<correlations, sessVars>>

\* MarkAckReceived does not look at the result of its DELETE.
EvAckReceived ==
  /\ ev.pc = "aReceived"
  /\ \/ correlations' = MarkAckReceived(correlations, ev.id, ev.msg.sender)
     \/ DbMayFail /\ UNCHANGED correlations
  /\ IF ev.owner = NoName THEN EvFinish ELSE EvGoto("aNotify")
  /\ EvFrame
  /\ UNCHANGED <<messages, sessVars>>

AckNotification == [type |-> "Ack", flags |-> {}, corr |-> ev.msg.corr,
                    sender |-> ev.msg.sender, dest |-> ev.owner]

EvAckNotify ==
  LET s == FindSession(ev.owner)
  IN  /\ ev.pc = "aNotify"
      /\ registry = "free"
      /\ ev' = IF s # NoSession /\ IsOnline(s)
               THEN [ev EXCEPT !.pc = "aSend", !.sess = s,
                               !.refs = @ \cup {s}]
               ELSE [ev EXCEPT !.pc = "aSave"]
      /\ EvFrame
      /\ UNCHANGED <<storeVars, sessVars>>

EvAckSend ==
  /\ ev.pc = "aSend"
  /\ SendMessage(ev.sess, AckNotification)
  /\ EvFinish
  /\ EvFrame
  /\ UNCHANGED <<correlations, active>>

EvAckSave ==
  /\ ev.pc = "aSave"
  /\ \/ messages' = SaveMessage(messages, AckNotification) /\ EvFinish
     \/ EvThrows
  /\ EvFrame
  /\ UNCHANGED <<correlations, sessVars>>

EvAck ==
  \/ EvAckLook \/ EvAckDeliver \/ EvAckReceived \/ EvAckNotify \/ EvAckSend
  \/ EvAckSave

-----------------------------------------------------------------------------
(* UnregisterHandler *)

EvUnregFind ==
  LET s == FindSession(ev.msg.sender)
  IN  /\ ev.pc = "uFind"
      /\ registry = "free"
      /\ IF s = NoSession
         THEN EvFinish
         ELSE ev' = [ev EXCEPT !.pc = "uPersist", !.sess = s,
                               !.refs = @ \cup {s}]
      /\ EvFrame
      /\ UNCHANGED <<storeVars, sessVars>>

\* PersistQueueToDatabase, then MarkOffline; an exception leaves the session
\* registered.
EvUnregPersist ==
  LET q == sessions[ev.sess].queue
  IN  /\ ev.pc = "uPersist"
      /\ \/ /\ PersistQueue(ev.sess)
            /\ sessions' = MarkOffline(Popped(sessions, ev.sess, q, Len(q)),
                                       ev.sess)
            /\ EvGoto("uRemove")
         \/ /\ \E n \in 0..Len(q) : /\ PersistQueueThrows(ev.sess, n)
                                    /\ sessions' = Popped(sessions, ev.sess, q, n)
            /\ EvFinish
      /\ EvFrame
      /\ UNCHANGED <<correlations, active, outbox>>

EvUnregRemove ==
  /\ ev.pc = "uRemove"
  /\ registry = "free"
  /\ active' = IF ev.msg.sender \in Names
               THEN [active EXCEPT ![ev.msg.sender] = NoSession] ELSE active
  /\ EvFinish
  /\ EvFrame
  /\ UNCHANGED <<storeVars, sessions, outbox>>

EvUnregister == EvUnregFind \/ EvUnregPersist \/ EvUnregRemove

EvStep ==
  \/ \E s \in SessionIds : EvRelease(s)
  \/ EvReturn
  \/ EvRegister
  \/ EvMessage
  \/ EvReply
  \/ EvAck
  \/ EvUnregister

-----------------------------------------------------------------------------
(* CheckExpiredAcks.  An exception here ends the process: `AkThrows`. *)

AkFrame == UNCHANGED <<registry, ev, cl, auxVars>>

AkGoto(pc) == ak' = [ak EXCEPT !.pc = pc]

AkThrows == DbMayFail /\ Restart /\ UNCHANGED messages

\* The timer fires.  Rows get older than the timeout in the order of ids.
AkLoad ==
  /\ RetryOn
  /\ ak.pc = "idle"
  /\ \E old \in DOMAIN messages :
       \E ids \in Prefixes(LoadExpiredSent(messages, old)) :
         /\ ids # {}
         /\ ak' = [ak EXCEPT !.pc = "next", !.todo = ids]
  /\ AkFrame
  /\ UNCHANGED <<storeVars, sessVars>>

AkNext ==
  /\ ak.pc = "next"
  /\ \/ /\ ak.todo = {}
        /\ ak' = IdleAk
        /\ AkFrame
        /\ UNCHANGED messages
     \/ \E i \in ak.todo :
          /\ IsFirst(i, ak.todo)
          /\ messages' = MarkPending(messages, i)
          /\ ak' = [ak EXCEPT !.pc = "find", !.id = i, !.todo = @ \ {i}]
          /\ AkFrame
  /\ UNCHANGED <<correlations, sessVars>>

\* A retry that does not look whether the session is online.
AkFind_AnySession ==
  LET s == FindSession(messages[ak.id].msg.dest)
  IN  /\ ak.pc = "find"
      /\ registry = "free"
      /\ ak' = IF s # NoSession
               THEN [ak EXCEPT !.pc = "sent", !.sess = s]
               ELSE [ak EXCEPT !.pc = "next", !.id = 0]
      /\ AkFrame
      /\ UNCHANGED <<storeVars, sessVars>>

AkFind ==
  LET s == FindSession(messages[ak.id].msg.dest)
  IN  /\ ak.pc = "find"
      /\ registry = "free"
      /\ ak' = IF s # NoSession /\ IsOnline(s)
               THEN [ak EXCEPT !.pc = "sent", !.sess = s]
               ELSE [ak EXCEPT !.pc = "next", !.id = 0]
      /\ AkFrame
      /\ UNCHANGED <<storeVars, sessVars>>

AkSent ==
  /\ ak.pc = "sent"
  /\ messages' = MarkSent(messages, ak.id)
  /\ AkGoto("send")
  /\ AkFrame
  /\ UNCHANGED <<correlations, sessVars>>

AkSend ==
  /\ ak.pc = "send"
  /\ SendMessage(ak.sess, messages[ak.id].msg)
  /\ AkGoto("release")
  /\ AkFrame
  /\ UNCHANGED <<correlations, active>>

\* The session goes out of scope at the end of the loop body.
AkRelease ==
  /\ ak.pc = "release"
  /\ \/ /\ Release(ak.sess, Registered \cup ev.refs)
        /\ ak' = [ak EXCEPT !.pc = "next", !.id = 0, !.sess = NoSession]
        /\ AkFrame
        /\ UNCHANGED <<correlations, active, outbox>>
     \/ ReleaseTerminates(ak.sess, Registered \cup ev.refs)

\* MarkPending or MarkSent throws.
AkTerminates ==
  /\ \/ ak.pc = "next" /\ ak.todo # {}
     \/ ak.pc = "sent"
  /\ AkThrows

AkStep == AkNext \/ AkFind \/ AkSent \/ AkSend \/ AkRelease \/ AkTerminates

-----------------------------------------------------------------------------
(* CleanupInactiveSessions, with registry_mutex_ held throughout *)

ClFrame == UNCHANGED <<ev, ak, auxVars>>

ClStart ==
  /\ cl.pc = "idle"
  /\ registry = "free"
  /\ registry' = "cleanup"
  /\ cl' = [cl EXCEPT !.pc = "visit",
                      !.todo = {n \in Names : active[n] # NoSession}]
  /\ ClFrame
  /\ UNCHANGED <<storeVars, sessVars>>

\* A session that is offline goes; one that has expired is marked offline and
\* goes once it is persisted; another one stays.
ClVisit(n) ==
  LET s == active[n]
  IN  /\ cl.pc = "visit"
      /\ n \in cl.todo
      /\ \/ /\ ~IsOnline(s)
            /\ cl' = [cl EXCEPT !.todo = @ \ {n}, !.gone = @ \cup {n}]
            /\ UNCHANGED sessions
         \/ /\ IsOnline(s)
            /\ cl' = [cl EXCEPT !.todo = @ \ {n}]
            /\ UNCHANGED sessions
         \/ /\ IsOnline(s)
            /\ SessionsExpire
            /\ sessions' = MarkOffline(sessions, s)
            /\ cl' = [cl EXCEPT !.pc = "persist", !.cur = n,
                                !.todo = @ \ {n}, !.gone = @ \cup {n}]
      /\ ClFrame
      /\ UNCHANGED <<storeVars, active, outbox, registry>>

\* PersistQueueToDatabase of the expired session.
ClPersist ==
  LET s == active[cl.cur]
      q == sessions[s].queue
  IN  /\ cl.pc = "persist"
      /\ \/ /\ PersistQueue(s)
            /\ sessions' = Popped(sessions, s, q, Len(q))
            /\ cl' = [cl EXCEPT !.pc = "visit", !.cur = NoName]
            /\ ClFrame
            /\ UNCHANGED <<correlations, active, outbox, registry>>
         \/ /\ \E n \in 0..Len(q) : PersistQueueThrows(s, n)
            /\ Restart

ClSwept ==
  /\ cl.pc = "visit"
  /\ cl.todo = {}
  /\ IF cl.gone = {}
     THEN cl' = IdleCl /\ registry' = "free"
     ELSE cl' = [cl EXCEPT !.pc = "erase"] /\ UNCHANGED registry
  /\ ClFrame
  /\ UNCHANGED <<storeVars, sessVars>>

\* The registry drops its reference.
ClErase(n) ==
  LET s == active[n]
      others == (Registered \ {s}) \cup ev.refs \cup {ak.sess}
  IN  /\ cl.pc = "erase"
      /\ n \in cl.gone
      /\ \/ /\ active' = [active EXCEPT ![n] = NoSession]
            /\ Release(s, others)
            /\ cl' = [cl EXCEPT !.gone = @ \ {n}]
            /\ ClFrame
            /\ UNCHANGED <<correlations, outbox, registry>>
         \/ ReleaseTerminates(s, others)

\* An end of cleanup that asks for the registry again although no metrics are
\* kept.
ClEnd_Relock ==
  /\ cl.pc = "erase"
  /\ cl.gone = {}
  /\ cl' = [cl EXCEPT !.pc = "relock"]
  /\ ClFrame
  /\ UNCHANGED <<storeVars, sessVars, registry>>

\* UpdateSessionMetrics locks registry_mutex_, a std::mutex this thread holds:
\* with metrics the thread stays at "relock", and the mutex stays locked.
ClEnd ==
  /\ cl.pc = "erase"
  /\ cl.gone = {}
  /\ IF HasMetrics
     THEN cl' = [cl EXCEPT !.pc = "relock"] /\ UNCHANGED registry
     ELSE cl' = IdleCl /\ registry' = "free"
  /\ ClFrame
  /\ UNCHANGED <<storeVars, sessVars>>

ClStep ==
  \/ \E n \in Names : ClVisit(n) \/ ClErase(n)
  \/ ClPersist
  \/ ClSwept
  \/ ClEnd

-----------------------------------------------------------------------------
(* ProcessPendingSends *)

\* Two batches may be in the hands of two threads (module SendQueue), so any
\* pending send may be the next to reach the socket.
Transmitted(i) ==
  /\ outbox' = SubSeq(outbox, 1, i - 1) \o SubSeq(outbox, i + 1, Len(outbox))
  /\ offered' = offered \cup {outbox[i].msg}
  /\ UNCHANGED <<storeVars, active, registry, ev, ak, cl, submitted, acks>>

\* The socket takes it and the client gets it.
TransmitDelivered(i) ==
  /\ Transmitted(i)
  /\ received' = received \cup
       {[name |-> sessions[outbox[i].sess].name, msg |-> outbox[i].msg]}
  /\ UNCHANGED sessions

\* The socket takes it and drops it: a ROUTER socket without
\* ZMQ_ROUTER_MANDATORY says nothing when the peer is gone.
TransmitDropped(i) ==
  /\ Transmitted(i)
  /\ UNCHANGED <<sessions, received>>

\* The socket refuses it and the callback of the session runs.
TransmitFailed(i) ==
  /\ Transmitted(i)
  /\ sessions' = MarkOffline(sessions, outbox[i].sess)
  /\ UNCHANGED received

Transmit ==
  \E i \in DOMAIN outbox :
    TransmitDelivered(i) \/ TransmitDropped(i) \/ TransmitFailed(i)

Crash ==
  /\ MayCrash
  /\ Restart
  /\ UNCHANGED messages

-----------------------------------------------------------------------------

Next ==
  \/ \E m \in Requests : Receive(m)
  \/ EvStep
  \/ AkLoad
  \/ AkStep
  \/ ClStart
  \/ ClStep
  \/ Transmit
  \/ Crash

Spec == Init /\ [][Next]_vars

\* Every callback that has started goes on, and pending sends are processed.
\* The registry mutex is free for all but a moment of every ten seconds, so who
\* waits for it gets it: strong fairness for the steps that lock it.
FairSpec ==
  /\ Spec
  /\ SF_vars(EvStep)
  /\ SF_vars(AkStep)
  /\ WF_vars(ClStep)
  /\ WF_vars(Transmit)

-----------------------------------------------------------------------------
(* Properties *)

AuxTypeOK ==
  /\ submitted \subseteq Message
  /\ received \subseteq Reception
  /\ offered \subseteq Message
  /\ acks \subseteq Acknowledgement

\* Every variable keeps the type its declaration in the code gives it.
TypeOK ==
  /\ StorageTypeOK
  /\ SessionsTypeOK
  /\ registry \in {"free", "cleanup"}
  /\ ev \in EvState
  /\ ak \in AkState
  /\ cl \in ClState
  /\ AuxTypeOK

\* An online session has nothing queued: what is queued came after the session
\* went offline, and no message overtakes another by being sent directly.
\* (SendMessage queues only when offline, and nothing in src/ calls MarkOnline,
\* so FlushQueue never finds anything to send.)
OnlineQueueEmpty ==
  \A s \in SessionIds : IsOnline(s) => sessions[s].queue = <<>>

\* The queue of a session never holds more than two messages: one that the
\* event callback and one that the ACK timer had decided to send when the
\* session went offline under them.  So the branch of EnqueueMessage over
\* QUEUE_PERSIST_THRESHOLD is never taken.
QueueBounded ==
  \A s \in SessionIds : Len(sessions[s].queue) <= 2

\* A row is never deleted, its message never changes and DELIVERED is final,
\* whichever of a late ACK, a retry (MarkPending, MarkSent) and a rollback
\* comes last.
DeliveredIsFinal ==
  [][\A i \in DOMAIN messages :
       /\ i \in DOMAIN messages'
       /\ messages'[i].msg = messages[i].msg
       /\ messages[i].status = "DELIVERED" =>
            messages'[i].status = "DELIVERED"]_vars

\* x is message m, but for the destination of a reply: PersistMessageForClient
\* writes the name of the session there.
SameMessage(x, m) ==
  /\ x.type = m.type /\ x.flags = m.flags /\ x.corr = m.corr
  /\ x.sender = m.sender
  /\ m.type # "Reply" => x.dest = m.dest

\* Message m has reached a client, is on its way there in memory, or is in the
\* store to be delivered later.
Accounted(m) ==
  \/ \E r \in received : SameMessage(r.msg, m)
  \/ \E i \in DOMAIN outbox : SameMessage(outbox[i].msg, m)
  \/ \E s \in SessionIds : \E i \in DOMAIN sessions[s].queue :
       SameMessage(sessions[s].queue[i], m)
  \/ \E i \in DOMAIN messages : /\ SameMessage(messages[i].msg, m)
                                /\ messages[i].status # "DELIVERED"

\* No message is lost: what the store calls DELIVERED is accounted for.  (It is
\* not so: the row is marked when the message is queued, and the callback of a
\* send that fails only marks the session offline, session.cpp:74-78; a send to
\* a client that is gone does not even fail.)
NoSilentLoss ==
  \A i \in DOMAIN messages :
    messages[i].status = "DELIVERED" => Accounted(messages[i].msg)

\* The socket was given message m.  If m is not accounted for, the socket
\* refused or dropped it each time.
GivenToSocket(m) == \E x \in offered : SameMessage(x, m)

\* Nothing but the socket loses a message: what is DELIVERED and not accounted
\* for was refused by the socket, or dropped because its client was gone.
\* Sessions are replaced, expire and are destroyed while a handler that found
\* them online is about to send, and what such a handler queues is saved all the
\* same (~Session, PersistQueueToDatabase).
SocketAloneLoses ==
  \A i \in DOMAIN messages :
    messages[i].status = "DELIVERED" =>
      Accounted(messages[i].msg) \/ GivenToSocket(messages[i].msg)

Awaiting(type) ==
  {i \in DOMAIN messages : /\ messages[i].msg.type = type
                           /\ NeedsAckFlag(messages[i].msg)}

AckedByDestination(m) == [by |-> m.dest, corr |-> m.corr] \in acks

\* A message that asked for an acknowledgement is DELIVERED only after its
\* destination acknowledged it.
AckedBeforeDelivered ==
  \A i \in Awaiting("Message") :
    messages[i].status = "DELIVERED" => AckedByDestination(messages[i].msg)

\* A reply reaches only the client that sent the request with its correlation
\* id, even when that client was offline and others came and went meanwhile.
RepliesToRequester ==
  \A r \in received : r.msg.type = "Reply" =>
    \E m \in submitted : /\ m.type = "Message"
                          /\ m.corr = r.msg.corr
                          /\ m.sender = r.name

\* A row for a message another row holds too: PersistMessageForClient saved a
\* queued message a second time.
IsCopy(i) == \E j \in 1..(i - 1) : messages[j].msg = messages[i].msg

\* When no callback is running, no message but copies is left PENDING for a
\* client that is online: it is either sent to a session that was found online
\* or is there when the client's next registration loads the backlog.  (A copy,
\* or a notice of an acknowledgement, is saved by the end of an old session when
\* cleanup took it out of the registry before its client registered again.)
NoBacklogWhileOnline ==
  (ev.pc = "idle" /\ ak.pc = "idle") =>
    \A n \in Names : (active[n] # NoSession /\ IsOnline(active[n])) =>
      \A i \in LoadPendingMessagesOnly(messages, n) :
        messages[i].msg.type = "Message" => IsCopy(i)

\* An acknowledgement of a message that waits for one can find it: its row is
\* the one its correlation id leads to.
AwaitedAckCanArrive ==
  ev.pc = "idle" =>
    \A i \in Awaiting("Message") : messages[i].status = "SENT" =>
      \E r \in correlations : r.mid = i /\ r.corr = messages[i].msg.corr

\* Every message the event callback takes in is dealt with, so that it can take
\* the next: no handler waits forever for the registry or a full queue.
EventLoopResponsive == (ev.pc # "idle") ~> (ev.pc = "idle")
=============================================================================
