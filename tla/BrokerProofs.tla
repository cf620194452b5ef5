---------------------------- MODULE BrokerProofs ----------------------------
(***************************************************************************)
(* Theorems about Broker for every set of clients, messages and sessions,  *)
(* with or without store failures, crashes, retries and expiry.            *)
(***************************************************************************)
EXTENDS Broker, SequenceTheorems, TLAPS

\* The places where the event callback has decided to send to ev.sess, and
\* where the ACK timer has decided to send to ak.sess.
EvSending == {"offSend", "repSend", "send", "rSent", "rSend", "aSend"}
AkSending == {"sent", "send"}

\* What the event callback holds is there when it is used: the rows it has
\* left to deliver, the row and the session it is busy with.
EvRefsOK ==
  /\ ev.todo \subseteq DOMAIN messages
  /\ ev.pc \in {"offSend", "offDone", "repSend", "repDone"} =>
       ev.id \in DOMAIN messages
  /\ ev.pc \in EvSending \cup {"offNext", "offFlush", "repNext", "rMark",
                               "offDone", "repDone", "rollback", "uPersist"} =>
       ev.sess \in SessionIds

\* The same of the ACK timer.
AkRefsOK ==
  /\ ak.todo \subseteq DOMAIN messages
  /\ ak.pc \in {"find", "sent", "send"} => ak.id \in DOMAIN messages
  /\ ak.pc \in AkSending \cup {"release"} => ak.sess \in SessionIds

\* The cleanup has the registry while it walks through it, and the names it
\* has in hand are registered.
ClRefsOK ==
  /\ cl.pc \notin {"visit", "persist"} => cl.todo = {}
  /\ cl.pc = "idle" => cl.gone = {}
  /\ cl.pc # "idle" => registry = "cleanup"
  /\ \A n \in cl.todo \cup cl.gone : active[n] \in SessionIds
  /\ cl.pc = "persist" => cl.cur \in Names /\ active[cl.cur] \in SessionIds

WellFormed == TypeOK /\ EvRefsOK /\ AkRefsOK /\ ClRefsOK

-----------------------------------------------------------------------------
(* The operators of Storage and Sessions *)

\* t2 has the type of the table messages and every row id of t1.
Grown(t1, t2) == t2 \in Seq(Row) /\ DOMAIN t1 \subseteq DOMAIN t2

LEMMA UpdateGrown ==
  ASSUME NEW t \in Seq(Row), NEW id, NEW from, NEW to \in Status
  PROVE  Grown(t, Update(t, id, from, to))
<1> DEFINE u == Update(t, id, from, to)
<1>1. DOMAIN u = 1..Len(t)
  BY DEF Update
<1>2. \A i \in 1..Len(t) : u[i] \in Row
  <2> SUFFICES ASSUME NEW i \in 1..Len(t) PROVE u[i] \in Row
    OBVIOUS
  <2>1. t[i] \in Row
    BY ElementOfSeq
  <2>2. [msg |-> t[i].msg, status |-> to] \in Row
    BY <2>1 DEF Row
  <2> QED
    BY <1>1, <2>1, <2>2 DEF Update
<1>3. u \in Seq(Row)
  <2>1. u \in [1..Len(t) -> Row] /\ Len(t) \in Nat
    BY <1>1, <1>2, LenProperties DEF Update
  <2> QED
    BY <2>1, SeqDef
<1> QED
  BY <1>1, <1>3 DEF Grown

\* MarkDelivered, MarkSent and MarkPending keep the type and the rows.
LEMMA MarkGrown ==
  ASSUME NEW t \in Seq(Row), NEW id
  PROVE  /\ Grown(t, MarkDelivered(t, id))
         /\ Grown(t, MarkSent(t, id))
         /\ Grown(t, MarkPending(t, id))
BY UpdateGrown DEF MarkDelivered, MarkSent, MarkPending, Status

LEMMA SaveGrown ==
  ASSUME NEW t \in Seq(Row), NEW m \in Message
  PROVE  /\ Grown(t, SaveMessage(t, m))
         /\ Len(t) + 1 \in DOMAIN SaveMessage(t, m)
<1>1. [msg |-> m, status |-> "PENDING"] \in Row
  BY DEF Row, Status
<1>2. SaveMessage(t, m) \in Seq(Row) /\ Len(SaveMessage(t, m)) = Len(t) + 1
  BY <1>1, AppendProperties DEF SaveMessage
<1> QED
  BY <1>2 DEF Grown

LEMMA PersistedGrown ==
  ASSUME NEW t \in Seq(Row), NEW name \in Names \cup {NoName},
         NEW q \in Seq(Message), NEW n \in 0..Len(q)
  PROVE  Grown(t, Persisted(t, name, q, n))
<1> DEFINE p == [i \in 1..n |-> [msg |-> [q[i] EXCEPT !.dest = name],
                                 status |-> "PENDING"]]
<1>1. \A i \in 1..n : p[i] \in Row
  <2> SUFFICES ASSUME NEW i \in 1..n PROVE p[i] \in Row
    OBVIOUS
  <2>1. q[i] \in Message
    BY ElementOfSeq
  <2>2. [q[i] EXCEPT !.dest = name] \in Message
    BY <2>1 DEF Message
  <2> QED
    BY <2>2 DEF Row, Status
<1>2. p \in Seq(Row)
  BY <1>1, IsASeq
<1>3. t \o p \in Seq(Row) /\ Len(t \o p) = Len(t) + Len(p) /\ Len(p) \in Nat
  BY <1>2, ConcatProperties, LenProperties
<1>4. DOMAIN t = 1..Len(t) /\ DOMAIN (t \o p) = 1..Len(t \o p) /\ Len(t) \in Nat
  BY <1>3, LenProperties
<1>5. DOMAIN t \subseteq DOMAIN (t \o p)
  BY <1>3, <1>4
<1> QED
  BY <1>3, <1>5 DEF Grown, Persisted

\* The session table after a pop, and after MarkOffline.
LEMMA SessionUpdates ==
  ASSUME NEW ss \in [SessionIds -> Session], NEW s \in SessionIds
  PROVE  /\ MarkOffline(ss, s) \in [SessionIds -> Session]
         /\ \A q \in Seq(Message) : \A n \in 0..Len(q) :
              Popped(ss, s, q, n) \in [SessionIds -> Session]
<1>1. MarkOffline(ss, s) \in [SessionIds -> Session]
  BY DEF MarkOffline, Session
<1>2. ASSUME NEW q \in Seq(Message), NEW n \in 0..Len(q)
      PROVE  Popped(ss, s, q, n) \in [SessionIds -> Session]
  <2>1. Len(q) \in Nat
    BY LenProperties
  <2>2. SubSeq(q, n + 1, Len(q)) \in Seq(Message)
    BY <2>1, SubSeqProperties
  <2> QED
    BY <2>2 DEF Popped, Session
<1> QED
  BY <1>1, <1>2

\* A send keeps the types of the store, the sessions and the send queue.
LEMMA SendTypes ==
  ASSUME TypeOK, NEW s \in SessionIds, NEW m \in Message, SendMessage(s, m)
  PROVE  /\ Grown(messages, messages')
         /\ sessions' \in [SessionIds -> Session]
         /\ outbox' \in Seq(PendingSend)
<1> USE DEF TypeOK, StorageTypeOK, SessionsTypeOK
<1>1. CASE IsOnline(s)
  <2>1. [sess |-> s, msg |-> m] \in PendingSend
    BY DEF PendingSend
  <2>2. Append(outbox, [sess |-> s, msg |-> m]) \in Seq(PendingSend)
    BY <2>1, AppendProperties
  <2> QED
    BY <1>1, <2>2 DEF SendMessage, Grown
<1>2. CASE ~IsOnline(s)
  <2> DEFINE q == Append(sessions[s].queue, m)
             n == IF Len(q) > Threshold THEN Len(q) \div 2 ELSE 0
  <2>1. /\ sessions' = Popped(sessions, s, q, n)
        /\ messages' = Persisted(messages, sessions[s].name, q, n)
        /\ outbox' = outbox
    BY <1>2 DEF SendMessage, EnqueueMessage
  <2>2. /\ sessions[s].queue \in Seq(Message)
        /\ sessions[s].name \in Names \cup {NoName}
    BY DEF Session
  <2>3. q \in Seq(Message) /\ Len(q) \in Nat
    BY <2>2, AppendProperties, LenProperties
  <2>4. n \in 0..Len(q)
    <3> HIDE DEF q
    <3> QED
      BY <2>3
  <2> HIDE DEF q, n
  <2>5. Grown(messages, Persisted(messages, sessions[s].name, q, n))
    BY <2>2, <2>3, <2>4, PersistedGrown
  <2> QED
    BY <2>1, <2>3, <2>4, <2>5, SessionUpdates
<1> QED
  BY <1>1, <1>2

\* So does persisting a queue, to the end or until it throws.
LEMMA PersistTypes ==
  ASSUME TypeOK, NEW s \in SessionIds
  PROVE  /\ PersistQueue(s) => Grown(messages, messages')
         /\ \A n \in 0..Len(sessions[s].queue) :
              PersistQueueThrows(s, n) => Grown(messages, messages')
<1> USE DEF TypeOK, StorageTypeOK, SessionsTypeOK
<1>1. /\ sessions[s].queue \in Seq(Message)
      /\ sessions[s].name \in Names \cup {NoName}
      /\ Len(sessions[s].queue) \in 0..Len(sessions[s].queue)
  BY LenProperties DEF Session
<1>2. \A n \in 0..Len(sessions[s].queue) :
        Grown(messages, Persisted(messages, sessions[s].name,
                                  sessions[s].queue, n))
  BY <1>1, PersistedGrown
<1> QED
  BY <1>1, <1>2 DEF PersistQueue, PersistQueueThrows

\* And dropping a reference, which may run ~Session.
LEMMA ReleaseTypes ==
  ASSUME TypeOK, NEW s \in SessionIds, NEW refs, Release(s, refs)
  PROVE  /\ Grown(messages, messages')
         /\ sessions' \in [SessionIds -> Session]
<1> USE DEF TypeOK, StorageTypeOK, SessionsTypeOK
<1>1. CASE s \in refs
  BY <1>1 DEF Release, Grown
<1>2. CASE s \notin refs
  <2>1. Destroy(s)
    BY <1>2 DEF Release
  <2>2. Grown(messages, messages')
    BY <2>1, PersistTypes DEF Destroy
  <2>3. sessions' \in [SessionIds -> Session]
    BY <2>1 DEF Destroy, Session
  <2> QED
    BY <2>2, <2>3
<1> QED
  BY <1>1, <1>2

-----------------------------------------------------------------------------
(* What an activity leaves alone stays well formed *)

\* A restart is well formed whatever rows were added before it.
LEMMA RestartOK ==
  ASSUME WellFormed, Restart, Grown(messages, messages')
  PROVE  WellFormed'
<1> USE DEF WellFormed, TypeOK, Restart, Grown
<1>1. StorageTypeOK'
  BY DEF StorageTypeOK
<1>2. SessionsTypeOK'
  BY DEF SessionsTypeOK, Session, Unborn
<1>3. ev' \in EvState /\ EvRefsOK'
  BY DEF IdleEv, EvState, EvPCs, DefaultMessage, Message, Types, Flags,
         EvRefsOK, EvSending
<1>4. ak' \in AkState /\ AkRefsOK'
  BY DEF IdleAk, AkState, AkPCs, AkRefsOK, AkSending
<1>5. cl' \in ClState /\ ClRefsOK'
  BY DEF IdleCl, ClState, ClPCs, ClRefsOK
<1>6. AuxTypeOK'
  BY DEF auxVars, AuxTypeOK
<1> QED
  BY <1>1, <1>2, <1>3, <1>4, <1>5, <1>6

\* A step of the event callback is well formed if it is so in what it changes.
LEMMA EvChanges ==
  ASSUME WellFormed,
         Grown(messages, messages'), correlations' \subseteq Correlation,
         SessionsTypeOK', ev' \in EvState, EvRefsOK', EvFrame,
         active' = active \/ registry = "free"
  PROVE  WellFormed'
<1> USE DEF WellFormed, TypeOK, EvFrame
<1>1. StorageTypeOK'
  BY DEF StorageTypeOK, Grown
<1>2. AkRefsOK' /\ ak' \in AkState
  BY DEF AkRefsOK, Grown
<1>3. ClRefsOK' /\ cl' \in ClState
  BY DEF ClRefsOK
<1>4. AuxTypeOK'
  BY DEF AuxTypeOK, auxVars
<1> QED
  BY <1>1, <1>2, <1>3, <1>4

\* The same of the ACK timer.
LEMMA AkChanges ==
  ASSUME WellFormed,
         Grown(messages, messages'), correlations' = correlations,
         SessionsTypeOK', ak' \in AkState, AkRefsOK', AkFrame,
         active' = active
  PROVE  WellFormed'
<1> USE DEF WellFormed, TypeOK, AkFrame
<1>1. StorageTypeOK'
  BY DEF StorageTypeOK, Grown
<1>2. EvRefsOK' /\ ev' \in EvState
  BY DEF EvRefsOK, Grown
<1>3. ClRefsOK' /\ cl' \in ClState
  BY DEF ClRefsOK
<1>4. AuxTypeOK'
  BY DEF AuxTypeOK, auxVars
<1> QED
  BY <1>1, <1>2, <1>3, <1>4

\* The same of the cleanup.
LEMMA ClChanges ==
  ASSUME WellFormed,
         Grown(messages, messages'), correlations' = correlations,
         SessionsTypeOK', cl' \in ClState, ClRefsOK', ClFrame,
         registry' \in {"free", "cleanup"}
  PROVE  WellFormed'
<1> USE DEF WellFormed, TypeOK, ClFrame
<1>1. StorageTypeOK'
  BY DEF StorageTypeOK, Grown
<1>2. EvRefsOK' /\ ev' \in EvState /\ AkRefsOK' /\ ak' \in AkState
  BY DEF EvRefsOK, AkRefsOK, Grown
<1>3. AuxTypeOK'
  BY DEF AuxTypeOK, auxVars
<1> QED
  BY <1>1, <1>2, <1>3

-----------------------------------------------------------------------------
(* The event callback *)

\* Arriving messages and the end of a callback.
LEMMA EvOuterOK ==
  ASSUME WellFormed
  PROVE  /\ \A m \in Requests : Receive(m) => WellFormed'
         /\ \A s \in SessionIds : EvRelease(s) => WellFormed'
         /\ EvReturn => WellFormed'
<1> USE DEF WellFormed, TypeOK
<1>1. ASSUME NEW m \in Requests, Receive(m) PROVE WellFormed'
  <2>1. m \in Message
    BY BrokerAssumption
  <2>2. FindSession(m.sender) \in SessionIds \cup {NoSession}
    BY DEF FindSession, SessionsTypeOK
  <2>3. Handler(m) \in {"done", "upsert", "find", "rSave", "aLook", "uFind"}
    BY <2>1 DEF Handler, Message, Types
  <2>4. ev' \in EvState /\ EvRefsOK'
    BY <1>1, <2>1, <2>2, <2>3
       DEF Receive, IdleEv, EvState, EvPCs, EvRefsOK, EvSending
  <2>5. AuxTypeOK'
    BY <1>1, <2>1 DEF Receive, AuxTypeOK, Acknowledgement, Message
  <2>6. AkRefsOK' /\ ClRefsOK' /\ StorageTypeOK' /\ SessionsTypeOK'
    BY <1>1 DEF Receive, AkRefsOK, ClRefsOK, StorageTypeOK, SessionsTypeOK,
                storeVars, sessVars
  <2> QED
    BY <1>1, <2>4, <2>5, <2>6 DEF Receive
<1>2. ASSUME NEW s \in SessionIds, EvRelease(s) PROVE WellFormed'
  <2> DEFINE others == Registered \cup {ak.sess}
  <2>1. CASE ReleaseTerminates(s, others)
    BY <2>1, RestartOK, PersistTypes DEF ReleaseTerminates
  <2>2. CASE /\ Release(s, others)
             /\ ev' = [ev EXCEPT !.refs = @ \ {s}]
             /\ EvFrame
             /\ UNCHANGED <<active, outbox, correlations>>
    <3>1. Grown(messages, messages') /\ SessionsTypeOK'
      BY <2>2, ReleaseTypes DEF SessionsTypeOK
    <3>2. ev' \in EvState
      BY <2>2 DEF EvState
    <3>3. EvRefsOK'
      BY <2>2, <3>1 DEF EvRefsOK, EvState, Grown
    <3> QED
      BY <2>2, <3>1, <3>2, <3>3, EvChanges DEF StorageTypeOK
  <2> QED
    BY <1>2, <2>1, <2>2 DEF EvRelease
<1>3. ASSUME EvReturn PROVE WellFormed'
  <2>1. ev' \in EvState /\ EvRefsOK'
    BY <1>3 DEF EvReturn, IdleEv, EvState, EvPCs, DefaultMessage, Message,
                Types, Flags, EvRefsOK, EvSending
  <2> QED
    BY <1>3, <2>1, EvChanges
       DEF EvReturn, StorageTypeOK, SessionsTypeOK, storeVars, sessVars, Grown
<1> QED
  BY <1>1, <1>2, <1>3

\* The end of a handler is well formed, whatever the step did before it.
LEMMA FinishOK ==
  ASSUME WellFormed, EvFinish
  PROVE  ev' \in EvState /\ EvRefsOK'
BY DEF WellFormed, TypeOK, EvFinish, IdleEv, EvState, EvPCs, DefaultMessage,
       Message, Types, Flags, EvRefsOK, EvSending

\* A step that changes the table messages alone.
LEMMA EvStoreStep ==
  ASSUME WellFormed, Grown(messages, messages'), EvFrame,
         UNCHANGED <<correlations, sessVars>>, ev' \in EvState, EvRefsOK'
  PROVE  WellFormed'
BY EvChanges
   DEF WellFormed, TypeOK, StorageTypeOK, SessionsTypeOK, sessVars

\* A step that changes neither table nor sessions.
LEMMA EvLocalStep ==
  ASSUME WellFormed, EvFrame, UNCHANGED <<storeVars, sessVars>>,
         ev' \in EvState, EvRefsOK'
  PROVE  WellFormed'
<1>1. Grown(messages, messages')
  BY DEF WellFormed, TypeOK, StorageTypeOK, storeVars, Grown
<1> QED
  BY <1>1, EvStoreStep DEF storeVars

\* A step that sends.
LEMMA EvSendStep ==
  ASSUME WellFormed, NEW s \in SessionIds, NEW m \in Message,
         SendMessage(s, m), EvFrame, UNCHANGED <<correlations, active>>,
         ev' \in EvState, Grown(messages, messages') => EvRefsOK'
  PROVE  WellFormed'
<1>1. TypeOK
  BY DEF WellFormed
<1>2. /\ Grown(messages, messages')
      /\ sessions' \in [SessionIds -> Session]
      /\ outbox' \in Seq(PendingSend)
  BY <1>1, SendTypes
<1>3. SessionsTypeOK'
  BY <1>1, <1>2 DEF TypeOK, SessionsTypeOK
<1> QED
  BY <1>1, <1>2, <1>3, EvChanges DEF TypeOK, StorageTypeOK

\* A write of a handler that throws.
LEMMA ThrowOK ==
  ASSUME WellFormed, EvThrows, EvFrame, UNCHANGED <<correlations, sessVars>>
  PROVE  WellFormed'
BY FinishOK, EvLocalStep DEF EvThrows, storeVars

\* The sessions FindSession finds.
LEMMA FoundSession ==
  ASSUME TypeOK, NEW name
  PROVE  FindSession(name) \in SessionIds \cup {NoSession}
BY DEF TypeOK, SessionsTypeOK, FindSession

\* The message of a row.
LEMMA RowMessage ==
  ASSUME TypeOK, NEW i \in DOMAIN messages
  PROVE  messages[i].msg \in Message
<1>1. messages \in Seq(Row)
  BY DEF TypeOK, StorageTypeOK
<1>2. i \in 1..Len(messages)
  BY <1>1, LenProperties
<1>3. messages[i] \in Row
  BY <1>1, <1>2, ElementOfSeq
<1> QED
  BY <1>3 DEF Row

\* RegisterHandler.
LEMMA EvRegisterOK == WellFormed /\ EvRegister => WellFormed'
<1> SUFFICES ASSUME WellFormed, EvRegister PROVE WellFormed'
  OBVIOUS
<1> USE DEF WellFormed
<1>0. ev \in EvState /\ EvRefsOK /\ messages \in Seq(Row)
  BY DEF TypeOK, StorageTypeOK
<1>1. CASE EvUpsert
  <2> DEFINE old == FindSession(ev.msg.sender)
             q == IF old = NoSession THEN <<>> ELSE sessions[old].queue
  <2>1. /\ old \in SessionIds \cup {NoSession}
        /\ ev.msg.sender \in Names \cup {NoName}
    BY FoundSession, <1>0 DEF EvState, Message
  <2>2. /\ q \in Seq(Message)
        /\ Len(q) \in 0..Len(q)
    <3>1. q \in Seq(Message)
      BY <2>1 DEF TypeOK, SessionsTypeOK, Session
    <3> HIDE DEF q
    <3> QED
      BY <3>1, LenProperties
  <2> HIDE DEF q
  <2>3. ASSUME NEW new \in SessionIds,
               sessions' = [s \in SessionIds |->
                   IF s = new
                   THEN [status |-> "online", name |-> ev.msg.sender,
                         queue |-> <<>>]
                   ELSE IF s = old
                   THEN [status |-> "offline", name |-> sessions[s].name,
                         queue |-> <<>>]
                   ELSE sessions[s]],
               messages' = Persisted(messages, ev.msg.sender, q, Len(q)),
               active' = [active EXCEPT ![ev.msg.sender] = new],
               ev' = [ev EXCEPT !.pc = "offLoad",
                                !.refs = (@ \cup {new, old}) \ {NoSession}],
               EvFrame, UNCHANGED <<outbox, correlations>>, registry = "free"
        PROVE  WellFormed'
    <3>1. Grown(messages, messages')
      BY <1>0, <2>1, <2>2, <2>3, PersistedGrown
    <3>2. SessionsTypeOK'
      <4>1. <<>> \in Seq(Message)
        BY EmptySeq
      <4>2. sessions' \in [SessionIds -> Session]
        BY <2>1, <2>3, <4>1 DEF TypeOK, SessionsTypeOK, Session
      <4>3. active' \in [Names -> SessionIds \cup {NoSession}]
        BY <2>3 DEF TypeOK, SessionsTypeOK
      <4> QED
        BY <2>3, <4>2, <4>3 DEF TypeOK, SessionsTypeOK
    <3>3. ev' \in EvState
      BY <1>0, <2>1, <2>3 DEF EvState, EvPCs
    <3>4. EvRefsOK'
      BY <1>0, <2>3, <3>1 DEF EvState, EvRefsOK, EvSending, Grown
    <3> QED
      BY <2>3, <3>1, <3>2, <3>3, <3>4, EvChanges DEF TypeOK, StorageTypeOK
  <2>4. ASSUME old # NoSession, EvFinish, EvFrame,
               UNCHANGED <<active, outbox, correlations>>,
               NEW n \in 0..Len(q),
               PersistQueueThrows(old, n), sessions' = Popped(sessions, old, q, n)
        PROVE  WellFormed'
    <3>1. old \in SessionIds /\ q = sessions[old].queue
      BY <2>1, <2>4 DEF q
    <3>2. Grown(messages, messages')
      BY <2>4, <3>1, PersistTypes
    <3>3. SessionsTypeOK'
      BY <2>2, <2>4, <3>1, SessionUpdates DEF TypeOK, SessionsTypeOK
    <3>4. ev' \in EvState /\ EvRefsOK'
      BY <2>4, FinishOK
    <3> QED
      BY <2>4, <3>2, <3>3, <3>4, EvChanges DEF TypeOK, StorageTypeOK
  <2> QED
    BY <1>1, <2>3, <2>4 DEF EvUpsert, q
<1>2. CASE EvOffLoad
  <2>1. FindSession(ev.msg.sender) \in SessionIds \cup {NoSession}
    BY FoundSession
  <2>2. PICK ids \in Prefixes(LoadPendingMessagesOnly(messages, ev.msg.sender)) :
          IF FindSession(ev.msg.sender) = NoSession \/ ids = {}
          THEN EvGoto("repLoad")
          ELSE ev' = [ev EXCEPT !.pc = "offNext",
                                !.sess = FindSession(ev.msg.sender),
                                !.todo = ids]
    BY <1>2 DEF EvOffLoad
  <2>3. ids \subseteq DOMAIN messages
    BY DEF Prefixes, LoadPendingMessagesOnly
  <2>4. DOMAIN messages \subseteq Nat
    BY <1>0, LenProperties
  <2>5. ev' \in EvState
    <3>1. CASE EvGoto("repLoad")
      BY <1>0, <3>1 DEF EvState, EvPCs, EvGoto
    <3>2. CASE ~EvGoto("repLoad")
      <4>1. ids \in SUBSET Nat
        BY <2>3, <2>4
      <4>2. ev' = [ev EXCEPT !.pc = "offNext",
                             !.sess = FindSession(ev.msg.sender),
                             !.todo = ids]
        BY <2>2, <3>2
      <4> QED
        BY <1>0, <2>1, <4>1, <4>2 DEF EvState, EvPCs
    <3> QED
      BY <3>1, <3>2
  <2>6. EvRefsOK'
    BY <1>0, <1>2, <2>1, <2>2, <2>3
       DEF EvState, EvRefsOK, EvSending, EvGoto, EvOffLoad, storeVars
  <2> QED
    BY <1>2, <2>5, <2>6, EvLocalStep DEF EvOffLoad
<1>3. CASE EvOffNext
  <2>1. CASE EvGoto("offFlush") /\ UNCHANGED messages
    <3>1. ev' \in EvState /\ EvRefsOK'
      BY <1>0, <1>3, <2>1
         DEF EvState, EvPCs, EvRefsOK, EvSending, EvGoto, EvOffNext
    <3> QED
      BY <1>3, <2>1, <3>1, EvLocalStep DEF EvOffNext, storeVars
  <2>2. ASSUME NEW i \in ev.todo,
               ev' = [ev EXCEPT !.pc = "offSend", !.id = i, !.todo = @ \ {i}],
               messages' = IF NeedsAckFlag(messages[i].msg)
                           THEN MarkSent(messages, i) ELSE messages
        PROVE  WellFormed'
    <3>1. Grown(messages, messages')
      BY <1>0, <2>2, MarkGrown DEF Grown
    <3>2. ev' \in EvState /\ EvRefsOK'
      BY <1>0, <1>3, <2>2, <3>1
         DEF EvState, EvPCs, EvRefsOK, EvSending, EvOffNext, Grown
    <3> QED
      BY <1>3, <3>1, <3>2, EvStoreStep DEF EvOffNext
  <2>3. CASE EvThrows
    BY <1>3, <2>3, ThrowOK DEF EvOffNext
  <2> QED
    BY <1>3, <2>1, <2>2, <2>3 DEF EvOffNext
<1>4. CASE EvOffSend
  <2>1. ev.id \in DOMAIN messages /\ ev.sess \in SessionIds
    BY <1>0, <1>4 DEF EvOffSend, EvRefsOK, EvSending
  <2>2. messages[ev.id].msg \in Message
    BY <2>1, RowMessage
  <2>3. ev' \in EvState
    BY <1>0, <1>4 DEF EvOffSend, EvState, EvPCs, EvGoto
  <2>4. Grown(messages, messages') => EvRefsOK'
    BY <1>0, <1>4, <2>1
       DEF EvOffSend, EvState, EvRefsOK, EvSending, EvGoto, Grown
  <2> QED
    BY <1>4, <2>1, <2>2, <2>3, <2>4, EvSendStep DEF EvOffSend
<1>5. CASE EvOffDone
  <2>1. CASE messages' = MarkDelivered(messages, ev.id) /\ EvGoto("offNext")
    <3>1. Grown(messages, messages')
      BY <1>0, <2>1, MarkGrown
    <3>2. ev' \in EvState /\ EvRefsOK'
      BY <1>0, <1>5, <2>1, <3>1
         DEF EvState, EvPCs, EvRefsOK, EvSending, EvGoto, EvOffDone, Grown
    <3> QED
      BY <1>5, <3>1, <3>2, EvStoreStep DEF EvOffDone
  <2> QED
    BY <1>5, <2>1, ThrowOK DEF EvOffDone
<1>6. CASE EvOffFlush
  <2>1. ev.sess \in SessionIds
    BY <1>0, <1>6 DEF EvOffFlush, EvRefsOK
  <2>2. ev' \in EvState /\ EvRefsOK'
    BY <1>0, <1>6
       DEF EvState, EvPCs, EvRefsOK, EvSending, EvGoto, EvOffFlush, storeVars
  <2>3. SessionsTypeOK'
    <3>1. CASE IsOnline(ev.sess)
      <4> DEFINE q == sessions[ev.sess].queue
                 sent == [i \in 1..Len(q) |-> [sess |-> ev.sess, msg |-> q[i]]]
      <4>1. q \in Seq(Message) /\ Len(q) \in Nat /\ Len(q) \in 0..Len(q)
        BY <2>1, LenProperties DEF TypeOK, SessionsTypeOK, Session
      <4>2. outbox' = outbox \o sent /\ sessions' = Popped(sessions, ev.sess, q, Len(q))
        BY <1>6, <3>1 DEF EvOffFlush, FlushQueue
      <4> HIDE DEF q
      <4>3. sent \in Seq(PendingSend)
        <5>1. \A i \in 1..Len(q) : sent[i] \in PendingSend
          BY <2>1, <4>1, ElementOfSeq DEF PendingSend
        <5>2. sent \in [1..Len(q) -> PendingSend]
          BY <5>1
        <5> QED
          BY <4>1, <5>2, SeqDef
      <4>4. outbox' \in Seq(PendingSend)
        BY <4>2, <4>3, ConcatProperties DEF TypeOK, SessionsTypeOK
      <4>5. sessions' \in [SessionIds -> Session]
        BY <2>1, <4>1, <4>2, SessionUpdates DEF TypeOK, SessionsTypeOK
      <4> QED
        BY <1>6, <4>4, <4>5 DEF EvOffFlush, TypeOK, SessionsTypeOK
    <3>2. CASE ~IsOnline(ev.sess)
      BY <1>6, <3>2 DEF EvOffFlush, FlushQueue, TypeOK, SessionsTypeOK
    <3> QED
      BY <3>1, <3>2
  <2> QED
    BY <1>6, <2>2, <2>3, EvChanges
       DEF EvOffFlush, storeVars, TypeOK, StorageTypeOK, Grown
<1>7. CASE EvRepLoad
  <2>1. FindSession(ev.msg.sender) \in SessionIds \cup {NoSession}
    BY FoundSession
  <2>2. PICK ids \in Prefixes(LoadPendingRepliesForSenderOnly(
                                messages, correlations, ev.msg.sender)) :
          IF FindSession(ev.msg.sender) = NoSession \/ ids = {}
          THEN EvFinish
          ELSE ev' = [ev EXCEPT !.pc = "repNext",
                                !.sess = FindSession(ev.msg.sender),
                                !.todo = ids]
    BY <1>7 DEF EvRepLoad
  <2>3. ids \subseteq DOMAIN messages
    BY DEF Prefixes, LoadPendingRepliesForSenderOnly
  <2>4. DOMAIN messages \subseteq Nat
    BY <1>0, LenProperties
  <2>5. ev' \in EvState /\ EvRefsOK'
    <3>1. CASE EvFinish
      BY <3>1, FinishOK
    <3>2. CASE ~EvFinish
      <4>1. ids \in SUBSET Nat
        BY <2>3, <2>4
      <4>2. /\ ev' = [ev EXCEPT !.pc = "repNext",
                                !.sess = FindSession(ev.msg.sender),
                                !.todo = ids]
            /\ FindSession(ev.msg.sender) \in SessionIds
        BY <2>1, <2>2, <3>2
      <4>3. ev' \in EvState
        BY <1>0, <4>1, <4>2 DEF EvState, EvPCs
      <4>4. EvRefsOK'
        BY <1>0, <1>7, <2>3, <4>2
           DEF EvState, EvRefsOK, EvSending, EvRepLoad, storeVars
      <4> QED
        BY <4>3, <4>4
    <3> QED
      BY <3>1, <3>2
  <2> QED
    BY <1>7, <2>5, EvLocalStep DEF EvRepLoad
<1>8. CASE EvRepNext
  <2>1. CASE EvFinish /\ UNCHANGED messages
    BY <1>8, <2>1, FinishOK, EvLocalStep DEF EvRepNext, storeVars
  <2>2. ASSUME NEW i \in ev.todo,
               ev' = [ev EXCEPT !.pc = "repSend", !.id = i, !.todo = @ \ {i}],
               messages' = IF NeedsAckFlag(messages[i].msg)
                           THEN MarkSent(messages, i) ELSE messages
        PROVE  WellFormed'
    <3>1. Grown(messages, messages')
      BY <1>0, <2>2, MarkGrown DEF Grown
    <3>2. ev' \in EvState /\ EvRefsOK'
      BY <1>0, <1>8, <2>2, <3>1
         DEF EvState, EvPCs, EvRefsOK, EvSending, EvRepNext, Grown
    <3> QED
      BY <1>8, <3>1, <3>2, EvStoreStep DEF EvRepNext
  <2>3. CASE EvThrows
    BY <1>8, <2>3, ThrowOK DEF EvRepNext
  <2> QED
    BY <1>8, <2>1, <2>2, <2>3 DEF EvRepNext
<1>9. CASE EvRepSend
  <2>1. ev.id \in DOMAIN messages /\ ev.sess \in SessionIds
    BY <1>0, <1>9 DEF EvRepSend, EvRefsOK, EvSending
  <2>2. messages[ev.id].msg \in Message
    BY <2>1, RowMessage
  <2>3. ev' \in EvState
    BY <1>0, <1>9 DEF EvRepSend, EvState, EvPCs, EvGoto
  <2>4. Grown(messages, messages') => EvRefsOK'
    BY <1>0, <1>9, <2>1
       DEF EvRepSend, EvState, EvRefsOK, EvSending, EvGoto, Grown
  <2> QED
    BY <1>9, <2>1, <2>2, <2>3, <2>4, EvSendStep DEF EvRepSend
<1>10. CASE EvRepDone
  <2>1. CASE messages' = MarkDelivered(messages, ev.id) /\ EvGoto("repNext")
    <3>1. Grown(messages, messages')
      BY <1>0, <2>1, MarkGrown
    <3>2. ev' \in EvState /\ EvRefsOK'
      BY <1>0, <1>10, <2>1, <3>1
         DEF EvState, EvPCs, EvRefsOK, EvSending, EvGoto, EvRepDone, Grown
    <3> QED
      BY <1>10, <3>1, <3>2, EvStoreStep DEF EvRepDone
  <2> QED
    BY <1>10, <2>1, ThrowOK DEF EvRepDone
<1> QED
  BY <1>1, <1>2, <1>3, <1>4, <1>5, <1>6, <1>7, <1>8, <1>9, <1>10
     DEF EvRegister

\* A step that writes the correlations alone.
LEMMA EvCorrStep ==
  ASSUME WellFormed, EvFrame, UNCHANGED <<messages, sessVars>>,
         correlations' \subseteq Correlation, ev' \in EvState, EvRefsOK'
  PROVE  WellFormed'
<1>1. Grown(messages, messages')
  BY DEF WellFormed, TypeOK, StorageTypeOK, Grown
<1> QED
  BY <1>1, EvChanges DEF WellFormed, TypeOK, SessionsTypeOK, sessVars

\* What SaveCorrelation and MarkAckReceived leave behind.
LEMMA CorrelationTypes ==
  ASSUME TypeOK, NEW id \in Nat, NEW corr \in Corrs \cup {0},
         NEW owner \in Names \cup {NoName}
  PROVE  /\ SaveCorrelation(correlations, id, corr, owner) \subseteq Correlation
         /\ MarkAckReceived(correlations, id, owner) \subseteq Correlation
BY DEF TypeOK, StorageTypeOK, SaveCorrelation, MarkAckReceived, Correlation

\* MessageHandler.
LEMMA EvMessageOK == WellFormed /\ EvMessage => WellFormed'
<1> SUFFICES ASSUME WellFormed, EvMessage PROVE WellFormed'
  OBVIOUS
<1> USE DEF WellFormed
<1>0. ev \in EvState /\ EvRefsOK /\ messages \in Seq(Row) /\ ev.msg \in Message
  BY DEF TypeOK, StorageTypeOK, EvState
<1>1. CASE EvFind
  <2> DEFINE s == FindSession(ev.msg.dest)
  <2>1. s \in SessionIds \cup {NoSession}
    BY FoundSession
  <2>2. PICK t \in SessionIds \cup {NoSession} :
          ev' = [ev EXCEPT !.pc = "save",
                           !.refs = (@ \cup {s}) \ {NoSession},
                           !.sess = t]
    BY <1>1, <2>1 DEF EvFind
  <2> HIDE DEF s
  <2>3. ev' \in EvState
    BY <1>0, <2>1, <2>2 DEF EvState, EvPCs
  <2>4. EvRefsOK'
    BY <1>0, <1>1, <2>2 DEF EvState, EvRefsOK, EvSending, EvFind, storeVars
  <2> QED
    BY <1>1, <2>3, <2>4, EvLocalStep DEF EvFind
<1>2. CASE EvSave
  <2>1. CASE messages' = SaveMessage(messages, ev.msg)
    <3>1. Grown(messages, messages') /\ Len(messages) \in Nat
      BY <1>0, <2>1, SaveGrown, LenProperties
    <3>2. CASE EvFinish
      BY <1>2, <3>1, <3>2, FinishOK, EvStoreStep DEF EvSave
    <3>3. CASE ~EvFinish
      <4>1. PICK pc \in {"send", "corr"} :
              /\ ev' = [ev EXCEPT !.id = Len(messages) + 1, !.pc = pc]
              /\ pc = "send" => ev.sess # NoSession
        <5>1. /\ ~(ev.msg.flags = {} /\ ev.sess = NoSession)
              /\ ev' = [ev EXCEPT !.id = Len(messages) + 1,
                                  !.pc = IF ev.msg.flags = {}
                                         THEN "send" ELSE "corr"]
          BY <1>2, <3>3 DEF EvSave, EvThrows
        <5>2. CASE ev.msg.flags = {}
          BY <5>1, <5>2
        <5>3. CASE ev.msg.flags # {}
          BY <5>1, <5>3
        <5> QED
          BY <5>2, <5>3
      <4>2. ev' \in EvState
        <5> DEFINE id == Len(messages) + 1
        <5>1. id \in Nat
          BY <3>1
        <5>2. ev' = [ev EXCEPT !.id = id, !.pc = pc]
          BY <4>1
        <5> HIDE DEF id
        <5> QED
          BY <1>0, <4>1, <5>1, <5>2 DEF EvState, EvPCs
      <4>3. EvRefsOK'
        BY <1>0, <3>1, <4>1 DEF EvState, EvRefsOK, EvSending, Grown
      <4> QED
        BY <1>2, <3>1, <4>2, <4>3, EvStoreStep DEF EvSave
    <3> QED
      BY <3>2, <3>3
  <2> QED
    BY <1>2, <2>1, ThrowOK DEF EvSave
<1>3. CASE EvCorr
  <2>1. correlations' \subseteq Correlation
    <3>1. SaveCorrelation(correlations, ev.id, ev.msg.corr, ev.msg.sender)
            \subseteq Correlation
      BY <1>0, CorrelationTypes DEF EvState, Message
    <3> QED
      BY <1>3, <3>1 DEF EvCorr, TypeOK, StorageTypeOK
  <2>2. ev' \in EvState /\ EvRefsOK'
    <3>1. CASE EvFinish
      BY <3>1, FinishOK
    <3>2. CASE ~EvFinish
      <4>1. EvGoto("send") /\ ev.sess # NoSession
        BY <1>3, <3>2 DEF EvCorr
      <4>2. ev' \in EvState
        BY <1>0, <4>1 DEF EvState, EvPCs, EvGoto
      <4>3. EvRefsOK'
        BY <1>0, <1>3, <4>1 DEF EvState, EvRefsOK, EvSending, EvGoto, EvCorr
      <4> QED
        BY <4>2, <4>3
    <3> QED
      BY <3>1, <3>2
  <2> QED
    BY <1>3, <2>1, <2>2, EvCorrStep DEF EvCorr
<1>4. CASE EvSend
  <2>1. ev.sess \in SessionIds
    BY <1>0, <1>4 DEF EvSend, EvRefsOK, EvSending
  <2>2. ev' \in EvState
    BY <1>0, <1>4 DEF EvSend, EvState, EvPCs, EvGoto
  <2>3. Grown(messages, messages') => EvRefsOK'
    BY <1>0, <1>4 DEF EvSend, EvState, EvRefsOK, EvSending, EvGoto, Grown
  <2> QED
    BY <1>0, <1>4, <2>1, <2>2, <2>3, EvSendStep DEF EvSend
<1>5. CASE EvMark
  <2>1. CASE /\ messages' = IF NeedsAckFlag(ev.msg)
                            THEN MarkSent(messages, ev.id)
                            ELSE MarkDelivered(messages, ev.id)
             /\ EvFinish
    <3>1. Grown(messages, messages')
      BY <1>0, <2>1, MarkGrown
    <3> QED
      BY <1>5, <2>1, <3>1, FinishOK, EvStoreStep DEF EvMark
  <2> QED
    BY <1>5, <2>1, ThrowOK DEF EvMark
<1> QED
  BY <1>1, <1>2, <1>3, <1>4, <1>5 DEF EvMessage

\* ReplyHandler.
LEMMA EvReplyOK == WellFormed /\ EvReply => WellFormed'
<1> SUFFICES ASSUME WellFormed, EvReply PROVE WellFormed'
  OBVIOUS
<1> USE DEF WellFormed
<1>0. ev \in EvState /\ EvRefsOK /\ messages \in Seq(Row) /\ ev.msg \in Message
  BY DEF TypeOK, StorageTypeOK, EvState
<1>1. CASE EvReplySave
  <2>1. ASSUME NEW to,
               to \in {r.owner : r \in FindByCorrelation(correlations, ev.msg.corr)}
                        \cup {NoName},
               NEW m, m = [ev.msg EXCEPT !.dest = IF to = NoName THEN @ ELSE to],
               messages' = SaveMessage(messages, m),
               ev' = [ev EXCEPT !.pc = "rCorr", !.id = Len(messages) + 1,
                                !.msg = m]
        PROVE  WellFormed'
    <3>1. to \in Names \cup {NoName}
      BY <2>1 DEF TypeOK, StorageTypeOK, Correlation, FindByCorrelation
    <3>2. m \in Message
      BY <1>0, <2>1, <3>1 DEF Message
    <3>3. Grown(messages, messages') /\ Len(messages) \in Nat
      BY <1>0, <2>1, <3>2, SaveGrown, LenProperties
    <3>4. ev' \in EvState
      <4> DEFINE id == Len(messages) + 1
      <4>1. id \in Nat
        BY <3>3
      <4>2. ev' = [ev EXCEPT !.pc = "rCorr", !.id = id, !.msg = m]
        BY <2>1
      <4> HIDE DEF id
      <4> QED
        BY <1>0, <3>2, <4>1, <4>2 DEF EvState, EvPCs
    <3>5. EvRefsOK'
      BY <1>0, <2>1, <3>3 DEF EvState, EvRefsOK, EvSending, Grown
    <3> QED
      BY <1>1, <3>3, <3>4, <3>5, EvStoreStep DEF EvReplySave
  <2> QED
    BY <1>1, <2>1, ThrowOK DEF EvReplySave
<1>2. CASE EvReplyCorr
  <2>1. correlations' \subseteq Correlation
    <3>1. SaveCorrelation(correlations, ev.id, ev.msg.corr, ev.msg.dest)
            \subseteq Correlation
      BY <1>0, CorrelationTypes DEF EvState, Message
    <3> QED
      BY <1>2, <3>1 DEF EvReplyCorr, TypeOK, StorageTypeOK
  <2>2. ev' \in EvState /\ EvRefsOK'
    <3>1. CASE EvFinish
      BY <3>1, FinishOK
    <3>2. CASE EvGoto("rFind")
      <4>1. ev' \in EvState
        BY <1>0, <3>2 DEF EvState, EvPCs, EvGoto
      <4>2. EvRefsOK'
        BY <1>0, <1>2, <3>2 DEF EvState, EvRefsOK, EvSending, EvGoto, EvReplyCorr
      <4> QED
        BY <4>1, <4>2
    <3> QED
      BY <1>2, <3>1, <3>2 DEF EvReplyCorr
  <2> QED
    BY <1>2, <2>1, <2>2, EvCorrStep DEF EvReplyCorr
<1>3. CASE EvReplyFind
  <2> DEFINE s == FindSession(ev.msg.dest)
  <2>1. s \in SessionIds \cup {NoSession}
    BY FoundSession
  <2>2. ev' \in EvState /\ EvRefsOK'
    <3>1. CASE EvFinish
      BY <3>1, FinishOK
    <3>2. CASE ~EvFinish
      <4>1. PICK pc \in {"rSent", "rSend"} :
              /\ ev' = [ev EXCEPT !.refs = @ \cup {s}, !.sess = s, !.pc = pc]
              /\ s \in SessionIds
        BY <1>3, <2>1, <3>2 DEF EvReplyFind
      <4> HIDE DEF s
      <4>2. ev' \in EvState
        BY <1>0, <4>1 DEF EvState, EvPCs
      <4>3. EvRefsOK'
        BY <1>0, <1>3, <4>1
           DEF EvState, EvRefsOK, EvSending, EvReplyFind, storeVars
      <4> QED
        BY <4>2, <4>3
    <3> QED
      BY <3>1, <3>2
  <2> QED
    BY <1>3, <2>2, EvLocalStep DEF EvReplyFind
<1>4. CASE EvReplySent
  <2>1. Grown(messages, messages')
    BY <1>0, <1>4, MarkGrown DEF EvReplySent, Grown
  <2>2. PICK pc \in {"rSend", "rollback"} : EvGoto(pc)
    BY <1>4 DEF EvReplySent
  <2>3. ev' \in EvState
    BY <1>0, <2>2 DEF EvState, EvPCs, EvGoto
  <2>4. EvRefsOK'
    BY <1>0, <1>4, <2>1, <2>2
       DEF EvState, EvRefsOK, EvSending, EvGoto, EvReplySent, Grown
  <2> QED
    BY <1>4, <2>1, <2>3, <2>4, EvStoreStep DEF EvReplySent
<1>5. CASE EvReplySend
  <2>1. ev.sess \in SessionIds
    BY <1>0, <1>5 DEF EvReplySend, EvRefsOK, EvSending
  <2>2. ev' \in EvState /\ (Grown(messages, messages') => EvRefsOK')
    <3>1. CASE EvFinish
      BY <3>1, FinishOK
    <3>2. CASE EvGoto("rMark")
      <4>1. ev' \in EvState
        BY <1>0, <3>2 DEF EvState, EvPCs, EvGoto
      <4>2. Grown(messages, messages') => EvRefsOK'
        BY <1>0, <2>1, <3>2
           DEF EvState, EvRefsOK, EvSending, EvGoto, Grown
      <4> QED
        BY <4>1, <4>2
    <3> QED
      BY <1>5, <3>1, <3>2 DEF EvReplySend
  <2> QED
    BY <1>0, <1>5, <2>1, <2>2, EvSendStep DEF EvReplySend
<1>6. CASE EvReplyMark
  <2>1. CASE messages' = MarkDelivered(messages, ev.id) /\ EvFinish
    <3>1. Grown(messages, messages')
      BY <1>0, <2>1, MarkGrown
    <3> QED
      BY <1>6, <2>1, <3>1, FinishOK, EvStoreStep DEF EvReplyMark
  <2>2. CASE EvGoto("rollback") /\ UNCHANGED messages
    <3>1. ev' \in EvState
      BY <1>0, <2>2 DEF EvState, EvPCs, EvGoto
    <3>2. EvRefsOK'
      BY <1>0, <1>6, <2>2 DEF EvState, EvRefsOK, EvSending, EvGoto, EvReplyMark
    <3> QED
      BY <1>6, <2>2, <3>1, <3>2, EvLocalStep DEF EvReplyMark, storeVars
  <2> QED
    BY <1>6, <2>1, <2>2 DEF EvReplyMark
<1>7. CASE EvReplyRollback
  <2>1. ev.sess \in SessionIds
    BY <1>0, <1>7 DEF EvReplyRollback, EvRefsOK
  <2>2. Grown(messages, messages')
    BY <1>0, <1>7, MarkGrown DEF EvReplyRollback, Grown
  <2>3. SessionsTypeOK'
    BY <1>7, <2>1, SessionUpdates
       DEF EvReplyRollback, TypeOK, SessionsTypeOK
  <2>4. ev' \in EvState /\ EvRefsOK'
    BY <1>7, FinishOK DEF EvReplyRollback
  <2> QED
    BY <1>7, <2>2, <2>3, <2>4, EvChanges
       DEF EvReplyRollback, TypeOK, StorageTypeOK
<1> QED
  BY <1>1, <1>2, <1>3, <1>4, <1>5, <1>6, <1>7 DEF EvReply

\* AckHandler.
LEMMA EvAckOK == WellFormed /\ EvAck => WellFormed'
<1> SUFFICES ASSUME WellFormed, EvAck PROVE WellFormed'
  OBVIOUS
<1> USE DEF WellFormed
<1>0. ev \in EvState /\ EvRefsOK /\ messages \in Seq(Row) /\ ev.msg \in Message
  BY DEF TypeOK, StorageTypeOK, EvState
<1>1. AckNotification \in Message
  BY <1>0 DEF AckNotification, EvState, Message, Types, Flags
<1>2. CASE EvAckLook
  <2>1. ev' \in EvState /\ EvRefsOK'
    <3>1. CASE EvFinish
      BY <3>1, FinishOK
    <3>2. CASE ~EvFinish
      <4>1. PICK r \in FindByCorrelation(correlations, ev.msg.corr) :
              \E owner \in {r.owner, NoName} :
                ev' = [ev EXCEPT !.pc = "aDeliver", !.id = r.mid,
                                 !.owner = owner]
        BY <1>2, <3>2 DEF EvAckLook
      <4>2. r.mid \in Nat /\ r.owner \in Names \cup {NoName}
        BY DEF TypeOK, StorageTypeOK, FindByCorrelation, Correlation
      <4>3. ev' \in EvState
        BY <1>0, <4>1, <4>2 DEF EvState, EvPCs
      <4>4. EvRefsOK'
        BY <1>0, <1>2, <4>1
           DEF EvState, EvRefsOK, EvSending, EvAckLook, storeVars
      <4> QED
        BY <4>3, <4>4
    <3> QED
      BY <3>1, <3>2
  <2> QED
    BY <1>2, <2>1, EvLocalStep DEF EvAckLook
<1>3. CASE EvAckDeliver
  <2>1. CASE messages' = MarkDelivered(messages, ev.id) /\ EvGoto("aReceived")
    <3>1. Grown(messages, messages')
      BY <1>0, <2>1, MarkGrown
    <3>2. ev' \in EvState
      BY <1>0, <2>1 DEF EvState, EvPCs, EvGoto
    <3>3. EvRefsOK'
      BY <1>0, <2>1, <3>1 DEF EvState, EvRefsOK, EvSending, EvGoto, Grown
    <3> QED
      BY <1>3, <3>1, <3>2, <3>3, EvStoreStep DEF EvAckDeliver
  <2> QED
    BY <1>3, <2>1, ThrowOK DEF EvAckDeliver
<1>4. CASE EvAckReceived
  <2>1. correlations' \subseteq Correlation
    BY <1>4 DEF EvAckReceived, MarkAckReceived, TypeOK, StorageTypeOK
  <2>2. ev' \in EvState /\ EvRefsOK'
    <3>1. CASE EvFinish
      BY <3>1, FinishOK
    <3>2. CASE EvGoto("aNotify")
      <4>1. ev' \in EvState
        BY <1>0, <3>2 DEF EvState, EvPCs, EvGoto
      <4>2. EvRefsOK'
        BY <1>0, <1>4, <3>2
           DEF EvState, EvRefsOK, EvSending, EvGoto, EvAckReceived
      <4> QED
        BY <4>1, <4>2
    <3> QED
      BY <1>4, <3>1, <3>2 DEF EvAckReceived
  <2> QED
    BY <1>4, <2>1, <2>2, EvCorrStep DEF EvAckReceived
<1>5. CASE EvAckNotify
  <2> DEFINE s == FindSession(ev.owner)
  <2>1. s \in SessionIds \cup {NoSession}
    BY FoundSession
  <2>2. CASE ev' = [ev EXCEPT !.pc = "aSave"]
    <3>1. ev' \in EvState
      BY <1>0, <2>2 DEF EvState, EvPCs
    <3>2. EvRefsOK'
      BY <1>0, <1>5, <2>2 DEF EvState, EvRefsOK, EvSending, EvAckNotify, storeVars
    <3> QED
      BY <1>5, <3>1, <3>2, EvLocalStep DEF EvAckNotify
  <2>3. CASE /\ s \in SessionIds
             /\ ev' = [ev EXCEPT !.pc = "aSend", !.sess = s, !.refs = @ \cup {s}]
    <3> HIDE DEF s
    <3>1. ev' \in EvState
      BY <1>0, <2>3 DEF EvState, EvPCs
    <3>2. EvRefsOK'
      BY <1>0, <1>5, <2>3 DEF EvState, EvRefsOK, EvSending, EvAckNotify, storeVars
    <3> QED
      BY <1>5, <3>1, <3>2, EvLocalStep DEF EvAckNotify
  <2> QED
    BY <1>5, <2>1, <2>2, <2>3 DEF EvAckNotify
<1>6. CASE EvAckSend
  <2>1. ev.sess \in SessionIds
    BY <1>0, <1>6 DEF EvAckSend, EvRefsOK, EvSending
  <2>2. ev' \in EvState /\ EvRefsOK'
    BY <1>6, FinishOK DEF EvAckSend
  <2> QED
    BY <1>1, <1>6, <2>1, <2>2, EvSendStep DEF EvAckSend
<1>7. CASE EvAckSave
  <2>1. CASE messages' = SaveMessage(messages, AckNotification) /\ EvFinish
    <3>1. Grown(messages, messages')
      BY <1>0, <1>1, <2>1, SaveGrown
    <3> QED
      BY <1>7, <2>1, <3>1, FinishOK, EvStoreStep DEF EvAckSave
  <2> QED
    BY <1>7, <2>1, ThrowOK DEF EvAckSave
<1> QED
  BY <1>2, <1>3, <1>4, <1>5, <1>6, <1>7 DEF EvAck

\* UnregisterHandler.
LEMMA EvUnregisterOK == WellFormed /\ EvUnregister => WellFormed'
<1> SUFFICES ASSUME WellFormed, EvUnregister PROVE WellFormed'
  OBVIOUS
<1> USE DEF WellFormed
<1>0. ev \in EvState /\ EvRefsOK /\ messages \in Seq(Row)
  BY DEF TypeOK, StorageTypeOK
<1>1. CASE EvUnregFind
  <2> DEFINE s == FindSession(ev.msg.sender)
  <2>1. s \in SessionIds \cup {NoSession}
    BY FoundSession
  <2>2. CASE EvFinish
    BY <1>1, <2>2, FinishOK, EvLocalStep DEF EvUnregFind
  <2>3. CASE /\ s \in SessionIds
             /\ ev' = [ev EXCEPT !.pc = "uPersist", !.sess = s, !.refs = @ \cup {s}]
    <3> HIDE DEF s
    <3>1. ev' \in EvState
      BY <1>0, <2>3 DEF EvState, EvPCs
    <3>2. EvRefsOK'
      BY <1>0, <1>1, <2>3 DEF EvState, EvRefsOK, EvSending, EvUnregFind, storeVars
    <3> QED
      BY <1>1, <3>1, <3>2, EvLocalStep DEF EvUnregFind
  <2> QED
    BY <1>1, <2>1, <2>2, <2>3 DEF EvUnregFind
<1>2. CASE EvUnregPersist
  <2> DEFINE q == sessions[ev.sess].queue
  <2>1. ev.sess \in SessionIds
    BY <1>0, <1>2 DEF EvUnregPersist, EvRefsOK
  <2>2. q \in Seq(Message) /\ Len(q) \in 0..Len(q)
    BY <2>1, LenProperties DEF TypeOK, SessionsTypeOK, Session
  <2>3. \A n \in 0..Len(q) : Popped(sessions, ev.sess, q, n) \in [SessionIds -> Session]
    BY <2>1, <2>2, SessionUpdates DEF TypeOK, SessionsTypeOK
  <2>4. CASE /\ PersistQueue(ev.sess)
             /\ sessions' = MarkOffline(Popped(sessions, ev.sess, q, Len(q)), ev.sess)
             /\ EvGoto("uRemove")
    <3>1. Grown(messages, messages')
      BY <2>1, <2>4, PersistTypes
    <3>2. sessions' \in [SessionIds -> Session]
      BY <2>1, <2>2, <2>3, <2>4, SessionUpdates
    <3>3. SessionsTypeOK'
      BY <1>2, <3>2 DEF EvUnregPersist, TypeOK, SessionsTypeOK
    <3>4. ev' \in EvState
      BY <1>0, <2>4 DEF EvState, EvPCs, EvGoto
    <3>5. EvRefsOK'
      BY <1>0, <2>4, <3>1 DEF EvState, EvRefsOK, EvSending, EvGoto, Grown
    <3> QED
      BY <1>2, <3>1, <3>3, <3>4, <3>5, EvChanges
         DEF EvUnregPersist, TypeOK, StorageTypeOK
  <2>5. ASSUME NEW n \in 0..Len(q), PersistQueueThrows(ev.sess, n),
               sessions' = Popped(sessions, ev.sess, q, n), EvFinish
        PROVE  WellFormed'
    <3>1. Grown(messages, messages')
      BY <2>1, <2>5, PersistTypes
    <3>2. SessionsTypeOK'
      BY <1>2, <2>3, <2>5 DEF EvUnregPersist, TypeOK, SessionsTypeOK
    <3> QED
      BY <1>2, <2>5, <3>1, <3>2, FinishOK, EvChanges
         DEF EvUnregPersist, TypeOK, StorageTypeOK
  <2> QED
    BY <1>2, <2>4, <2>5 DEF EvUnregPersist
<1>3. CASE EvUnregRemove
  <2>1. SessionsTypeOK'
    BY <1>3 DEF EvUnregRemove, TypeOK, SessionsTypeOK
  <2>2. Grown(messages, messages')
    BY <1>0, <1>3 DEF EvUnregRemove, storeVars, Grown
  <2> QED
    BY <1>3, <2>1, <2>2, FinishOK, EvChanges
       DEF EvUnregRemove, storeVars, TypeOK, StorageTypeOK
<1> QED
  BY <1>1, <1>2, <1>3 DEF EvUnregister

\* Every step of the event callback.
LEMMA EvStepOK == WellFormed /\ EvStep => WellFormed'
BY EvOuterOK, EvRegisterOK, EvMessageOK, EvReplyOK, EvAckOK, EvUnregisterOK
   DEF EvStep

-----------------------------------------------------------------------------
(* The ACK timer *)

LEMMA AkOK == WellFormed /\ (AkLoad \/ AkStep) => WellFormed'
<1> SUFFICES ASSUME WellFormed, AkLoad \/ AkStep PROVE WellFormed'
  OBVIOUS
<1> USE DEF WellFormed
<1>0. ak \in AkState /\ AkRefsOK /\ messages \in Seq(Row)
  BY DEF TypeOK, StorageTypeOK
<1>a. Grown(messages, messages) /\ (UNCHANGED sessVars => SessionsTypeOK')
  BY <1>0 DEF Grown, TypeOK, SessionsTypeOK, sessVars
<1>1. CASE AkLoad
  <2>0. PICK old \in DOMAIN messages :
          \E ids \in Prefixes(LoadExpiredSent(messages, old)) :
            ak' = [ak EXCEPT !.pc = "next", !.todo = ids]
    BY <1>1 DEF AkLoad
  <2>1. PICK ids \in Prefixes(LoadExpiredSent(messages, old)) :
          ak' = [ak EXCEPT !.pc = "next", !.todo = ids]
    BY <2>0
  <2>2. ids \subseteq DOMAIN messages /\ ids \in SUBSET Nat
    BY <1>0, LenProperties DEF Prefixes, LoadExpiredSent
  <2>3. ak' \in AkState
    BY <1>0, <2>1, <2>2 DEF AkState, AkPCs
  <2>4. AkRefsOK'
    BY <1>0, <1>1, <2>1, <2>2 DEF AkState, AkRefsOK, AkSending, AkLoad, storeVars
  <2> QED
    BY <1>a, <1>1, <2>3, <2>4, AkChanges DEF AkLoad, storeVars, sessVars
<1>2. CASE AkNext
  <2>1. CASE ak' = IdleAk /\ AkFrame /\ UNCHANGED messages
    <3>1. ak' \in AkState /\ AkRefsOK'
      BY <2>1 DEF IdleAk, AkState, AkPCs, AkRefsOK, AkSending
    <3> QED
      BY <1>a, <1>2, <2>1, <3>1, AkChanges DEF AkNext, sessVars
  <2>2. ASSUME NEW i \in ak.todo, messages' = MarkPending(messages, i),
               ak' = [ak EXCEPT !.pc = "find", !.id = i, !.todo = @ \ {i}],
               AkFrame
        PROVE  WellFormed'
    <3>1. Grown(messages, messages')
      BY <1>0, <2>2, MarkGrown
    <3>2. ak' \in AkState
      BY <1>0, <2>2 DEF AkState, AkPCs
    <3>3. AkRefsOK'
      BY <1>0, <2>2, <3>1 DEF AkState, AkRefsOK, AkSending, Grown
    <3> QED
      BY <1>a, <1>2, <2>2, <3>1, <3>2, <3>3, AkChanges DEF AkNext, sessVars
  <2> QED
    BY <1>2, <2>1, <2>2 DEF AkNext
<1>3. CASE AkFind
  <2> DEFINE s == FindSession(messages[ak.id].msg.dest)
  <2>1. s \in SessionIds \cup {NoSession}
    BY FoundSession
  <2>2. CASE ak' = [ak EXCEPT !.pc = "next", !.id = 0]
    <3>1. ak' \in AkState
      BY <1>0, <2>2 DEF AkState, AkPCs
    <3>2. AkRefsOK'
      BY <1>0, <1>3, <2>2 DEF AkState, AkRefsOK, AkSending, AkFind, storeVars
    <3> QED
      BY <1>a, <1>3, <3>1, <3>2, AkChanges DEF AkFind, storeVars, sessVars
  <2>3. CASE s \in SessionIds /\ ak' = [ak EXCEPT !.pc = "sent", !.sess = s]
    <3> HIDE DEF s
    <3>1. ak' \in AkState
      BY <1>0, <2>3 DEF AkState, AkPCs
    <3>2. AkRefsOK'
      BY <1>0, <1>3, <2>3 DEF AkState, AkRefsOK, AkSending, AkFind, storeVars
    <3> QED
      BY <1>a, <1>3, <3>1, <3>2, AkChanges DEF AkFind, storeVars, sessVars
  <2> QED
    BY <1>3, <2>1, <2>2, <2>3 DEF AkFind
<1>4. CASE AkSent
  <2>1. Grown(messages, messages')
    BY <1>0, <1>4, MarkGrown DEF AkSent
  <2>2. ak' \in AkState
    BY <1>0, <1>4 DEF AkSent, AkState, AkPCs, AkGoto
  <2>3. AkRefsOK'
    BY <1>0, <1>4, <2>1 DEF AkSent, AkState, AkRefsOK, AkSending, AkGoto, Grown
  <2> QED
    BY <1>a, <1>4, <2>1, <2>2, <2>3, AkChanges DEF AkSent, sessVars
<1>5. CASE AkSend
  <2>1. ak.id \in DOMAIN messages /\ ak.sess \in SessionIds
    BY <1>0, <1>5 DEF AkSend, AkRefsOK, AkSending
  <2>2. messages[ak.id].msg \in Message
    BY <2>1, RowMessage
  <2>3. /\ Grown(messages, messages')
        /\ sessions' \in [SessionIds -> Session]
        /\ outbox' \in Seq(PendingSend)
    BY <1>5, <2>1, <2>2, SendTypes DEF AkSend
  <2>4. SessionsTypeOK'
    BY <1>5, <2>3 DEF AkSend, TypeOK, SessionsTypeOK
  <2>5. ak' \in AkState
    BY <1>0, <1>5 DEF AkSend, AkState, AkPCs, AkGoto
  <2>6. AkRefsOK'
    BY <1>0, <1>5, <2>1, <2>3
       DEF AkSend, AkState, AkRefsOK, AkSending, AkGoto, Grown
  <2> QED
    BY <1>5, <2>3, <2>4, <2>5, <2>6, AkChanges DEF AkSend
<1>6. CASE AkRelease
  <2> DEFINE others == Registered \cup ev.refs
  <2>1. ak.sess \in SessionIds
    BY <1>0, <1>6 DEF AkRelease, AkRefsOK
  <2>2. CASE ReleaseTerminates(ak.sess, others)
    BY <2>1, <2>2, RestartOK, PersistTypes DEF ReleaseTerminates
  <2>3. CASE /\ Release(ak.sess, others)
             /\ ak' = [ak EXCEPT !.pc = "next", !.id = 0, !.sess = NoSession]
             /\ AkFrame
             /\ UNCHANGED <<correlations, active, outbox>>
    <3>1. Grown(messages, messages') /\ SessionsTypeOK'
      BY <2>1, <2>3, ReleaseTypes DEF TypeOK, SessionsTypeOK
    <3>2. ak' \in AkState
      BY <1>0, <2>3 DEF AkState, AkPCs
    <3>3. AkRefsOK'
      BY <1>0, <2>3, <3>1 DEF AkState, AkRefsOK, AkSending, Grown
    <3> QED
      BY <2>3, <3>1, <3>2, <3>3, AkChanges
  <2> QED
    BY <1>6, <2>2, <2>3 DEF AkRelease
<1>7. CASE AkTerminates
  BY <1>a, <1>7, RestartOK DEF AkTerminates, AkThrows
<1> QED
  BY <1>1, <1>2, <1>3, <1>4, <1>5, <1>6, <1>7 DEF AkStep

-----------------------------------------------------------------------------
(* The cleanup *)

LEMMA ClOK == WellFormed /\ (ClStart \/ ClStep) => WellFormed'
<1> SUFFICES ASSUME WellFormed, ClStart \/ ClStep PROVE WellFormed'
  OBVIOUS
<1> USE DEF WellFormed
<1>0. cl \in ClState /\ ClRefsOK /\ messages \in Seq(Row)
  BY DEF TypeOK, StorageTypeOK
<1>a. Grown(messages, messages) /\ (UNCHANGED sessVars => SessionsTypeOK')
  BY <1>0 DEF Grown, TypeOK, SessionsTypeOK, sessVars
<1>b. registry \in {"free", "cleanup"} /\ active \in [Names -> SessionIds \cup {NoSession}]
  BY DEF TypeOK, SessionsTypeOK
<1>1. CASE ClStart
  <2>1. cl' \in ClState
    BY <1>0, <1>1 DEF ClStart, ClState, ClPCs
  <2>2. ClRefsOK'
    BY <1>0, <1>b, <1>1 DEF ClStart, ClState, ClRefsOK, sessVars
  <2> QED
    BY <1>a, <1>1, <2>1, <2>2, ClChanges DEF ClStart, storeVars
<1>2. ASSUME NEW n \in Names, ClVisit(n) PROVE WellFormed'
  <2>1. active[n] \in SessionIds
    BY <1>0, <1>2 DEF ClVisit, ClRefsOK
  <2>2. sessions' \in [SessionIds -> Session]
    BY <1>2, <2>1, SessionUpdates DEF ClVisit, TypeOK, SessionsTypeOK
  <2>3. SessionsTypeOK'
    BY <1>2, <2>2 DEF ClVisit, TypeOK, SessionsTypeOK
  <2>4. cl' \in ClState
    <3>1. cl.todo \ {n} \in SUBSET Names /\ cl.gone \cup {n} \in SUBSET Names
      BY <1>0 DEF ClState
    <3> QED
      BY <1>0, <1>2, <3>1 DEF ClVisit, ClState, ClPCs
  <2>5. ClRefsOK'
    BY <1>0, <1>2, <2>1 DEF ClVisit, ClState, ClRefsOK
  <2> QED
    BY <1>a, <1>b, <1>2, <2>3, <2>4, <2>5, ClChanges DEF ClVisit, storeVars
<1>3. CASE ClPersist
  <2> DEFINE s == active[cl.cur]
             q == sessions[s].queue
  <2>1. s \in SessionIds
    BY <1>0, <1>3 DEF ClPersist, ClRefsOK
  <2>2. q \in Seq(Message) /\ Len(q) \in 0..Len(q)
    BY <2>1, LenProperties DEF TypeOK, SessionsTypeOK, Session
  <2>3. CASE /\ PersistQueue(s)
             /\ sessions' = Popped(sessions, s, q, Len(q))
             /\ cl' = [cl EXCEPT !.pc = "visit", !.cur = NoName]
             /\ ClFrame
             /\ UNCHANGED <<correlations, active, outbox, registry>>
    <3>1. Grown(messages, messages')
      BY <2>1, <2>3, PersistTypes
    <3>2. sessions' \in [SessionIds -> Session]
      BY <2>1, <2>2, <2>3, SessionUpdates DEF TypeOK, SessionsTypeOK
    <3>3. SessionsTypeOK'
      BY <2>3, <3>2 DEF TypeOK, SessionsTypeOK
    <3>4. cl' \in ClState
      BY <1>0, <2>3 DEF ClState, ClPCs
    <3>5. ClRefsOK'
      BY <1>0, <1>3, <2>3 DEF ClPersist, ClState, ClRefsOK
    <3> QED
      BY <1>b, <2>3, <3>1, <3>3, <3>4, <3>5, ClChanges
  <2>4. ASSUME NEW n \in 0..Len(q), PersistQueueThrows(s, n), Restart
        PROVE  WellFormed'
    BY <2>1, <2>4, PersistTypes, RestartOK
  <2> QED
    BY <1>3, <2>3, <2>4 DEF ClPersist
<1>4. CASE ClSwept
  <2>1. cl' \in ClState
    BY <1>0, <1>4 DEF ClSwept, IdleCl, ClState, ClPCs
  <2>2. ClRefsOK'
    BY <1>0, <1>4 DEF ClSwept, IdleCl, ClState, ClRefsOK, sessVars
  <2> QED
    BY <1>a, <1>b, <1>4, <2>1, <2>2, ClChanges DEF ClSwept, storeVars
<1>5. ASSUME NEW n \in Names, ClErase(n) PROVE WellFormed'
  <2> DEFINE s == active[n]
             others == (Registered \ {s}) \cup ev.refs \cup {ak.sess}
  <2>1. s \in SessionIds
    BY <1>0, <1>5 DEF ClErase, ClRefsOK
  <2>2. CASE ReleaseTerminates(s, others)
    BY <2>1, <2>2, RestartOK, PersistTypes DEF ReleaseTerminates
  <2>3. CASE /\ active' = [active EXCEPT ![n] = NoSession]
             /\ Release(s, others)
             /\ cl' = [cl EXCEPT !.gone = @ \ {n}]
             /\ ClFrame
             /\ UNCHANGED <<correlations, outbox, registry>>
    <3>1. Grown(messages, messages') /\ sessions' \in [SessionIds -> Session]
      BY <2>1, <2>3, ReleaseTypes
    <3>2. SessionsTypeOK'
      BY <1>b, <2>3, <3>1 DEF TypeOK, SessionsTypeOK
    <3>3. cl' \in ClState
      BY <1>0, <2>3 DEF ClState
    <3>4. ClRefsOK'
      BY <1>0, <1>b, <1>5, <2>3 DEF ClErase, ClState, ClRefsOK
    <3> QED
      BY <1>b, <2>3, <3>1, <3>2, <3>3, <3>4, ClChanges
  <2> QED
    BY <1>5, <2>2, <2>3 DEF ClErase
<1>6. CASE ClEnd
  <2>1. cl' \in ClState
    BY <1>0, <1>6 DEF ClEnd, IdleCl, ClState, ClPCs
  <2>2. ClRefsOK'
    BY <1>0, <1>6 DEF ClEnd, IdleCl, ClState, ClRefsOK, sessVars
  <2> QED
    BY <1>a, <1>b, <1>6, <2>1, <2>2, ClChanges DEF ClEnd, storeVars
<1> QED
  BY <1>1, <1>2, <1>3, <1>4, <1>5, <1>6 DEF ClStep

-----------------------------------------------------------------------------
(* The send queue, and the theorem *)

\* The send queue without its i-th entry.
LEMMA OutboxWithout ==
  ASSUME NEW o \in Seq(PendingSend), NEW i \in DOMAIN o
  PROVE  SubSeq(o, 1, i - 1) \o SubSeq(o, i + 1, Len(o)) \in Seq(PendingSend)
<1>1. i \in 1..Len(o) /\ Len(o) \in Nat
  BY LenProperties
<1>2. SubSeq(o, 1, i - 1) \in Seq(PendingSend)
  BY <1>1, SubSeqProperties
<1>3. SubSeq(o, i + 1, Len(o)) \in Seq(PendingSend)
  BY <1>1, SubSeqProperties
<1> QED
  BY <1>2, <1>3, ConcatProperties

LEMMA TransmitOK == WellFormed /\ Transmit => WellFormed'
<1> SUFFICES ASSUME WellFormed, NEW i \in DOMAIN outbox,
                    TransmitDelivered(i) \/ TransmitDropped(i) \/ TransmitFailed(i)
             PROVE  WellFormed'
  BY DEF Transmit
<1> USE DEF WellFormed
<1>1. Transmitted(i)
  BY DEF TransmitDelivered, TransmitDropped, TransmitFailed
<1>2. outbox[i] \in PendingSend
  <2>1. outbox \in Seq(PendingSend)
    BY DEF TypeOK, SessionsTypeOK
  <2> QED
    BY <2>1, ElementOfSeq, LenProperties
<1>3. outbox[i].sess \in SessionIds /\ outbox[i].msg \in Message
  BY <1>2 DEF PendingSend
<1>4. outbox' \in Seq(PendingSend)
  BY <1>1, OutboxWithout DEF Transmitted, TypeOK, SessionsTypeOK
<1>5. sessions' \in [SessionIds -> Session]
  BY <1>3, SessionUpdates
     DEF TransmitDelivered, TransmitDropped, TransmitFailed, TypeOK, SessionsTypeOK
<1>6. SessionsTypeOK'
  BY <1>1, <1>4, <1>5 DEF Transmitted, TypeOK, SessionsTypeOK
<1>7. received' \subseteq Reception
  <2>1. sessions[outbox[i].sess].name \in Names \cup {NoName}
    BY <1>3 DEF TypeOK, SessionsTypeOK, Session
  <2>2. CASE TransmitDelivered(i)
    BY <1>3, <2>1, <2>2 DEF TransmitDelivered, TypeOK, AuxTypeOK, Reception
  <2>3. CASE UNCHANGED received
    BY <2>3 DEF TypeOK, AuxTypeOK
  <2> QED
    BY <2>2, <2>3 DEF TransmitDropped, TransmitFailed
<1>8. AuxTypeOK'
  BY <1>1, <1>3, <1>7 DEF Transmitted, TypeOK, AuxTypeOK
<1>9. StorageTypeOK' /\ EvRefsOK' /\ AkRefsOK' /\ ClRefsOK'
  BY <1>1 DEF Transmitted, storeVars, TypeOK, StorageTypeOK, EvRefsOK,
              AkRefsOK, ClRefsOK
<1> QED
  BY <1>1, <1>6, <1>8, <1>9 DEF Transmitted, TypeOK

LEMMA InitWellFormed == Init => WellFormed
<1> SUFFICES ASSUME Init PROVE WellFormed
  OBVIOUS
<1> USE DEF Init
<1>1. StorageTypeOK
  BY EmptySeq DEF StorageInit, StorageTypeOK
<1>2. SessionsTypeOK
  BY EmptySeq DEF SessionsInit, SessionsTypeOK, Session, Unborn
<1>3. ev \in EvState /\ EvRefsOK
  BY DEF IdleEv, EvState, EvPCs, DefaultMessage, Message, Types, Flags,
         EvRefsOK, EvSending
<1>4. ak \in AkState /\ AkRefsOK
  BY DEF IdleAk, AkState, AkPCs, AkRefsOK, AkSending
<1>5. cl \in ClState /\ ClRefsOK
  BY DEF IdleCl, ClState, ClPCs, ClRefsOK
<1>6. AuxTypeOK
  BY DEF AuxTypeOK
<1> QED
  BY <1>1, <1>2, <1>3, <1>4, <1>5, <1>6 DEF WellFormed, TypeOK

LEMMA StepWellFormed == WellFormed /\ [Next]_vars => WellFormed'
<1> SUFFICES ASSUME WellFormed, [Next]_vars PROVE WellFormed'
  OBVIOUS
<1>1. CASE \E m \in Requests : Receive(m)
  BY <1>1, EvOuterOK
<1>2. CASE EvStep
  BY <1>2, EvStepOK
<1>3. CASE AkLoad \/ AkStep
  BY <1>3, AkOK
<1>4. CASE ClStart \/ ClStep
  BY <1>4, ClOK
<1>5. CASE Transmit
  BY <1>5, TransmitOK
<1>6. CASE Crash
  BY <1>6, RestartOK DEF Crash, Grown, WellFormed, TypeOK, StorageTypeOK
<1>7. CASE UNCHANGED vars
  BY <1>7
     DEF vars, storeVars, sessVars, auxVars, WellFormed, TypeOK, StorageTypeOK,
         SessionsTypeOK, AuxTypeOK, EvRefsOK, AkRefsOK, ClRefsOK
<1> QED
  BY <1>1, <1>2, <1>3, <1>4, <1>5, <1>6, <1>7 DEF Next

\* Types are kept, and no handler uses a row that is not in the store or a
\* session that is not there, whatever threads, crashes and failing writes do.
THEOREM BrokerTypes == Spec => []TypeOK
<1>1. WellFormed => TypeOK
  BY DEF WellFormed
<1> QED
  BY <1>1, InitWellFormed, StepWellFormed, PTL DEF Spec

-----------------------------------------------------------------------------
(* The table messages *)

\* u is t after a step that can make only the rows of `done` DELIVERED: no row
\* goes, none changes its message, DELIVERED is final.
Later(t, u, done) ==
  /\ Grown(t, u)
  /\ \A i \in DOMAIN t :
       /\ u[i].msg = t[i].msg
       /\ t[i].status = "DELIVERED" => u[i].status = "DELIVERED"
       /\ u[i].status = "DELIVERED" => t[i].status = "DELIVERED" \/ i \in done

\* Nothing happens.
LEMMA SameRows ==
  ASSUME NEW t \in Seq(Row)
  PROVE  Later(t, t, {})
BY DEF Later, Grown

\* UPDATE keeps the messages of all rows and the status of all but one.
LEMMA UpdateRows ==
  ASSUME NEW t \in Seq(Row), NEW id, NEW from, NEW to \in Status
  PROVE  /\ Grown(t, Update(t, id, from, to))
         /\ DOMAIN Update(t, id, from, to) = DOMAIN t
         /\ \A i \in DOMAIN t :
              /\ Update(t, id, from, to)[i].msg = t[i].msg
              /\ Update(t, id, from, to)[i].status =
                   IF i = id /\ t[i].status \in from THEN to ELSE t[i].status
<1>1. Grown(t, Update(t, id, from, to))
  BY UpdateGrown
<1>2. DOMAIN Update(t, id, from, to) = DOMAIN t
  BY DEF Update
<1>3. ASSUME NEW i \in DOMAIN t
      PROVE  /\ Update(t, id, from, to)[i].msg = t[i].msg
             /\ Update(t, id, from, to)[i].status =
                  IF i = id /\ t[i].status \in from THEN to ELSE t[i].status
  BY DEF Update
<1> QED
  BY <1>1, <1>2, <1>3

\* Only MarkDelivered makes a row DELIVERED, and none takes it back.
LEMMA MarkRows ==
  ASSUME NEW t \in Seq(Row), NEW id
  PROVE  /\ Later(t, MarkDelivered(t, id), {id})
         /\ Later(t, MarkSent(t, id), {})
         /\ Later(t, MarkPending(t, id), {})
         /\ DOMAIN MarkDelivered(t, id) = DOMAIN t
         /\ DOMAIN MarkSent(t, id) = DOMAIN t
         /\ DOMAIN MarkPending(t, id) = DOMAIN t
<1>1. /\ Later(t, MarkDelivered(t, id), {id})
      /\ DOMAIN MarkDelivered(t, id) = DOMAIN t
  BY UpdateRows DEF MarkDelivered, Later, Status
<1>2. Later(t, MarkSent(t, id), {}) /\ DOMAIN MarkSent(t, id) = DOMAIN t
  BY UpdateRows DEF MarkSent, Later, Status
<1>3. Later(t, MarkPending(t, id), {}) /\ DOMAIN MarkPending(t, id) = DOMAIN t
  BY UpdateRows DEF MarkPending, Later, Status
<1> QED
  BY <1>1, <1>2, <1>3

\* SaveMessage adds one PENDING row.
LEMMA SaveRows ==
  ASSUME NEW t \in Seq(Row), NEW m \in Message
  PROVE  /\ Later(t, SaveMessage(t, m), {})
         /\ DOMAIN SaveMessage(t, m) = DOMAIN t \cup {Len(t) + 1}
         /\ SaveMessage(t, m)[Len(t) + 1] = [msg |-> m, status |-> "PENDING"]
<1> DEFINE r == [msg |-> m, status |-> "PENDING"]
<1>1. r \in Row
  BY DEF Row, Status
<1> HIDE DEF r
<1>2. /\ Append(t, r) \in Seq(Row)
      /\ Len(Append(t, r)) = Len(t) + 1
      /\ \A i \in 1..Len(t) : Append(t, r)[i] = t[i]
      /\ Append(t, r)[Len(t) + 1] = r
  BY <1>1, AppendProperties
<1>3. DOMAIN t = 1..Len(t) /\ Len(t) \in Nat
  BY LenProperties
<1>4. DOMAIN Append(t, r) = 1..(Len(t) + 1)
  BY <1>2, LenProperties
<1>5. SaveMessage(t, m) = Append(t, r)
  BY DEF SaveMessage, r
<1>6. Grown(t, SaveMessage(t, m))
  BY SaveGrown
<1>7. DOMAIN SaveMessage(t, m) = DOMAIN t \cup {Len(t) + 1}
  BY <1>3, <1>4, <1>5
<1>8. \A i \in DOMAIN t : SaveMessage(t, m)[i] = t[i]
  BY <1>2, <1>3, <1>5
<1> QED
  BY <1>2, <1>5, <1>6, <1>7, <1>8 DEF Later, r

\* The message PersistMessageForClient stores for m.
Copy(m, name) == [m EXCEPT !.dest = name]

\* Persisting the first n messages of q adds a PENDING row for each, with the
\* name of the session as its destination.
LEMMA PersistedRows ==
  ASSUME NEW t \in Seq(Row), NEW name \in Names \cup {NoName},
         NEW q \in Seq(Message), NEW n \in 0..Len(q)
  PROVE  LET u == Persisted(t, name, q, n)
         IN  /\ Later(t, u, {})
             /\ \A i \in DOMAIN u \ DOMAIN t :
                  /\ u[i].status = "PENDING"
                  /\ \E k \in DOMAIN q : u[i].msg = Copy(q[k], name)
<1> DEFINE r(k) == [msg |-> [q[k] EXCEPT !.dest = name], status |-> "PENDING"]
           p == [k \in 1..n |-> r(k)]
           u == Persisted(t, name, q, n)
<1>1. Len(q) \in Nat /\ DOMAIN q = 1..Len(q) /\ n \in Nat
  BY LenProperties
<1>2. \A k \in 1..n : r(k) \in Row
  <2> SUFFICES ASSUME NEW k \in 1..n PROVE r(k) \in Row
    OBVIOUS
  <2>1. q[k] \in Message
    BY <1>1, ElementOfSeq
  <2>2. [q[k] EXCEPT !.dest = name] \in Message
    BY <2>1 DEF Message
  <2> QED
    BY <2>2 DEF Row, Status
<1> HIDE DEF r
<1>3. p \in Seq(Row) /\ DOMAIN p = 1..n
  BY <1>1, <1>2, IsASeq
<1>4. Len(p) = n
  BY <1>1, <1>3, LenProperties
<1> HIDE DEF p
<1>5. u = t \o p
  BY DEF Persisted, p, r
<1> HIDE DEF u
<1>6. /\ u \in Seq(Row) /\ Len(u) = Len(t) + n
      /\ \A i \in 1..Len(t) : u[i] = t[i]
      /\ \A i \in (Len(t) + 1)..Len(u) : u[i] = p[i - Len(t)]
  <2>1. /\ t \o p \in Seq(Row)
        /\ Len(t \o p) = Len(t) + Len(p)
        /\ \A i \in 1..Len(t) + Len(p) :
             (t \o p)[i] = IF i <= Len(t) THEN t[i] ELSE p[i - Len(t)]
    BY <1>3, ConcatProperties
  <2>2. Len(t) \in Nat
    BY LenProperties
  <2> QED
    BY <1>1, <1>4, <1>5, <2>1, <2>2
<1>7. Len(t) \in Nat /\ DOMAIN t = 1..Len(t) /\ DOMAIN u = 1..Len(u)
  BY <1>6, LenProperties
<1>8. Later(t, u, {})
  <2>1. DOMAIN t \subseteq DOMAIN u
    BY <1>1, <1>6, <1>7
  <2>2. \A i \in DOMAIN t : u[i] = t[i]
    BY <1>6, <1>7
  <2>3. Grown(t, u)
    BY <1>6, <2>1 DEF Grown
  <2> QED
    BY <2>2, <2>3, Zenon DEF Later
<1>9. ASSUME NEW i \in DOMAIN u \ DOMAIN t
      PROVE  /\ u[i].status = "PENDING"
             /\ \E k \in DOMAIN q : u[i].msg = Copy(q[k], name)
  <2>1. i \in (Len(t) + 1)..Len(u) /\ i - Len(t) \in 1..n
    BY <1>1, <1>6, <1>7
  <2>2. PICK k \in 1..n : k = i - Len(t)
    BY <2>1
  <2>3. u[i] = p[k]
    BY <1>6, <2>1, <2>2
  <2>4. p[k] = r(k)
    BY DEF p
  <2>5. k \in DOMAIN q
    BY <1>1
  <2> QED
    BY <2>3, <2>4, <2>5 DEF r, Copy
<1> QED
  BY <1>8, <1>9 DEF u

-----------------------------------------------------------------------------
(* DELIVERED is final *)

\* What a step can do to the table: add a row, persist a queue, update a row.
RowsStep ==
  \/ messages' = messages
  \/ \E m \in Message : messages' = SaveMessage(messages, m)
  \/ \E name \in Names \cup {NoName}, q \in Seq(Message) :
       \E n \in 0..Len(q) : messages' = Persisted(messages, name, q, n)
  \/ \E id \in Nat : \/ messages' = MarkDelivered(messages, id)
                     \/ messages' = MarkSent(messages, id)
                     \/ messages' = MarkPending(messages, id)

LEMMA RowsLater ==
  ASSUME TypeOK, RowsStep
  PROVE  \E done : Later(messages, messages', done)
<1>1. messages \in Seq(Row)
  BY DEF TypeOK, StorageTypeOK
<1>2. ASSUME NEW name \in Names \cup {NoName}, NEW q \in Seq(Message),
             NEW n \in 0..Len(q), messages' = Persisted(messages, name, q, n)
      PROVE  Later(messages, messages', {})
  BY <1>1, <1>2, PersistedRows
<1>3. ASSUME NEW m \in Message, messages' = SaveMessage(messages, m)
      PROVE  Later(messages, messages', {})
  BY <1>1, <1>3, SaveRows
<1>4. ASSUME NEW id \in Nat, \/ messages' = MarkDelivered(messages, id)
                             \/ messages' = MarkSent(messages, id)
                             \/ messages' = MarkPending(messages, id)
      PROVE  \E done : Later(messages, messages', done)
  <2>1. /\ Later(messages, MarkDelivered(messages, id), {id})
        /\ Later(messages, MarkSent(messages, id), {})
        /\ Later(messages, MarkPending(messages, id), {})
    BY <1>1, MarkRows
  <2> QED
    BY <1>4, <2>1, Zenon
<1>5. ASSUME messages' = messages PROVE Later(messages, messages', {})
  BY <1>1, <1>5, SameRows
<1> QED
  BY <1>2, <1>3, <1>4, <1>5 DEF RowsStep

\* Sending, persisting and destroying sessions.
LEMMA SessionRows ==
  ASSUME TypeOK, NEW s \in SessionIds
  PROVE  /\ \A m \in Message : SendMessage(s, m) => RowsStep
         /\ PersistQueue(s) => RowsStep
         /\ \A n \in 0..Len(sessions[s].queue) :
              PersistQueueThrows(s, n) => RowsStep
         /\ \A refs : Release(s, refs) => RowsStep
         /\ \A refs : ReleaseTerminates(s, refs) => RowsStep
<1>0. /\ sessions[s].queue \in Seq(Message)
      /\ sessions[s].name \in Names \cup {NoName}
      /\ Len(sessions[s].queue) \in 0..Len(sessions[s].queue)
  BY LenProperties DEF TypeOK, SessionsTypeOK, Session
<1>1. ASSUME NEW m \in Message, SendMessage(s, m) PROVE RowsStep
  <2>1. CASE messages' = messages
    BY <2>1 DEF RowsStep
  <2>2. CASE EnqueueMessage(s, m)
    <3> DEFINE q == Append(sessions[s].queue, m)
               n == IF Len(q) > Threshold THEN Len(q) \div 2 ELSE 0
    <3>1. q \in Seq(Message) /\ Len(q) \in Nat
      BY <1>0, AppendProperties, LenProperties
    <3>2. messages' = Persisted(messages, sessions[s].name, q, n)
      BY <2>2 DEF EnqueueMessage
    <3>3. n \in 0..Len(q)
      <4> HIDE DEF q
      <4> QED
        BY <3>1
    <3> HIDE DEF q, n
    <3> QED
      BY <1>0, <3>1, <3>2, <3>3 DEF RowsStep
  <2> QED
    BY <1>1, <2>1, <2>2 DEF SendMessage
<1>2. PersistQueue(s) => RowsStep
  BY <1>0 DEF PersistQueue, RowsStep
<1>3. ASSUME NEW n \in 0..Len(sessions[s].queue), PersistQueueThrows(s, n)
      PROVE  RowsStep
  BY <1>0, <1>3 DEF PersistQueueThrows, RowsStep
<1>4. ASSUME NEW refs, Release(s, refs) PROVE RowsStep
  BY <1>2, <1>4 DEF Release, Destroy, RowsStep
<1>5. ASSUME NEW refs, ReleaseTerminates(s, refs) PROVE RowsStep
  BY <1>3, <1>5 DEF ReleaseTerminates
<1> QED
  BY <1>1, <1>2, <1>3, <1>4, <1>5

\* The actions of the event callback that add to the table or update a row.
LEMMA EvRows == WellFormed /\ EvStep => RowsStep
<1> SUFFICES ASSUME WellFormed, EvStep PROVE RowsStep
  OBVIOUS
<1>0. TypeOK /\ ev.id \in Nat /\ ev.msg \in Message
  BY DEF WellFormed, TypeOK, EvState
<1>1. ASSUME NEW s \in SessionIds, EvRelease(s) PROVE RowsStep
  BY <1>0, <1>1, SessionRows DEF EvRelease
<1>2. ASSUME messages' = messages PROVE RowsStep
  BY <1>2 DEF RowsStep
<1>3. ASSUME NEW m \in Message, messages' = SaveMessage(messages, m)
      PROVE  RowsStep
  BY <1>3 DEF RowsStep
<1>4. ASSUME NEW id \in Nat, \/ messages' = MarkDelivered(messages, id)
                             \/ messages' = MarkSent(messages, id)
                             \/ messages' = MarkPending(messages, id)
      PROVE  RowsStep
  BY <1>4 DEF RowsStep
<1>5. CASE EvReturn
  BY <1>2, <1>5 DEF EvReturn, storeVars
<1>6. CASE EvUpsert
  <2> DEFINE old == FindSession(ev.msg.sender)
             q == IF old = NoSession THEN <<>> ELSE sessions[old].queue
  <2>1. q \in Seq(Message)
    <3>1. old = NoSession \/ old \in SessionIds
      BY <1>0, FoundSession
    <3> QED
      BY <1>0, <3>1, EmptySeq DEF TypeOK, SessionsTypeOK, Session
  <2>2. ev.msg.sender \in Names \cup {NoName}
    BY <1>0 DEF Message
  <2>3. Len(q) \in 0..Len(q)
    BY <2>1, LenProperties
  <2>4. CASE messages' = Persisted(messages, ev.msg.sender, q, Len(q))
    <3> HIDE DEF q
    <3> QED
      BY <2>1, <2>2, <2>3, <2>4 DEF RowsStep
  <2>5. CASE old # NoSession /\ \E n \in 0..Len(q) : PersistQueueThrows(old, n)
    <3>1. old \in SessionIds /\ q = sessions[old].queue
      BY <1>0, <2>5, FoundSession
    <3> HIDE DEF q, old
    <3> QED
      BY <1>0, <2>5, <3>1, SessionRows
  <2> QED
    BY <1>6, <2>4, <2>5 DEF EvUpsert
<1>7. CASE EvOffLoad \/ EvRepLoad \/ EvOffFlush
  BY <1>2, <1>7 DEF EvOffLoad, EvRepLoad, EvOffFlush, storeVars
<1>8. CASE EvOffNext \/ EvRepNext
  <2>1. ev.todo \subseteq Nat
    BY DEF WellFormed, TypeOK, EvState
  <2>2. CASE messages' = messages
    BY <1>2, <2>2
  <2>3. CASE \E i \in ev.todo : messages' = MarkSent(messages, i)
    BY <1>4, <2>1, <2>3
  <2> QED
    BY <1>8, <2>2, <2>3 DEF EvOffNext, EvRepNext, EvThrows
<1>9. CASE EvOffSend \/ EvRepSend
  <2>1. ev.sess \in SessionIds /\ ev.id \in DOMAIN messages
    BY <1>9 DEF EvOffSend, EvRepSend, WellFormed, EvRefsOK, EvSending
  <2>2. messages[ev.id].msg \in Message
    BY <1>0, <2>1, RowMessage
  <2> QED
    BY <1>0, <1>9, <2>1, <2>2, SessionRows DEF EvOffSend, EvRepSend
<1>10. CASE EvOffDone \/ EvRepDone
  BY <1>0, <1>2, <1>4, <1>10 DEF EvOffDone, EvRepDone, EvThrows
<1>11. CASE EvFind
  BY <1>2, <1>11 DEF EvFind, storeVars
<1>12. CASE EvSave
  BY <1>0, <1>2, <1>3, <1>12 DEF EvSave, EvThrows
<1>13. CASE EvCorr \/ EvReplyCorr
  BY <1>2, <1>13 DEF EvCorr, EvReplyCorr
<1>14. CASE EvSend \/ EvReplySend
  <2>1. ev.sess \in SessionIds
    BY <1>14 DEF EvSend, EvReplySend, WellFormed, EvRefsOK, EvSending
  <2> QED
    BY <1>0, <1>14, <2>1, SessionRows DEF EvSend, EvReplySend
<1>15. CASE EvMark
  BY <1>0, <1>2, <1>4, <1>15 DEF EvMark, EvThrows
<1>16. CASE EvReplySave
  <2> DEFINE reply(to) == [ev.msg EXCEPT !.dest = IF to = NoName THEN @ ELSE to]
  <2>1. CASE EvThrows
    BY <1>2, <2>1 DEF EvThrows
  <2>2. ASSUME NEW to, to \in Names \cup {NoName},
               messages' = SaveMessage(messages, reply(to))
        PROVE  RowsStep
    <3>1. reply(to) \in Message
      BY <1>0, <2>2 DEF Message
    <3> HIDE DEF reply
    <3> QED
      BY <1>3, <2>2, <3>1
  <2>3. ASSUME NEW to \in {r.owner : r \in
                 FindByCorrelation(correlations, ev.msg.corr)} \cup {NoName}
        PROVE  to \in Names \cup {NoName}
    BY <1>0 DEF FindByCorrelation, TypeOK, StorageTypeOK, Correlation
  <2> QED
    BY <1>16, <2>1, <2>2, <2>3 DEF EvReplySave
<1>17. CASE EvReplyFind
  BY <1>2, <1>17 DEF EvReplyFind, storeVars
<1>18. CASE EvReplySent \/ EvReplyMark
  BY <1>0, <1>2, <1>4, <1>18 DEF EvReplySent, EvReplyMark
<1>19. CASE EvReplyRollback
  BY <1>0, <1>2, <1>4, <1>19 DEF EvReplyRollback
<1>20. CASE EvAckLook \/ EvAckNotify \/ EvAckReceived
  BY <1>2, <1>20 DEF EvAckLook, EvAckNotify, EvAckReceived, storeVars
<1>21. CASE EvAckDeliver
  BY <1>0, <1>2, <1>4, <1>21 DEF EvAckDeliver, EvThrows
<1>22. AckNotification \in Message
  BY <1>0 DEF AckNotification, Message, Types, WellFormed, TypeOK, EvState
<1>23. CASE EvAckSend
  <2>1. ev.sess \in SessionIds
    BY <1>23 DEF EvAckSend, WellFormed, EvRefsOK, EvSending
  <2> QED
    BY <1>0, <1>22, <1>23, <2>1, SessionRows DEF EvAckSend
<1>24. CASE EvAckSave
  BY <1>2, <1>3, <1>22, <1>24 DEF EvAckSave, EvThrows
<1>25. CASE EvUnregFind \/ EvUnregRemove
  BY <1>2, <1>25 DEF EvUnregFind, EvUnregRemove, storeVars
<1>26. CASE EvUnregPersist
  <2>1. ev.sess \in SessionIds
    BY <1>26 DEF EvUnregPersist, WellFormed, EvRefsOK
  <2> QED
    BY <1>0, <1>26, <2>1, SessionRows DEF EvUnregPersist
<1> QED
  BY <1>1, <1>5, <1>6, <1>7, <1>8, <1>9, <1>10, <1>11, <1>12, <1>13, <1>14,
     <1>15, <1>16, <1>17, <1>18, <1>19, <1>20, <1>21, <1>23, <1>24, <1>25,
     <1>26
     DEF EvStep, EvRegister, EvMessage, EvReply, EvAck, EvUnregister

\* The timers.
LEMMA TimerRows ==
  WellFormed /\ (AkLoad \/ AkStep \/ ClStart \/ ClStep) => RowsStep
<1> SUFFICES ASSUME WellFormed, AkLoad \/ AkStep \/ ClStart \/ ClStep
             PROVE  RowsStep
  OBVIOUS
<1>0. TypeOK /\ ak.id \in Nat /\ ak.todo \subseteq Nat
  BY DEF WellFormed, TypeOK, AkState
<1>1. ASSUME messages' = messages PROVE RowsStep
  BY <1>1 DEF RowsStep
<1>2. ASSUME NEW id \in Nat, \/ messages' = MarkSent(messages, id)
                             \/ messages' = MarkPending(messages, id)
      PROVE  RowsStep
  BY <1>2 DEF RowsStep
<1>3. CASE AkLoad \/ AkFind \/ AkTerminates
  BY <1>1, <1>3 DEF AkLoad, AkFind, AkTerminates, AkThrows, storeVars
<1>4. CASE AkNext
  BY <1>0, <1>1, <1>2, <1>4 DEF AkNext
<1>5. CASE AkSent
  BY <1>0, <1>2, <1>5 DEF AkSent
<1>6. CASE AkSend
  <2>1. ak.sess \in SessionIds /\ ak.id \in DOMAIN messages
    BY <1>6 DEF AkSend, WellFormed, AkRefsOK, AkSending
  <2>2. messages[ak.id].msg \in Message
    BY <1>0, <2>1, RowMessage
  <2> QED
    BY <1>0, <1>6, <2>1, <2>2, SessionRows DEF AkSend
<1>7. CASE AkRelease
  <2>1. ak.sess \in SessionIds
    BY <1>7 DEF AkRelease, WellFormed, AkRefsOK
  <2> QED
    BY <1>0, <1>7, <2>1, SessionRows DEF AkRelease
<1>8. CASE ClStart \/ ClSwept \/ ClEnd
  BY <1>1, <1>8 DEF ClStart, ClSwept, ClEnd, storeVars
<1>9. ASSUME NEW n \in Names, ClVisit(n) PROVE RowsStep
  BY <1>1, <1>9 DEF ClVisit, storeVars
<1>10. CASE ClPersist
  <2>1. active[cl.cur] \in SessionIds
    BY <1>10 DEF ClPersist, WellFormed, ClRefsOK
  <2> QED
    BY <1>0, <1>10, <2>1, SessionRows DEF ClPersist
<1>11. ASSUME NEW n \in Names, ClErase(n) PROVE RowsStep
  <2>1. active[n] \in SessionIds
    BY <1>11 DEF ClErase, WellFormed, ClRefsOK
  <2> QED
    BY <1>0, <1>11, <2>1, SessionRows DEF ClErase
<1> QED
  BY <1>3, <1>4, <1>5, <1>6, <1>7, <1>8, <1>9, <1>10, <1>11
     DEF AkStep, ClStep

LEMMA StepRows == WellFormed /\ [Next]_vars => RowsStep
<1>1. ASSUME \/ \E m \in Requests : Receive(m)
             \/ Transmit
             \/ Crash
             \/ UNCHANGED vars
      PROVE  RowsStep
  BY <1>1 DEF Receive, Transmit, TransmitDelivered, TransmitDropped,
              TransmitFailed, Transmitted, Crash, vars, storeVars, RowsStep
<1> QED
  BY <1>1, EvRows, TimerRows DEF Next

\* No row goes, none changes its message, and DELIVERED is final, whichever of
\* a late acknowledgement, a retry and a rollback comes last.
THEOREM DeliveredStays == Spec => DeliveredIsFinal
<1>1. WellFormed /\ [Next]_vars =>
        [\A i \in DOMAIN messages :
           /\ i \in DOMAIN messages'
           /\ messages'[i].msg = messages[i].msg
           /\ messages[i].status = "DELIVERED" =>
                messages'[i].status = "DELIVERED"]_vars
  <2> SUFFICES ASSUME WellFormed, [Next]_vars, NEW i \in DOMAIN messages
               PROVE  /\ i \in DOMAIN messages'
                      /\ messages'[i].msg = messages[i].msg
                      /\ messages[i].status = "DELIVERED" =>
                           messages'[i].status = "DELIVERED"
    OBVIOUS
  <2>1. PICK done : Later(messages, messages', done)
    BY StepRows, RowsLater DEF WellFormed
  <2> QED
    BY <2>1 DEF Later, Grown
<1> QED
  BY <1>1, InitWellFormed, StepWellFormed, PTL DEF Spec, DeliveredIsFinal
=============================================================================
