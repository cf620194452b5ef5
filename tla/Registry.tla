------------------------------ MODULE Registry ------------------------------
(***************************************************************************)
(* The registry of the router (router.cpp): active_clients_, which holds   *)
(* the session of every name, and identity_to_name_, by which a message    *)
(* that arrives on a connection finds the session to keep alive.  The two  *)
(* maps are changed together under registry_mutex_, but by different keys. *)
(*                                                                         *)
(* Nothing ties a name to a routing id: a client may come back under       *)
(* another id, register two names on one connection, or name another       *)
(* client in what it sends.  Module Broker, in which a client's id is its  *)
(* name, needs only active_clients_; here are both maps, the clock that    *)
(* CleanupInactiveSessions reads, and the counters the registry keeps.     *)
(*                                                                         *)
(* Data abstraction: the age of a session stands for now - last_receive_   *)
(* and stops growing when it is past the timeout.                          *)
(***************************************************************************)
EXTENDS Naturals, FiniteSets

CONSTANTS
  Ids,        \* ZeroMQ routing ids
  Names,      \* the logical names of clients
  NoName,     \* no name
  NoSession,  \* the null shared_ptr
  Timeout,    \* SessionTimeout; 0 is never
  MaxRegs     \* a bound on the registrations that are counted

ASSUME RegistryAssumption ==
  /\ NoName \notin Names
  /\ NoSession \notin [id: Ids, online: BOOLEAN, age: Nat]
  /\ IsFiniteSet(Names)
  /\ Timeout \in Nat
  /\ MaxRegs \in Nat

VARIABLES
  byId,       \* identity_to_name_
  active,     \* active_clients_
  ev,         \* the message RouteMessage has a handler at work on
  metrics,    \* is metrics_ set?  In the server it is, in unit tests not
  stuck,      \* is registry_mutex_ locked for ever?
  local,      \* clients_registered_, clients_unregistered_, clients_timeout_
  published,  \* what the updater has added to the counters of Prometheus
  gauge,      \* active_sessions_
  quiet,      \* auxiliary: how long nothing came from each id
  used        \* auxiliary: the names each id has registered

regVars == <<byId, active>>
countVars == <<local, published, gauge>>
vars == <<regVars, ev, metrics, stuck, countVars, quiet, used>>

Age == 0..(Timeout + 1)
Session == [id: Ids, online: BOOLEAN, age: Age]
Counters == {"registered", "unregistered", "timeout"}

Idle == [kind |-> "none"]
Kinds == {"Register", "Message", "Unregister", "Remove"}

Init ==
  /\ byId = [i \in Ids |-> NoName]
  /\ active = [n \in Names |-> NoSession]
  /\ ev = Idle
  /\ metrics \in BOOLEAN
  /\ stuck = FALSE
  /\ local = [c \in Counters |-> 0]
  /\ published = [c \in Counters |-> 0]
  /\ gauge = 0
  /\ quiet = [i \in Ids |-> 0]
  /\ used = [i \in Ids |-> {}]

Active == {n \in Names : active[n] # NoSession}

\* UpdateLastReceive of the session registered under n, if there is one.
Refreshed(n) ==
  IF n \in Active THEN [active EXCEPT ![n].age = 0] ELSE active

\* metrics_ is told of events and of the number of sessions there are now.
Count(events) ==
  local' = IF metrics THEN [c \in Counters |-> local[c] + events[c]] ELSE local

Gauge == gauge' = IF metrics THEN Cardinality(Active') ELSE gauge

Total(c) == local[c] + published[c]

-----------------------------------------------------------------------------

\* A message arrives on i and RouteMessage looks for its sender's session by
\* the routing id.  What the handler needs is a name: that of the sender, or
\* of the destination.
Receive(i, kind, n) ==
  /\ ev = Idle
  /\ ~stuck
  /\ (kind = "Register" /\ metrics) => Total("registered") < MaxRegs
  /\ active' = Refreshed(byId[i])
  /\ ev' = [kind |-> kind, id |-> i, name |-> n]
  /\ quiet' = [quiet EXCEPT ![i] = 0]
  /\ UNCHANGED <<byId, metrics, stuck, countVars, used>>

\* Replies, acknowledgements, what no handler takes and what a failing write to
\* the database cuts short change nothing here.
ReceiveOther(i) ==
  /\ ev = Idle
  /\ ~stuck
  /\ active' = Refreshed(byId[i])
  /\ quiet' = [quiet EXCEPT ![i] = 0]
  /\ UNCHANGED <<byId, ev, metrics, stuck, countVars, used>>

\* ids without the id of the session that is to be replaced, whoever has it.
Erased(ids) ==
  IF ev.name \in Active THEN [ids EXCEPT ![active[ev.name].id] = NoName]
  ELSE ids

NewSession == [id |-> ev.id, online |-> TRUE, age |-> 0]

\* RegisterHandler, given what becomes of the ids.  A session that replaces
\* another counts as registered and unregistered.
Register(ids, session) ==
  /\ ev.kind = "Register"
  /\ ~stuck
  /\ byId' = ids
  /\ active' = [active EXCEPT ![ev.name] = session]
  /\ Count([registered |-> 1, timeout |-> 0,
            unregistered |-> IF ev.name \in Active THEN 1 ELSE 0])
  /\ Gauge
  /\ used' = [used EXCEPT ![ev.id] = @ \cup {ev.name}]
  /\ ev' = Idle
  /\ UNCHANGED <<metrics, stuck, published, quiet>>

\* The id of the old session is erased last.
UpsertClient_EraseLast ==
  Register(Erased([byId EXCEPT ![ev.id] = ev.name]), NewSession)

\* The id of the old session stays.
UpsertClient_KeepOld == Register([byId EXCEPT ![ev.id] = ev.name], NewSession)

\* The session is made for the name of the client instead of its id.
UpsertClient_NameAsId ==
  Register([Erased(byId) EXCEPT ![ev.id] = ev.name],
           [NewSession EXCEPT !.id = ev.name])

UpsertClient ==
  Register([Erased(byId) EXCEPT ![ev.id] = ev.name], NewSession)

\* MessageHandler: a message to an online client counts as a sign of life of
\* the client it is sent to.
SendMessage ==
  /\ ev.kind = "Message"
  /\ ~stuck
  /\ active' = IF ev.name \in Active /\ active[ev.name].online
               THEN Refreshed(ev.name) ELSE active
  /\ ev' = Idle
  /\ UNCHANGED <<byId, metrics, stuck, countVars, quiet, used>>

\* UnregisterHandler finds the session and marks it offline,
FindUnregistered ==
  /\ ev.kind = "Unregister"
  /\ ~stuck
  /\ IF ev.name \in Active
     THEN /\ active' = [active EXCEPT ![ev.name].online = FALSE]
          /\ ev' = [ev EXCEPT !.kind = "Remove"]
     ELSE ev' = Idle /\ UNCHANGED active
  /\ UNCHANGED <<byId, metrics, stuck, countVars, quiet, used>>

\* then removes it, if cleanup has not done so meanwhile.
UnregisterClient ==
  /\ ev.kind = "Remove"
  /\ ~stuck
  /\ IF ev.name \in Active
     THEN /\ byId' = [byId EXCEPT ![active[ev.name].id] = NoName]
          /\ active' = [active EXCEPT ![ev.name] = NoSession]
          /\ Count([registered |-> 0, unregistered |-> 1, timeout |-> 0])
          /\ Gauge
     ELSE UNCHANGED <<byId, active, local, gauge>>
  /\ ev' = Idle
  /\ UNCHANGED <<metrics, stuck, published, quiet, used>>

\* The callback of a send that failed.
SendFails(n) ==
  /\ n \in Active
  /\ active[n].online
  /\ active' = [active EXCEPT ![n].online = FALSE]
  /\ UNCHANGED <<byId, ev, metrics, stuck, countVars, quiet, used>>

\* IsExpired, for a session that is online.
IsExpired(n) == Timeout > 0 /\ active[n].age > Timeout

Inactive == {n \in Active : ~active[n].online \/ IsExpired(n)}

\* The sessions of `gone` are removed with registry_mutex_ held to the end:
\* UpdateSessionMetrics asks for it again when there are metrics, and never gets
\* it.
Remove(gone) ==
  /\ ~stuck
  /\ gone # {}
  /\ byId' = [i \in Ids |->
       IF \E n \in gone : active[n].id = i THEN NoName ELSE byId[i]]
  /\ active' = [n \in Names |-> IF n \in gone THEN NoSession ELSE active[n]]
  /\ Count([registered |-> 0, unregistered |-> 0,
            timeout |-> Cardinality(gone)])
  /\ stuck' = metrics
  /\ UNCHANGED <<ev, metrics, published, gauge, quiet, used>>

\* A cleanup that leaves the sessions that went offline.
CleanupInactiveSessions_ExpiredOnly == Remove({n \in Active : IsExpired(n)})

CleanupInactiveSessions == Remove(Inactive)

\* A publication that leaves the counter as it was.
Publish_NoReset(c) ==
  /\ local[c] > 0
  /\ published[c] < MaxRegs
  /\ published' = [published EXCEPT ![c] = @ + local[c]]
  /\ UNCHANGED <<regVars, ev, metrics, stuck, local, gauge, quiet, used>>

\* UpdateMetrics, one counter at a time: exchange(0), then Increment.  The two are
\* one step, as only this thread writes what is published and nobody in the
\* broker reads it.
Publish(c) ==
  /\ local[c] > 0
  /\ published' = [published EXCEPT ![c] = @ + local[c]]
  /\ local' = [local EXCEPT ![c] = 0]
  /\ UNCHANGED <<regVars, ev, metrics, stuck, gauge, quiet, used>>

Older(age) == IF age > Timeout THEN age ELSE age + 1

\* A second passes.
Tick ==
  /\ active' = [n \in Names |-> IF n \in Active
                                THEN [active[n] EXCEPT !.age = Older(@)]
                                ELSE NoSession]
  /\ quiet' = [i \in Ids |-> Older(quiet[i])]
  /\ UNCHANGED <<byId, ev, metrics, stuck, countVars, used>>

Next ==
  \/ \E i \in Ids, n \in Names, kind \in Kinds \ {"Remove"} :
       Receive(i, kind, n)
  \/ \E i \in Ids : ReceiveOther(i)
  \/ UpsertClient
  \/ SendMessage
  \/ FindUnregistered
  \/ UnregisterClient
  \/ \E n \in Names : SendFails(n)
  \/ CleanupInactiveSessions
  \/ \E c \in Counters : Publish(c)
  \/ Tick

Spec == Init /\ [][Next]_vars

\* The cleanup timer fires time and again.
FairSpec == Spec /\ WF_vars(CleanupInactiveSessions)

-----------------------------------------------------------------------------
(* Properties *)

\* Every variable keeps its type.
TypeOK ==
  /\ byId \in [Ids -> Names \cup {NoName}]
  /\ active \in [Names -> Session \cup {NoSession}]
  /\ ev = Idle \/ ev \in [kind: Kinds, id: Ids, name: Names]
  /\ {metrics, stuck} \subseteq BOOLEAN
  /\ local \in [Counters -> Nat]
  /\ published \in [Counters -> Nat]
  /\ gauge \in Nat
  /\ quiet \in [Ids -> Age]
  /\ used \in [Ids -> SUBSET Names]

\* An id leads to a session of its own: whoever shares ids, changes them or
\* registers and unregisters names of others, a message keeps alive only a
\* session that was registered on the connection it came by.
OwnSession ==
  \A i \in Ids : byId[i] # NoName =>
    byId[i] \in Active /\ active[byId[i]].id = i

\* A session whose id nobody else ever registered on is never taken for more
\* silent than its client is, so cleanup does not expire a client that talks,
\* even while it registers again, from the same or another connection.
NeverStaler ==
  \A n \in Active : used[active[n].id] = {n} =>
    active[n].age <= quiet[active[n].id]

\* The counters account for every session, whatever part of them the updater
\* has published: a client that registered is active, unregistered (or was
\* replaced) or timed out.  The gauge agrees until the registry locks up.
CountersBalance ==
  metrics =>
    /\ Total("registered") =
         Cardinality(Active) + Total("unregistered") + Total("timeout")
    /\ stuck \/ gauge = Cardinality(Active)

\* A session that went offline or expired does not stay: it is removed, or its
\* client, or somebody who writes to its client, brings it back in time.
DeadSessionsGo ==
  \A n \in Names :
    (n \in Inactive) ~> (n \notin Inactive \/ stuck)
=============================================================================
