--------------------------- MODULE RegistryProofs ---------------------------
(***************************************************************************)
(* Proofs about module Registry, for every set of ids and names and every  *)
(* timeout: each variable keeps its type, an id leads to a session of its  *)
(* own, a talking client never looks silent, and the counters account for  *)
(* every session.                                                          *)
(***************************************************************************)
EXTENDS Registry, FiniteSetTheorems, TLAPS

-----------------------------------------------------------------------------
(* Types *)

\* A message in the hands of RouteMessage or of a handler.
LEMMA AtWork ==
  ASSUME TypeOK, ev.kind \in Kinds
  PROVE  ev \in [kind: Kinds, id: Ids, name: Names]
BY DEF TypeOK, Idle, Kinds

\* A session is not the null shared_ptr.
LEMMA SessionTypes ==
  /\ NoSession \notin Session
  /\ \A s \in Session : s.id \in Ids /\ s.online \in BOOLEAN /\ s.age \in Age
BY RegistryAssumption DEF Session, Age

\* A session that is found belongs to an id.
LEMMA ActiveSessions ==
  ASSUME TypeOK, NEW n \in Active
  PROVE  n \in Names /\ active[n] \in Session
BY DEF TypeOK, Active

\* A session after t seconds without a sign of life, and one marked offline.
Silent(s, t) == [s EXCEPT !.age = t]
Offline(s) == [s EXCEPT !.online = FALSE]

LEMMA SessionFields ==
  ASSUME NEW s \in Session
  PROVE  /\ \A t \in Age : /\ Silent(s, t) \in Session
                           /\ Silent(s, t).id = s.id
                           /\ Silent(s, t).age = t
         /\ Offline(s) \in Session
         /\ Offline(s).id = s.id
         /\ Offline(s).age = s.age
BY DEF Session, Silent, Offline

\* The sessions after one of them was kept alive or marked offline: it is the
\* only one to change, and it stays registered.
LEMMA SessionUpdates ==
  ASSUME TypeOK, NEW n \in Active
  PROVE  /\ [active EXCEPT ![n].age = 0] =
              [m \in Names |-> IF m = n THEN Silent(active[m], 0) ELSE active[m]]
         /\ [active EXCEPT ![n].online = FALSE] =
              [m \in Names |-> IF m = n THEN Offline(active[m]) ELSE active[m]]
<1>1. active \in [Names -> Session \cup {NoSession}]
  BY DEF TypeOK
<1>2. [active EXCEPT ![n].age = 0] =
        [m \in Names |-> IF m = n THEN [active[m] EXCEPT !.age = 0]
                                  ELSE active[m]]
  BY <1>1, Zenon
<1>3. [active EXCEPT ![n].online = FALSE] =
        [m \in Names |-> IF m = n THEN [active[m] EXCEPT !.online = FALSE]
                                  ELSE active[m]]
  BY <1>1, Zenon
<1> QED
  BY <1>2, <1>3 DEF Silent, Offline

\* The sessions after a message arrived for the one registered under n.
LEMMA RefreshedSessions ==
  ASSUME TypeOK, NEW n
  PROVE  /\ Refreshed(n) \in [Names -> Session \cup {NoSession}]
         /\ \A m \in Names :
              Refreshed(n)[m] = IF m = n /\ m \in Active
                                THEN Silent(active[m], 0) ELSE active[m]
<1>1. CASE n \in Active
  <2>1. Refreshed(n) =
          [m \in Names |-> IF m = n THEN Silent(active[m], 0) ELSE active[m]]
    BY <1>1, SessionUpdates DEF Refreshed
  <2>2. n \in Names /\ active[n] \in Session /\ 0 \in Age
    BY <1>1, ActiveSessions, RegistryAssumption DEF Age
  <2> QED
    BY <1>1, <2>1, <2>2, SessionFields DEF TypeOK
<1>2. CASE n \notin Active
  BY <1>2 DEF Refreshed, TypeOK
<1> QED
  BY <1>1, <1>2

\* The number of active sessions is a number.
LEMMA ActiveFinite ==
  ASSUME NEW S \in SUBSET Names
  PROVE  IsFiniteSet(S) /\ Cardinality(S) \in Nat
BY RegistryAssumption, FS_Subset, FS_CardinalityType

\* Counting keeps the counters numbers, and without metrics changes nothing.
LEMMA CountTypes ==
  ASSUME TypeOK, NEW a \in Nat, NEW b \in Nat, NEW c \in Nat,
         Count([registered |-> a, unregistered |-> b, timeout |-> c])
  PROVE  /\ local' \in [Counters -> Nat]
         /\ metrics => /\ local'["registered"] = local["registered"] + a
                       /\ local'["unregistered"] = local["unregistered"] + b
                       /\ local'["timeout"] = local["timeout"] + c
<1> DEFINE e == [registered |-> a, unregistered |-> b, timeout |-> c]
<1>1. e["registered"] = a /\ e["unregistered"] = b /\ e["timeout"] = c
  OBVIOUS
<1>2. local \in [Counters -> Nat] /\ metrics \in BOOLEAN
  BY DEF TypeOK
<1> HIDE DEF e
<1>3. local' = IF metrics THEN [k \in Counters |-> local[k] + e[k]] ELSE local
  BY DEF Count, e
<1> QED
  BY <1>1, <1>2, <1>3 DEF Counters

LEMMA InitTypes == Init => TypeOK
<1> SUFFICES ASSUME Init PROVE TypeOK
  OBVIOUS
<1>1. /\ {metrics, stuck} \subseteq BOOLEAN
      /\ byId \in [Ids -> Names \cup {NoName}]
      /\ active \in [Names -> Session \cup {NoSession}]
      /\ used \in [Ids -> SUBSET Names]
  BY Zenon DEF Init
<1>2. quiet \in [Ids -> Age]
  BY RegistryAssumption DEF Init, Age
<1> QED
  BY <1>1, <1>2 DEF Init, TypeOK

LEMMA TypeStep == TypeOK /\ [Next]_vars => TypeOK'
<1> SUFFICES ASSUME TypeOK, [Next]_vars PROVE TypeOK'
  OBVIOUS
<1>1. ASSUME NEW i \in Ids, NEW n \in Names, NEW kind \in Kinds \ {"Remove"},
             Receive(i, kind, n)
      PROVE TypeOK'
  <2>1. active' \in [Names -> Session \cup {NoSession}]
    BY <1>1, RefreshedSessions DEF Receive
  <2>2. quiet' \in [Ids -> Age]
    BY <1>1, RegistryAssumption DEF Receive, TypeOK, Age
  <2> QED
    BY <1>1, <2>1, <2>2 DEF Receive, TypeOK, countVars
<1>2. ASSUME NEW i \in Ids, ReceiveOther(i)
      PROVE TypeOK'
  <2>1. active' \in [Names -> Session \cup {NoSession}]
    BY <1>2, RefreshedSessions DEF ReceiveOther
  <2>2. quiet' \in [Ids -> Age]
    BY <1>2, RegistryAssumption DEF ReceiveOther, TypeOK, Age
  <2> QED
    BY <1>2, <2>1, <2>2 DEF ReceiveOther, TypeOK, countVars
<1>3. CASE UpsertClient
  <2>0. ev \in [kind: Kinds, id: Ids, name: Names]
    BY <1>3, AtWork DEF UpsertClient, Register, Kinds
  <2>1. byId' \in [Ids -> Names \cup {NoName}]
    BY <1>3, <2>0 DEF UpsertClient, Register, Erased, TypeOK
  <2>2. active' \in [Names -> Session \cup {NoSession}]
    <3>1. NewSession \in Session
      BY <2>0, RegistryAssumption DEF NewSession, Session, Age
    <3> QED
      BY <1>3, <2>0, <3>1 DEF UpsertClient, Register, TypeOK
  <2>3. local' \in [Counters -> Nat]
    <3> DEFINE b == IF ev.name \in Active THEN 1 ELSE 0
    <3>1. b \in Nat
      OBVIOUS
    <3>2. Count([registered |-> 1, unregistered |-> b, timeout |-> 0])
      BY <1>3 DEF UpsertClient, Register
    <3> QED
      BY <3>1, <3>2, CountTypes
  <2>4. gauge' \in Nat
    BY <1>3, ActiveFinite, Active' \in SUBSET Names
      DEF UpsertClient, Register, Gauge, TypeOK, Active
  <2>5. used' \in [Ids -> SUBSET Names]
    BY <1>3, <2>0 DEF UpsertClient, Register, TypeOK
  <2> QED
    BY <1>3, <2>1, <2>2, <2>3, <2>4, <2>5 DEF UpsertClient, Register, TypeOK
<1>4. CASE SendMessage
  BY <1>4, RefreshedSessions DEF SendMessage, TypeOK, countVars
<1>5. CASE FindUnregistered
  <2>0. ev \in [kind: Kinds, id: Ids, name: Names]
    BY <1>5, AtWork DEF FindUnregistered, Kinds
  <2>1. ev' = Idle \/ ev' \in [kind: Kinds, id: Ids, name: Names]
    BY <1>5, <2>0 DEF FindUnregistered, Kinds
  <2>2. active' \in [Names -> Session \cup {NoSession}]
    <3>1. CASE ev.name \in Active
      <4>1. active' = [m \in Names |-> IF m = ev.name THEN Offline(active[m])
                                                      ELSE active[m]]
        BY <1>5, <3>1, SessionUpdates DEF FindUnregistered
      <4> QED
        BY <3>1, <4>1, ActiveSessions, SessionFields DEF TypeOK
    <3>2. CASE ev.name \notin Active
      BY <1>5, <3>2 DEF FindUnregistered, TypeOK
    <3> QED
      BY <3>1, <3>2
  <2> QED
    BY <1>5, <2>1, <2>2 DEF FindUnregistered, TypeOK, countVars
<1>6. CASE UnregisterClient
  <2>0. ev \in [kind: Kinds, id: Ids, name: Names]
    BY <1>6, AtWork DEF UnregisterClient, Kinds
  <2>1. byId' \in [Ids -> Names \cup {NoName}]
    BY <1>6, <2>0, SessionTypes, ActiveSessions DEF UnregisterClient, TypeOK
  <2>2. active' \in [Names -> Session \cup {NoSession}]
    BY <1>6, <2>0 DEF UnregisterClient, TypeOK
  <2>3. local' \in [Counters -> Nat]
    <3>1. CASE ev.name \in Active
      <4>1. Count([registered |-> 0, unregistered |-> 1, timeout |-> 0])
        BY <1>6, <3>1 DEF UnregisterClient
      <4> QED
        BY <4>1, CountTypes
    <3>2. CASE ev.name \notin Active
      BY <1>6, <3>2 DEF UnregisterClient, TypeOK
    <3> QED
      BY <3>1, <3>2
  <2>4. gauge' \in Nat
    BY <1>6, ActiveFinite, Active' \in SUBSET Names
      DEF UnregisterClient, Gauge, TypeOK, Active
  <2> QED
    BY <1>6, <2>1, <2>2, <2>3, <2>4 DEF UnregisterClient, TypeOK
<1>7. ASSUME NEW n \in Names, SendFails(n)
      PROVE TypeOK'
  <2>1. active' = [m \in Names |-> IF m = n THEN Offline(active[m])
                                            ELSE active[m]]
    BY <1>7, SessionUpdates DEF SendFails
  <2>2. active' \in [Names -> Session \cup {NoSession}]
    <3>1. active[n] \in Session
      BY <1>7, ActiveSessions DEF SendFails
    <3> QED
      BY <2>1, <3>1, SessionFields DEF TypeOK
  <2> QED
    BY <1>7, <2>2 DEF SendFails, TypeOK, countVars
<1>8. CASE CleanupInactiveSessions
  <2>1. byId' \in [Ids -> Names \cup {NoName}]
    BY <1>8 DEF CleanupInactiveSessions, Remove, TypeOK
  <2>2. active' \in [Names -> Session \cup {NoSession}]
    BY <1>8 DEF CleanupInactiveSessions, Remove, TypeOK
  <2>3. local' \in [Counters -> Nat]
    <3>1. Cardinality(Inactive) \in Nat
      BY ActiveFinite, Inactive \in SUBSET Names DEF Inactive, Active
    <3>2. Count([registered |-> 0, unregistered |-> 0,
                 timeout |-> Cardinality(Inactive)])
      BY <1>8 DEF CleanupInactiveSessions, Remove
    <3> QED
      BY <3>1, <3>2, CountTypes
  <2> QED
    BY <1>8, <2>1, <2>2, <2>3 DEF CleanupInactiveSessions, Remove, TypeOK
<1>9. ASSUME NEW c \in Counters, Publish(c)
      PROVE TypeOK'
  BY <1>9 DEF Publish, TypeOK, regVars
<1>10. CASE Tick
  <2>1. active' \in [Names -> Session \cup {NoSession}]
    <3>1. ASSUME NEW n \in Active
          PROVE  [active[n] EXCEPT !.age = Older(@)] \in Session
      <4>1. active[n] \in Session /\ Older(active[n].age) \in Age
        BY ActiveSessions, SessionTypes, RegistryAssumption DEF Age, Older
      <4>2. Silent(active[n], Older(active[n].age)) \in Session
        BY <4>1, SessionFields
      <4> QED
        BY <4>2 DEF Silent
    <3> QED
      BY <1>10, <3>1 DEF Tick
  <2>2. quiet' \in [Ids -> Age]
    BY <1>10, RegistryAssumption DEF Tick, TypeOK, Age, Older
  <2> QED
    BY <1>10, <2>1, <2>2 DEF Tick, TypeOK, countVars
<1>11. CASE UNCHANGED vars
  BY <1>11 DEF vars, regVars, countVars, TypeOK
<1> QED
  BY <1>1, <1>2, <1>3, <1>4, <1>5, <1>6, <1>7, <1>8, <1>9, <1>10, <1>11
    DEF Next

\* Every variable of the registry keeps its type.
THEOREM RegistryTypes == Spec => []TypeOK
BY InitTypes, TypeStep, PTL DEF Spec

-----------------------------------------------------------------------------
(* The two maps agree *)

\* What makes NeverStaler inductive: a session's id has seen its name, and
\* while no other name was registered there the id leads to the session.
SoleOwner ==
  \A n \in Active :
    /\ n \in used[active[n].id]
    /\ used[active[n].id] = {n} => byId[active[n].id] = n

RegistryInv == TypeOK /\ OwnSession /\ SoleOwner /\ NeverStaler

\* A step that leaves the ids alone, and the sessions registered where they
\* were, leaves the maps in agreement.
LEMMA SameIds ==
  ASSUME RegistryInv, UNCHANGED <<byId, used>>, Active' = Active,
         \A n \in Active : active'[n].id = active[n].id
  PROVE  OwnSession' /\ SoleOwner'
<1>1. OwnSession'
  BY DEF RegistryInv, OwnSession, TypeOK
<1>2. SoleOwner'
  BY DEF RegistryInv, SoleOwner
<1> QED
  BY <1>1, <1>2

\* So does one that also makes no session look more silent, or its client less.
LEMMA SameSessions ==
  ASSUME RegistryInv, TypeOK', UNCHANGED <<byId, used, quiet>>,
         Active' = Active,
         \A n \in Active : /\ active'[n].id = active[n].id
                           /\ active'[n].age <= active[n].age
  PROVE  RegistryInv'
<1>1. OwnSession' /\ SoleOwner'
  BY SameIds
<1>2. NeverStaler'
  <2> SUFFICES ASSUME NEW n \in Active, used[active[n].id] = {n}
               PROVE  active'[n].age <= quiet[active[n].id]
    BY DEF NeverStaler
  <2>1. active[n] \in Session /\ active'[n] \in Session
    BY ActiveSessions DEF RegistryInv, TypeOK, Active
  <2>2. active[n].age <= quiet[active[n].id]
    BY DEF RegistryInv, NeverStaler
  <2>3. /\ active[n].age \in Nat /\ active'[n].age \in Nat
        /\ quiet[active[n].id] \in Nat
    BY <2>1, SessionTypes, RegistryAssumption DEF RegistryInv, TypeOK, Age
  <2> QED
    BY <2>2, <2>3
<1> QED
  BY <1>1, <1>2 DEF RegistryInv

\* A message from i keeps the session alive that i leads to: if i has seen no
\* other name, the session that is registered there.
LEMMA ReceiveKeeps ==
  ASSUME RegistryInv, TypeOK', NEW i \in Ids, UNCHANGED <<byId, used>>,
         active' = Refreshed(byId[i]), quiet' = [quiet EXCEPT ![i] = 0]
  PROVE  RegistryInv'
<1>0. TypeOK /\ OwnSession /\ SoleOwner /\ NeverStaler
  BY DEF RegistryInv
<1>1. \A n \in Names :
        active'[n] = IF n = byId[i] /\ n \in Active THEN Silent(active[n], 0)
                                                    ELSE active[n]
  BY <1>0, RefreshedSessions
<1>2. ASSUME NEW n \in Active
      PROVE  /\ active[n] \in Session /\ n \in Names /\ 0 \in Age
             /\ Silent(active[n], 0) \in Session
             /\ Silent(active[n], 0).id = active[n].id
             /\ Silent(active[n], 0).age = 0
  <2>1. 0 \in Age
    BY RegistryAssumption DEF Age
  <2> QED
    BY <1>0, <2>1, ActiveSessions, SessionFields
<1>3. Active' = Active
  BY <1>1, <1>2, SessionTypes DEF Active
<1>4. \A n \in Active : active'[n].id = active[n].id
  BY <1>1, <1>2
<1>5. OwnSession' /\ SoleOwner'
  BY <1>3, <1>4, SameIds
<1>6. NeverStaler'
  <2> SUFFICES ASSUME NEW n \in Active, used[active[n].id] = {n}
               PROVE  active'[n].age <= quiet'[active[n].id]
    BY <1>3, <1>4 DEF NeverStaler
  <2>1. active[n].age <= quiet[active[n].id] /\ byId[active[n].id] = n
    BY <1>0 DEF NeverStaler, SoleOwner
  <2>2. active[n].id \in Ids /\ quiet \in [Ids -> Age] /\ Age \subseteq Nat
    BY <1>0, <1>2, SessionTypes, RegistryAssumption DEF TypeOK, Age
  <2>3. CASE active[n].id = i
    <3>1. active'[n].age = 0
      BY <1>1, <1>2, <2>1, <2>3
    <3>2. quiet'[active[n].id] = 0
      BY <2>2, <2>3
    <3> QED
      BY <3>1, <3>2
  <2>4. CASE active[n].id # i
    <3>1. quiet'[active[n].id] = quiet[active[n].id]
      BY <2>2, <2>4
    <3>2. active'[n].age = 0 \/ active'[n].age = active[n].age
      BY <1>1, <1>2
    <3>3. quiet[active[n].id] \in Nat
      BY <2>2
    <3> QED
      BY <2>1, <3>1, <3>2, <3>3
  <2> QED
    BY <2>3, <2>4
<1> QED
  BY <1>5, <1>6 DEF RegistryInv

\* A session marked offline stays registered where it was.
LEMMA OfflineKeeps ==
  ASSUME RegistryInv, TypeOK', NEW n \in Active,
         UNCHANGED <<byId, used, quiet>>,
         active' = [active EXCEPT ![n].online = FALSE]
  PROVE  RegistryInv'
<1>0. TypeOK
  BY DEF RegistryInv
<1>1. active' = [m \in Names |-> IF m = n THEN Offline(active[m])
                                          ELSE active[m]]
  BY <1>0, SessionUpdates
<1>2. ASSUME NEW m \in Active
      PROVE  /\ m \in Names /\ active[m] \in Session
             /\ active[m].age \in Nat
             /\ Offline(active[m]) \in Session
             /\ Offline(active[m]).id = active[m].id
             /\ Offline(active[m]).age = active[m].age
  BY <1>0, ActiveSessions, SessionFields, SessionTypes, RegistryAssumption
    DEF Age
<1>3. Active' = Active
  BY <1>1, <1>2, SessionTypes DEF Active
<1>4. \A m \in Active : /\ active'[m].id = active[m].id
                        /\ active'[m].age <= active[m].age
  BY <1>1, <1>2
<1> QED
  BY <1>3, <1>4, SameSessions

\* RegisterHandler: only the names that were registered on an id, the new one
\* among them, lose or win it.
LEMMA UpsertKeeps == RegistryInv /\ TypeOK' /\ UpsertClient => RegistryInv'
<1> SUFFICES ASSUME RegistryInv, TypeOK', UpsertClient PROVE RegistryInv'
  OBVIOUS
<1>0. TypeOK /\ OwnSession /\ SoleOwner /\ NeverStaler
  BY DEF RegistryInv
<1>1. ev.id \in Ids /\ ev.name \in Names
  <2>1. ev.kind \in Kinds
    BY DEF UpsertClient, Register, Kinds
  <2> QED
    BY <1>0, <2>1, AtWork
<1> DEFINE n == ev.name
           new == NewSession
<1>2. new \in Session /\ new.id = ev.id /\ new.age = 0
  BY <1>1, RegistryAssumption DEF NewSession, Session, Age
<1> HIDE DEF new
<1>3. /\ \A m \in Names : active'[m] = IF m = n THEN new ELSE active[m]
      /\ \A i \in Ids :
           used'[i] = IF i = ev.id THEN used[i] \cup {n} ELSE used[i]
      /\ quiet' = quiet
  BY <1>0, <1>1 DEF UpsertClient, Register, TypeOK, new
<1>4. /\ byId'[ev.id] = n
      /\ \A i \in Ids \ {ev.id} :
           byId'[i] = IF n \in Active /\ active[n].id = i THEN NoName
                                                          ELSE byId[i]
  <2>1. n \in Active => active[n].id \in Ids
    BY <1>0, ActiveSessions, SessionTypes
  <2> QED
    BY <1>0, <1>1, <2>1 DEF UpsertClient, Register, Erased, TypeOK
<1>5. Active' = Active \cup {n}
  BY <1>1, <1>2, <1>3, SessionTypes DEF Active
<1>6. n \in Names /\ active'[n] = new
  BY <1>1, <1>3
<1>7. ASSUME NEW m \in Active, m # n
      PROVE  /\ m \in Names /\ active'[m] = active[m] /\ active[m].id \in Ids
             /\ m \in used[active[m].id]
  BY <1>0, <1>3, <1>7, ActiveSessions, SessionTypes DEF SoleOwner
<1>8. OwnSession'
  <2> SUFFICES ASSUME NEW i \in Ids, byId'[i] # NoName
               PROVE  byId'[i] \in Active' /\ active'[byId'[i]].id = i
    BY DEF OwnSession
  <2>1. CASE i = ev.id
    BY <1>2, <1>4, <1>5, <1>6, <2>1
  <2>2. CASE i # ev.id
    <3>1. byId'[i] = byId[i] /\ ~(n \in Active /\ active[n].id = i)
      BY <1>4, <2>2
    <3>2. byId[i] \in Active /\ active[byId[i]].id = i
      BY <1>0, <3>1 DEF OwnSession
    <3>3. byId[i] # n
      BY <3>1, <3>2
    <3> QED
      BY <1>5, <1>7, <3>1, <3>2, <3>3
  <2> QED
    BY <2>1, <2>2
<1>9. ASSUME NEW m \in Active', used'[active'[m].id] = {m}
      PROVE  /\ byId'[active'[m].id] = m
             /\ active'[m].age <= quiet'[active'[m].id]
  <2>1. CASE m = n
    <3>1. active'[m].id = ev.id /\ active'[m].age = 0
      BY <1>2, <1>6, <2>1
    <3>2. quiet'[ev.id] \in Nat
      BY <1>1, RegistryAssumption DEF TypeOK, Age
    <3> QED
      BY <1>4, <2>1, <3>1, <3>2
  <2>2. CASE m # n
    <3>1. m \in Active
      BY <1>5, <2>2
    <3>2. used'[active[m].id] = {m} /\ active'[m] = active[m]
      BY <1>7, <1>9, <2>2, <3>1
    <3>3. active[m].id # ev.id /\ used[active[m].id] = {m}
      BY <1>3, <1>7, <2>2, <3>1, <3>2
    <3>4. n \in Active => active[n].id # active[m].id
      BY <1>0, <2>2, <3>3 DEF SoleOwner
    <3>5. byId[active[m].id] = m /\ active[m].age <= quiet[active[m].id]
      BY <1>0, <3>1, <3>3 DEF SoleOwner, NeverStaler
    <3> QED
      BY <1>3, <1>4, <1>7, <2>2, <3>1, <3>2, <3>3, <3>4, <3>5
  <2> QED
    BY <2>1, <2>2
<1>10. ASSUME NEW m \in Active'
       PROVE  m \in used'[active'[m].id]
  <2>1. CASE m = n
    BY <1>1, <1>2, <1>3, <1>6, <2>1
  <2>2. CASE m # n
    BY <1>3, <1>5, <1>7, <2>2
  <2> QED
    BY <2>1, <2>2
<1> QED
  BY <1>8, <1>9, <1>10 DEF RegistryInv, SoleOwner, NeverStaler

\* Removing the sessions of gone, and their ids, leaves the others theirs.
LEMMA RemoveKeeps ==
  ASSUME RegistryInv, TypeOK', NEW gone \in SUBSET Active,
         UNCHANGED <<used, quiet>>,
         \A i \in Ids : byId'[i] = IF \E n \in gone : active[n].id = i
                                   THEN NoName ELSE byId[i],
         \A n \in Names : active'[n] = IF n \in gone THEN NoSession
                                                     ELSE active[n]
  PROVE  RegistryInv'
<1>0. TypeOK /\ OwnSession /\ SoleOwner /\ NeverStaler
  BY DEF RegistryInv
<1>1. Active' = Active \ gone /\ \A n \in Active' : active'[n] = active[n]
  BY DEF Active
<1>2. OwnSession'
  <2> SUFFICES ASSUME NEW i \in Ids, byId'[i] # NoName
               PROVE  byId'[i] \in Active' /\ active'[byId'[i]].id = i
    BY DEF OwnSession
  <2>1. byId'[i] = byId[i] /\ ~\E n \in gone : active[n].id = i
    OBVIOUS
  <2>2. byId[i] \in Active /\ active[byId[i]].id = i
    BY <1>0, <2>1 DEF OwnSession
  <2> QED
    BY <1>1, <2>1, <2>2
<1>3. ASSUME NEW m \in Active'
      PROVE  /\ m \in used[active[m].id]
             /\ used[active[m].id] = {m} =>
                  /\ byId'[active[m].id] = m
                  /\ active[m].age <= quiet[active[m].id]
  <2>1. m \in Active /\ active[m].id \in Ids /\ m \notin gone
    BY <1>0, <1>1, ActiveSessions, SessionTypes
  <2>2. m \in used[active[m].id]
    BY <1>0, <2>1 DEF SoleOwner
  <2>3. ASSUME used[active[m].id] = {m}
        PROVE  byId'[active[m].id] = m /\ active[m].age <= quiet[active[m].id]
    <3>1. byId[active[m].id] = m /\ active[m].age <= quiet[active[m].id]
      BY <1>0, <2>1, <2>3 DEF SoleOwner, NeverStaler
    <3>2. \A n \in gone : active[n].id # active[m].id
      BY <1>0, <2>1, <2>3 DEF SoleOwner
    <3> QED
      BY <2>1, <3>1, <3>2
  <2> QED
    BY <2>2, <2>3
<1> QED
  BY <1>1, <1>2, <1>3 DEF RegistryInv, SoleOwner, NeverStaler

\* A second passes for the sessions and for their clients.
LEMMA TickKeeps == RegistryInv /\ TypeOK' /\ Tick => RegistryInv'
<1> SUFFICES ASSUME RegistryInv, TypeOK', Tick PROVE RegistryInv'
  OBVIOUS
<1>0. TypeOK /\ NeverStaler
  BY DEF RegistryInv
<1>1. \A t \in Age : Older(t) \in Age
  BY RegistryAssumption DEF Age, Older
<1>6. \A s, t \in Age : s <= t => Older(s) <= Older(t)
  BY RegistryAssumption DEF Age, Older
<1>2. ASSUME NEW n \in Active
      PROVE  /\ n \in Names /\ active[n] \in Session
             /\ active[n].id \in Ids /\ active[n].age \in Age
             /\ active'[n] \in Session
             /\ active'[n].id = active[n].id
             /\ active'[n].age = Older(active[n].age)
  <2>1. /\ n \in Names /\ active[n] \in Session
        /\ active[n].id \in Ids /\ active[n].age \in Age
    BY <1>0, ActiveSessions, SessionTypes
  <2>2. active'[n] = Silent(active[n], Older(active[n].age))
    BY <2>1 DEF Tick, Silent
  <2> QED
    BY <1>1, <2>1, <2>2, SessionFields
<1>3. Active' = Active
  <2>1. \A n \in Names \ Active : active'[n] = NoSession
    BY DEF Tick
  <2> QED
    BY <1>2, <2>1, SessionTypes DEF Active
<1>4. OwnSession' /\ SoleOwner'
  BY <1>2, <1>3, SameIds DEF Tick
<1>5. NeverStaler'
  <2> SUFFICES ASSUME NEW n \in Active, used[active[n].id] = {n}
               PROVE  active'[n].age <= quiet'[active[n].id]
    BY <1>2, <1>3 DEF NeverStaler, Tick
  <2>1. active[n].age <= quiet[active[n].id]
    BY <1>0 DEF NeverStaler
  <2>2. /\ quiet[active[n].id] \in Age
        /\ quiet'[active[n].id] = Older(quiet[active[n].id])
    BY <1>0, <1>2 DEF TypeOK, Tick
  <2> QED
    BY <1>2, <1>6, <2>1, <2>2
<1> QED
  BY <1>4, <1>5 DEF RegistryInv

LEMMA InitInv == Init => RegistryInv
<1> SUFFICES ASSUME Init PROVE RegistryInv
  OBVIOUS
<1>1. Active = {}
  BY DEF Init, Active
<1> QED
  BY <1>1, InitTypes
    DEF Init, RegistryInv, OwnSession, SoleOwner, NeverStaler

LEMMA InvStep == RegistryInv /\ [Next]_vars => RegistryInv'
<1> SUFFICES ASSUME RegistryInv, [Next]_vars PROVE RegistryInv'
  OBVIOUS
<1>0. TypeOK /\ TypeOK'
  BY TypeStep DEF RegistryInv
<1>a. ASSUME UNCHANGED <<byId, active, used, quiet>>
      PROVE  RegistryInv'
  BY <1>0, <1>a
    DEF RegistryInv, OwnSession, SoleOwner, NeverStaler, Active
<1>1. ASSUME NEW i \in Ids, NEW n \in Names, NEW kind \in Kinds \ {"Remove"},
             Receive(i, kind, n)
      PROVE  RegistryInv'
  BY <1>0, <1>1, ReceiveKeeps DEF Receive
<1>2. ASSUME NEW i \in Ids, ReceiveOther(i)
      PROVE  RegistryInv'
  BY <1>0, <1>2, ReceiveKeeps DEF ReceiveOther
<1>3. CASE UpsertClient
  BY <1>0, <1>3, UpsertKeeps
<1>4. CASE SendMessage
  <2>1. CASE ev.name \in Active /\ active[ev.name].online
    <3> DEFINE n == ev.name
    <3>1. \A m \in Names : active'[m] = IF m = n THEN Silent(active[m], 0)
                                                 ELSE active[m]
      BY <1>0, <1>4, <2>1, RefreshedSessions DEF SendMessage
    <3>2. ASSUME NEW m \in Active
          PROVE  /\ m \in Names /\ active[m].age \in Nat
                 /\ Silent(active[m], 0) \in Session
                 /\ Silent(active[m], 0).id = active[m].id
                 /\ Silent(active[m], 0).age = 0
      <4>1. 0 \in Age
        BY RegistryAssumption DEF Age
      <4>2. m \in Names /\ active[m] \in Session /\ active[m].age \in Nat
        BY <1>0, ActiveSessions, SessionTypes, RegistryAssumption DEF Age
      <4> QED
        BY <4>1, <4>2, SessionFields
    <3>3. Active' = Active
      BY <2>1, <3>1, <3>2, SessionTypes DEF Active
    <3>4. ASSUME NEW m \in Active
          PROVE  /\ active'[m].id = active[m].id
                 /\ active'[m].age <= active[m].age
      BY <3>1, <3>2
    <3> QED
      BY <1>0, <1>4, <3>3, <3>4, SameSessions DEF SendMessage
  <2>2. CASE ~(ev.name \in Active /\ active[ev.name].online)
    BY <1>4, <1>a, <2>2 DEF SendMessage
  <2> QED
    BY <2>1, <2>2
<1>5. CASE FindUnregistered
  <2>1. CASE ev.name \in Active
    BY <1>0, <1>5, <2>1, OfflineKeeps DEF FindUnregistered
  <2>2. CASE ev.name \notin Active
    BY <1>5, <1>a, <2>2 DEF FindUnregistered
  <2> QED
    BY <2>1, <2>2
<1>6. CASE UnregisterClient
  <2>1. CASE ev.name \in Active
    <3> DEFINE gone == {ev.name}
    <3>0. gone \in SUBSET Active /\ ev.name \in Names
      BY <1>0, <2>1, ActiveSessions
    <3>1. active[ev.name].id \in Ids
      BY <1>0, <2>1, ActiveSessions, SessionTypes
    <3>2. \A i \in Ids : byId'[i] = IF \E n \in gone : active[n].id = i
                                    THEN NoName ELSE byId[i]
      BY <1>0, <1>6, <2>1, <3>1 DEF UnregisterClient, TypeOK
    <3>3. \A n \in Names : active'[n] = IF n \in gone THEN NoSession
                                                      ELSE active[n]
      BY <1>0, <1>6, <2>1 DEF UnregisterClient, TypeOK
    <3>4. UNCHANGED <<used, quiet>>
      BY <1>6 DEF UnregisterClient
    <3> HIDE DEF gone
    <3> QED
      BY <1>0, <3>0, <3>2, <3>3, <3>4, RemoveKeeps
  <2>2. CASE ev.name \notin Active
    BY <1>6, <1>a, <2>2 DEF UnregisterClient
  <2> QED
    BY <2>1, <2>2
<1>7. ASSUME NEW n \in Names, SendFails(n)
      PROVE  RegistryInv'
  BY <1>0, <1>7, OfflineKeeps DEF SendFails
<1>8. CASE CleanupInactiveSessions
  <2>1. Inactive \in SUBSET Active
    BY DEF Inactive
  <2>2. /\ \A i \in Ids : byId'[i] = IF \E n \in Inactive : active[n].id = i
                                     THEN NoName ELSE byId[i]
        /\ \A n \in Names : active'[n] = IF n \in Inactive THEN NoSession
                                                           ELSE active[n]
        /\ UNCHANGED <<used, quiet>>
    BY <1>8 DEF CleanupInactiveSessions, Remove
  <2> QED
    BY <1>0, <2>1, <2>2, RemoveKeeps
<1>9. ASSUME NEW c \in Counters, Publish(c)
      PROVE  RegistryInv'
  BY <1>9, <1>a DEF Publish, regVars
<1>10. CASE Tick
  BY <1>0, <1>10, TickKeeps
<1>11. CASE UNCHANGED vars
  BY <1>11, <1>a DEF vars, regVars
<1> QED
  BY <1>1, <1>2, <1>3, <1>4, <1>5, <1>6, <1>7, <1>8, <1>9, <1>10, <1>11
    DEF Next

\* An id leads to a session of its own.
THEOREM OwnSessions == Spec => []OwnSession
<1>1. RegistryInv => OwnSession
  BY DEF RegistryInv
<1> QED
  BY <1>1, InitInv, InvStep, PTL DEF Spec

\* A session whose id no other client registered on is never taken for more
\* silent than its client is: cleanup does not expire a client that talks.
THEOREM TalkersStay == Spec => []NeverStaler
<1>1. RegistryInv => NeverStaler
  BY DEF RegistryInv
<1> QED
  BY <1>1, InitInv, InvStep, PTL DEF Spec

-----------------------------------------------------------------------------
(* The counters *)

\* The published and the local part of every counter.
LEMMA Totals ==
  ASSUME TypeOK, NEW c \in Counters
  PROVE  /\ local[c] \in Nat /\ published[c] \in Nat
         /\ Total(c) = local[c] + published[c] /\ Total(c) \in Nat
BY DEF TypeOK, Total

\* What counting adds to the totals.
LEMMA CountTotals ==
  ASSUME TypeOK, metrics, published' = published,
         NEW a \in Nat, NEW b \in Nat, NEW c \in Nat,
         Count([registered |-> a, unregistered |-> b, timeout |-> c])
  PROVE  /\ Total("registered")' = Total("registered") + a
         /\ Total("unregistered")' = Total("unregistered") + b
         /\ Total("timeout")' = Total("timeout") + c
<1>1. \A k \in Counters : local[k] \in Nat /\ published[k] \in Nat
  BY Totals
<1>2. /\ local'["registered"] = local["registered"] + a
      /\ local'["unregistered"] = local["unregistered"] + b
      /\ local'["timeout"] = local["timeout"] + c
  BY CountTypes
<1> QED
  BY <1>1, <1>2 DEF Total, Counters

\* A step that neither counts nor adds or removes a session.
LEMMA SameCounts ==
  ASSUME CountersBalance, UNCHANGED <<local, published, gauge, metrics, stuck>>,
         Active' = Active
  PROVE  CountersBalance'
BY DEF CountersBalance, Total

LEMMA InitBalance == Init => CountersBalance
<1> SUFFICES ASSUME Init PROVE CountersBalance
  OBVIOUS
<1>1. Active = {}
  BY DEF Init, Active
<1>2. \A c \in Counters : Total(c) = 0
  BY DEF Init, Total
<1>3. gauge = 0
  BY DEF Init
<1> QED
  BY <1>1, <1>2, <1>3, FS_EmptySet DEF CountersBalance, Counters

\* A session that is kept alive, marked offline or grows older stays.
LEMMA ActiveKept ==
  ASSUME TypeOK,
         \/ \E n : active' = Refreshed(n)
         \/ \E n \in Active : active' = [active EXCEPT ![n].online = FALSE]
         \/ Tick
         \/ active' = active
  PROVE  Active' = Active
<1>0. 0 \in Age /\ \A t \in Age : Older(t) \in Age
  BY RegistryAssumption DEF Age, Older
<1>1. ASSUME NEW m \in Active
      PROVE  /\ m \in Names
             /\ Silent(active[m], 0) # NoSession
             /\ Silent(active[m], Older(active[m].age)) # NoSession
             /\ Offline(active[m]) # NoSession
  <2>1. m \in Names /\ active[m] \in Session /\ active[m].age \in Age
    BY ActiveSessions, SessionTypes
  <2> QED
    BY <1>0, <2>1, SessionFields, SessionTypes
<1>2. ASSUME NEW n, active' = Refreshed(n) PROVE Active' = Active
  BY <1>1, <1>2, RefreshedSessions DEF Active
<1>3. ASSUME NEW n \in Active, active' = [active EXCEPT ![n].online = FALSE]
      PROVE  Active' = Active
  <2>1. \A m \in Names : active'[m] = IF m = n THEN Offline(active[m])
                                               ELSE active[m]
    BY <1>3, SessionUpdates
  <2> QED
    BY <1>1, <2>1 DEF Active
<1>4. CASE Tick
  <2>1. \A m \in Names :
          active'[m] = IF m \in Active
                       THEN Silent(active[m], Older(active[m].age))
                       ELSE NoSession
    BY <1>4 DEF Tick, Silent
  <2> QED
    BY <1>1, <2>1 DEF Active
<1>5. CASE active' = active
  BY <1>5 DEF Active
<1> QED
  BY <1>2, <1>3, <1>4, <1>5

LEMMA BalanceStep == TypeOK /\ CountersBalance /\ [Next]_vars => CountersBalance'
<1> SUFFICES ASSUME TypeOK, CountersBalance, [Next]_vars PROVE CountersBalance'
  OBVIOUS
<1>0. /\ IsFiniteSet(Active) /\ Cardinality(Active) \in Nat
      /\ \A c \in Counters : Total(c) \in Nat
  <2>1. Active \in SUBSET Names
    BY DEF Active
  <2> QED
    BY <2>1, ActiveFinite, Totals
<1>1. ASSUME NEW i \in Ids, NEW n \in Names, NEW kind \in Kinds \ {"Remove"},
             Receive(i, kind, n)
      PROVE  CountersBalance'
  BY <1>1, ActiveKept, SameCounts DEF Receive, countVars
<1>2. ASSUME NEW i \in Ids, ReceiveOther(i)
      PROVE  CountersBalance'
  BY <1>2, ActiveKept, SameCounts DEF ReceiveOther, countVars
<1>3. CASE UpsertClient
  <2> SUFFICES ASSUME metrics PROVE CountersBalance'
    BY <1>3 DEF UpsertClient, Register, CountersBalance
  <2> DEFINE b == IF ev.name \in Active THEN 1 ELSE 0
  <2>1. /\ Total("registered")' = Total("registered") + 1
        /\ Total("unregistered")' = Total("unregistered") + b
        /\ Total("timeout")' = Total("timeout") + 0
    <3>1. Count([registered |-> 1, unregistered |-> b, timeout |-> 0])
      BY <1>3 DEF UpsertClient, Register
    <3>2. b \in Nat /\ published' = published
      BY <1>3 DEF UpsertClient, Register
    <3> HIDE DEF b
    <3> QED
      BY <3>1, <3>2, CountTotals
  <2>2. Active' = Active \cup {ev.name}
    <3>1. ev.name \in Names
      BY <1>3, AtWork DEF UpsertClient, Register, Kinds
    <3>2. NewSession # NoSession
      <4>1. NewSession \in Session
        <5>1. ev.id \in Ids
          BY <1>3, AtWork DEF UpsertClient, Register, Kinds
        <5> QED
          BY <5>1, RegistryAssumption DEF NewSession, Session, Age
      <4> QED
        BY <4>1, SessionTypes
    <3>3. \A m \in Names : active'[m] = IF m = ev.name THEN NewSession
                                                       ELSE active[m]
      BY <1>3, <3>1 DEF UpsertClient, Register, TypeOK
    <3> QED
      BY <3>1, <3>2, <3>3 DEF Active
  <2>3. Cardinality(Active') = Cardinality(Active) + 1 - b
    <3>1. Cardinality(Active \cup {ev.name}) =
            IF ev.name \in Active THEN Cardinality(Active)
                                  ELSE Cardinality(Active) + 1
      BY <1>0, FS_AddElement, Zenon
    <3>2. Cardinality(Active') = Cardinality(Active \cup {ev.name})
      BY <2>2, Zenon
    <3> QED
      BY <1>0, <3>1, <3>2
  <2>4. gauge' = Cardinality(Active')
    BY <1>3 DEF UpsertClient, Register, Gauge
  <2> QED
    BY <1>0, <2>1, <2>3, <2>4 DEF CountersBalance, Counters
<1>4. CASE SendMessage
  BY <1>4, ActiveKept, SameCounts DEF SendMessage, countVars
<1>5. CASE FindUnregistered
  BY <1>5, ActiveKept, SameCounts DEF FindUnregistered, countVars
<1>6. CASE UnregisterClient
  <2>1. CASE ev.name \in Active
    <3> SUFFICES ASSUME metrics PROVE CountersBalance'
      BY <1>6 DEF UnregisterClient, CountersBalance
    <3>1. /\ Total("registered")' = Total("registered") + 0
          /\ Total("unregistered")' = Total("unregistered") + 1
          /\ Total("timeout")' = Total("timeout") + 0
      BY <1>6, <2>1, CountTotals DEF UnregisterClient
    <3>2. Active' = Active \ {ev.name}
      BY <1>6, <2>1 DEF UnregisterClient, Active, TypeOK
    <3>3. Cardinality(Active') = Cardinality(Active) - 1
      BY <1>0, <2>1, <3>2, FS_RemoveElement
    <3>4. gauge' = Cardinality(Active')
      BY <1>6, <2>1 DEF UnregisterClient, Gauge
    <3> QED
      BY <1>0, <3>1, <3>3, <3>4 DEF CountersBalance, Counters
  <2>2. CASE ev.name \notin Active
    BY <1>6, <2>2, ActiveKept, SameCounts DEF UnregisterClient
  <2> QED
    BY <2>1, <2>2
<1>7. ASSUME NEW n \in Names, SendFails(n)
      PROVE  CountersBalance'
  BY <1>7, ActiveKept, SameCounts DEF SendFails, countVars
<1>8. CASE CleanupInactiveSessions
  <2> SUFFICES ASSUME metrics PROVE CountersBalance'
    BY <1>8 DEF CleanupInactiveSessions, Remove, CountersBalance
  <2>0. Inactive \in SUBSET Active
    BY DEF Inactive
  <2>1. Cardinality(Inactive) \in Nat
    BY <2>0, ActiveFinite DEF Active
  <2>2. /\ Total("registered")' = Total("registered") + 0
        /\ Total("unregistered")' = Total("unregistered") + 0
        /\ Total("timeout")' = Total("timeout") + Cardinality(Inactive)
    BY <1>8, <2>1, CountTotals DEF CleanupInactiveSessions, Remove
  <2>3. Active' = Active \ Inactive
    BY <1>8 DEF CleanupInactiveSessions, Remove, Active
  <2>4. Cardinality(Active') = Cardinality(Active) - Cardinality(Inactive)
    <3>1. Active \cap Inactive = Inactive
      BY <2>0
    <3>2. Cardinality(Active \ Inactive) =
            Cardinality(Active) - Cardinality(Active \cap Inactive)
      BY <1>0, FS_Difference, Zenon
    <3>3. Cardinality(Active') = Cardinality(Active \ Inactive)
      BY <2>3, Zenon
    <3> QED
      BY <3>1, <3>2, <3>3, Zenon
  <2>5. stuck'
    BY <1>8 DEF CleanupInactiveSessions, Remove
  <2> QED
    BY <1>0, <2>1, <2>2, <2>4, <2>5 DEF CountersBalance, Counters
<1>9. ASSUME NEW c \in Counters, Publish(c)
      PROVE  CountersBalance'
  <2>1. \A k \in Counters : Total(k)' = Total(k)
    BY <1>9 DEF Publish, Total, TypeOK
  <2>2. Active' = Active
    BY <1>9, ActiveKept DEF Publish, regVars
  <2> QED
    BY <1>9, <2>1, <2>2 DEF Publish, CountersBalance, Counters
<1>10. CASE Tick
  BY <1>10, ActiveKept, SameCounts DEF Tick, countVars
<1>11. CASE UNCHANGED vars
  BY <1>11, ActiveKept, SameCounts DEF vars, regVars, countVars
<1> QED
  BY <1>1, <1>2, <1>3, <1>4, <1>5, <1>6, <1>7, <1>8, <1>9, <1>10, <1>11
    DEF Next

\* The counters account for every session that was ever registered, and the
\* gauge for the active ones.
THEOREM SessionsCounted == Spec => []CountersBalance
BY InitTypes, TypeStep, InitBalance, BalanceStep, PTL DEF Spec
=============================================================================
