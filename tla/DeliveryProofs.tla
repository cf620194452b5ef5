--------------------------- MODULE DeliveryProofs ---------------------------
(***************************************************************************)
(* The end to end promise follows from Delivery, for any set of messages.  *)
(***************************************************************************)
EXTENDS Delivery, TLAPS

\* Whoever acknowledged a correlation id got a message with it that asked.
AckedWasGot ==
  \A a \in acked : a.corr # 0 =>
    \E r \in got : r.name = a.by /\ r.msg.corr = a.corr /\ Wanted(r.msg)

\* The inductive invariant: what is done is in the log and was acknowledged.
IInv ==
  /\ log \in Seq(Message)
  /\ done \subseteq DOMAIN log
  /\ AckedWasGot
  /\ \A i \in done :
       (log[i].type = "Message" /\ Wanted(log[i])) =>
         [by |-> log[i].dest, corr |-> log[i].corr] \in acked

\* Every step keeps the invariant.
LEMMA IInvStep == IInv /\ [Next]_vars => IInv'
<1> SUFFICES ASSUME IInv, [Next]_vars PROVE IInv'
  OBVIOUS
<1> USE DEF IInv, AckedWasGot, Wanted
<1>1. CASE Accept
  <2>1. \A i \in DOMAIN log : i \in DOMAIN log' /\ log'[i] = log[i]
    BY <1>1 DEF Accept
  <2> QED
    BY <1>1, <2>1 DEF Accept
<1>2. CASE HandOver
  BY <1>2 DEF HandOver
<1>3. CASE Acknowledge
  <2>1. PICK a \in acked' \ acked :
          /\ acked' = acked \cup {a}
          /\ a.corr # 0 => \E r \in got : /\ r.name = a.by
                                          /\ r.msg.corr = a.corr
                                          /\ Wanted(r.msg)
    BY <1>3 DEF Acknowledge
  <2> QED
    BY <1>3, <2>1 DEF Acknowledge
<1>4. ASSUME NEW i \in DOMAIN log, Complete(i) PROVE IInv'
  BY <1>4 DEF Complete
<1>5. CASE UNCHANGED vars
  BY <1>5 DEF vars
<1> QED
  BY <1>1, <1>2, <1>3, <1>4, <1>5 DEF Next

\* A message that asked for an acknowledgement and is called delivered reached
\* its destination, whatever the broker did in between: the promise behind the
\* statuses of storage.hpp, of every implementation of Delivery.
THEOREM DeliveredReceived == Spec => []DeliveredWasReceived
<1>1. Init => IInv
  BY DEF Init, IInv, AckedWasGot
<1>2. IInv => DeliveredWasReceived
  <2> SUFFICES ASSUME IInv, NEW i \in done,
                      log[i].type = "Message", Wanted(log[i]), log[i].corr # 0
               PROVE  \E r \in got : /\ r.name = log[i].dest
                                     /\ r.msg.corr = log[i].corr
                                     /\ Wanted(r.msg)
    BY DEF DeliveredWasReceived
  <2> DEFINE a == [by |-> log[i].dest, corr |-> log[i].corr]
  <2>1. a \in acked
    BY DEF IInv
  <2>2. a.by = log[i].dest /\ a.corr = log[i].corr
    OBVIOUS
  <2> QED
    BY <2>1, <2>2 DEF IInv, AckedWasGot
<1> QED
  BY <1>1, <1>2, IInvStep, PTL DEF Spec
=============================================================================
