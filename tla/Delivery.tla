------------------------------ MODULE Delivery ------------------------------
(***************************************************************************)
(* What the broker promises its clients, without sessions, queues, threads *)
(* and retries: a log of the messages it has taken over, which survives a  *)
(* crash, and the part of it that is done with.                            *)
(*                                                                         *)
(*   - what is in the log stays there unchanged, and done is final;        *)
(*   - a client is handed only what is in the log, and a message only by   *)
(*     the name it is addressed to;                                        *)
(*   - a message that asks for an acknowledgement is done only when its    *)
(*     destination has given one.                                          *)
(*                                                                         *)
(* Clients acknowledge what they got.  Module BrokerDelivery shows that    *)
(* Broker implements this specification.                                   *)
(***************************************************************************)
EXTENDS Naturals, Sequences

CONSTANT Message  \* the messages, records with type, flags, corr and dest

VARIABLES
  log,    \* the messages taken over, in that order
  done,   \* the positions of those that need no more delivering
  got,    \* who got what: records with name and msg
  acked   \* who acknowledged what: records with by and corr

vars == <<log, done, got, acked>>

Wanted(m) == "NeedsAck" \in m.flags

Init ==
  /\ log = <<>>
  /\ done = {}
  /\ got = {}
  /\ acked = {}

\* The log grows: by a message, or by the queue of a session that ends.
Accept ==
  /\ log' \in Seq(Message)
  /\ Len(log) <= Len(log')
  /\ \A i \in DOMAIN log : log'[i] = log[i]
  /\ UNCHANGED <<done, got, acked>>

\* A client gets a message.  Notices that somebody acknowledged are not logged
\* when they can be sent at once.
HandOver ==
  /\ \E r \in got' \ got :
       /\ got' = got \cup {r}
       /\ r.msg.type \in {"Message", "Reply"} =>
            \E i \in DOMAIN log : log[i] = r.msg
       /\ r.msg.type = "Message" => r.name = r.msg.dest
  /\ UNCHANGED <<log, done, acked>>

\* A client acknowledges what it got; an acknowledgement of nothing, with
\* correlation id 0, is ignored.
Acknowledge ==
  /\ \E a \in acked' \ acked :
       /\ acked' = acked \cup {a}
       /\ a.corr # 0 => \E r \in got : /\ r.name = a.by
                                       /\ r.msg.corr = a.corr
                                       /\ Wanted(r.msg)
  /\ UNCHANGED <<log, done, got>>

\* Message i is done.
Complete(i) ==
  /\ i \notin done
  /\ (log[i].type = "Message" /\ Wanted(log[i])) =>
       [by |-> log[i].dest, corr |-> log[i].corr] \in acked
  /\ done' = done \cup {i}
  /\ UNCHANGED <<log, got, acked>>

Next ==
  \/ Accept
  \/ HandOver
  \/ Acknowledge
  \/ \E i \in DOMAIN log : Complete(i)

Spec == Init /\ [][Next]_vars

-----------------------------------------------------------------------------
(* Properties *)

\* A message that asked for an acknowledgement is called delivered only after
\* its destination got, under that correlation id, a message that asks for one:
\* neither a crash nor a retry nor a lost session makes the broker forget
\* a message that its destination never had.
DeliveredWasReceived ==
  \A i \in done :
    (log[i].type = "Message" /\ Wanted(log[i]) /\ log[i].corr # 0) =>
      \E r \in got : /\ r.name = log[i].dest
                     /\ r.msg.corr = log[i].corr
                     /\ Wanted(r.msg)
=============================================================================
