--------------------------- MODULE BrokerDelivery ---------------------------
(***************************************************************************)
(* Broker implements Delivery: the log is the table messages without the   *)
(* status of its rows, what is done is what has the status DELIVERED.      *)
(***************************************************************************)
EXTENDS Broker

\* What the broker relies on in its clients, as universal_client does it.  A
\* correlation id is drawn from 64 random bits, so the messages that want an
\* answer of some kind do not share one with a message that wants an
\* acknowledgement; a reply names the client that asked, or nobody.
ASSUME ClientAssumption ==
  /\ \A m, other \in Requests :
       (/\ m.type = "Message" /\ NeedsAckFlag(m) /\ m.corr # 0
        /\ other.type = "Message" /\ other.flags # {}
        /\ other.corr = m.corr) => other = m
  /\ \A m, reply \in Requests :
       (/\ m.type = "Message" /\ "NeedsReply" \in m.flags
        /\ reply.type = "Reply" /\ reply.corr = m.corr) =>
         reply.dest \in {NoName, m.sender}

D == INSTANCE Delivery
       WITH log <- [i \in DOMAIN messages |-> messages[i].msg],
            done <- {i \in DOMAIN messages :
                       messages[i].status = "DELIVERED"},
            got <- received,
            acked <- acks

\* Every step of the broker, a crash and a failing write among them, is a step
\* of Delivery or changes nothing there: rows are never lost or rewritten,
\* DELIVERED is final and comes after the acknowledgement, messages are stored
\* before they are sent and reach the client they name.
ImplementsDelivery == D!Spec

\* The end to end promise of Delivery, of the broker's own state.
DeliveredWasReceived == D!DeliveredWasReceived
=============================================================================
