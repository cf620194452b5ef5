----------------------------- MODULE MCBroker -----------------------------
(***************************************************************************)
(* Instances of Broker for TLC: clients a and b, and small sets of         *)
(* messages they may send.  A configuration picks one set as Requests.     *)
(***************************************************************************)
EXTENDS BrokerDelivery, TLC

CONSTANTS a, b, s1, s2, s3

SessionSymmetry == Permutations(SessionIds)

Msg(type, flags, corr, sender, dest) ==
  [type |-> type, flags |-> flags, corr |-> corr, sender |-> sender,
   dest |-> dest]

Register(n) == Msg("Register", {}, 0, n, NoName)
Unregister(n) == Msg("Unregister", {}, 0, n, NoName)

Ack(c, n) == Msg("Ack", {}, c, n, NoName)

\* b comes and goes; a, which never registers, sends it a message that wants
\* an acknowledgement.
AckOnly ==
  {Register(b), Unregister(b), Msg("Message", {"NeedsAck"}, 1, a, b), Ack(1, b)}

\* The same with two plain messages, and with messages the handlers ignore.
Plain ==
  {Register(b), Unregister(b), Msg("Message", {}, 1, a, b),
   Msg("Message", {}, 2, a, b), Register(NoName), Ack(0, b)}

\* Both come and go; a asks b and sends it a plain message, b answers.
Exchange ==
  {Register(a), Register(b), Unregister(b),
   Msg("Message", {"NeedsReply"}, 1, a, b), Msg("Reply", {}, 1, b, a),
   Msg("Message", {}, 2, a, b), Register(NoName), Ack(0, b)}

\* a asks b for an acknowledgement and an answer; b answers with and without
\* naming a, and asks for an acknowledgement of its own.
Replies ==
  {Register(a), Register(b),
   Msg("Message", {"NeedsAck", "NeedsReply"}, 1, a, b), Ack(1, b),
   Msg("Reply", {}, 1, b, a), Msg("Reply", {"NeedsAck"}, 1, b, NoName),
   Ack(1, a)}
=============================================================================
