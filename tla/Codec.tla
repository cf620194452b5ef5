------------------------------- MODULE Codec -------------------------------
(***************************************************************************)
(* The way of a message through its representations: the sending client    *)
(* serializes it (universal_client.cpp), the broker deserializes it        *)
(* (message.cpp), may store it as a row and load it again (storage.cpp),   *)
(* and serializes it for the receiving client.  Any other program may send *)
(* the broker bytes of its own making.                                     *)
(*                                                                         *)
(* A byte is a number below Base and a correlation id has CorrBytes bytes; *)
(* in the code 256 and 8.  The lengths of names take one byte, that of the *)
(* payload two, so a small Base brings every limit within reach.           *)
(***************************************************************************)
EXTENDS Integers, Sequences, SequencesExt

CONSTANTS
  Base,          \* the number of values of a byte
  CorrBytes,     \* the width of a correlation id
  Kinds,         \* the types clients give their messages
  FlagBytes,     \* and the flags
  Corrs,         \* the correlation ids they use
  SenderBytes,   \* the bytes of the names they send from,
  DestBytes,     \* of those they send to
  PayloadBytes,  \* and of their payloads
  MaxPayload,    \* a bound on the length of payloads
  ForeignBytes,  \* the bytes of others
  MaxForeign     \* a bound on the length of what others send

Byte == 0..(Base - 1)
Unsigned(width) == 0..(Base^width - 1)

ASSUME CodecAssumption ==
  /\ Base \in Nat /\ Base > 1 /\ CorrBytes \in Nat
  /\ Kinds \cup FlagBytes \subseteq Byte /\ Corrs \subseteq Unsigned(CorrBytes)
  /\ SenderBytes \cup DestBytes \cup PayloadBytes \cup ForeignBytes
       \subseteq Byte
  /\ MaxPayload \in Nat /\ MaxForeign \in Nat

PROTOCOL_VERSION == 1
HEADER_SIZE == 3 + CorrBytes + 2 + 2

Reply == 3  \* MessageType::Reply

\* Class Message.
Message == [type: Byte, flags: Byte, corr: Unsigned(CorrBytes),
            sender: Seq(Byte), dest: Seq(Byte), payload: Seq(Byte)]

Blank == [type |-> 0, flags |-> 0, corr |-> 0, sender |-> <<>>, dest |-> <<>>,
          payload |-> <<>>]

-----------------------------------------------------------------------------
(* Bytes *)

\* HostToNetwork of the low `width` bytes of v without the mask.
BigEndian_NoMask(v, width) == [k \in 1..width |-> v \div Base^(width - k)]

\* HostToNetwork of v, cast to `width` bytes.
BigEndian(v, width) == [k \in 1..width |-> (v \div Base^(width - k)) % Base]

NetworkToHost(bytes) == FoldLeft(LAMBDA v, byte : v * Base + byte, 0, bytes)

\* Message::Serialize of a message it does not throw for.
Serialize(m) ==
  <<PROTOCOL_VERSION, m.type, m.flags>>
    \o BigEndian(m.corr, CorrBytes)
    \o BigEndian(Len(m.sender), 1)
    \o BigEndian(Len(m.dest), 1)
    \o BigEndian(Len(m.payload), 2)
    \o m.sender \o m.dest \o m.payload

NamesFit(m) == Len(m.sender) < Base /\ Len(m.dest) < Base
PayloadFits(m) == Len(m.payload) < Base^2

\* Message::Serialize of the broker throws unless
Serializable(m) == NamesFit(m) /\ PayloadFits(m)

\* and that of the client, which does not look at the length of the payload,
ClientSerializable(m) == NamesFit(m)

\* Where the sender, the destination and the payload of data end, by its header.
SenderEnd(data) == HEADER_SIZE + data[4 + CorrBytes]
DestEnd(data) == SenderEnd(data) + data[5 + CorrBytes]
PayloadEnd(data) ==
  DestEnd(data) + NetworkToHost(SubSeq(data, 6 + CorrBytes, 7 + CorrBytes))

HeaderOK(data) ==
  Len(data) >= HEADER_SIZE /\ data[1] = PROTOCOL_VERSION

\* An Accepted that lets more bytes follow.
Accepted_AtLeast(data) == HeaderOK(data) /\ Len(data) >= PayloadEnd(data)

\* The tests of Message::Deserialize, of the broker and of the client.
Accepted(data) == HeaderOK(data) /\ Len(data) = PayloadEnd(data)

\* What it makes of data that passes them.
Deserialize(data) ==
  [type    |-> data[2],
   flags   |-> data[3],
   corr    |-> NetworkToHost(SubSeq(data, 4, 3 + CorrBytes)),
   sender  |-> SubSeq(data, HEADER_SIZE + 1, SenderEnd(data)),
   dest    |-> SubSeq(data, SenderEnd(data) + 1, DestEnd(data)),
   payload |-> SubSeq(data, DestEnd(data) + 1, PayloadEnd(data))]

-----------------------------------------------------------------------------
(* Rows *)

\* A string bound by c_str() ends before its first zero byte.
CString(name) ==
  LET zero == SelectInSeq(name, LAMBDA byte : byte = 0)
  IN  IF zero = 0 THEN name ELSE SubSeq(name, 1, zero - 1)

\* A correlation id is stored as a signed number, and cast back.
ToInt64(corr) ==
  IF 2 * corr < Base^CorrBytes THEN corr ELSE corr - Base^CorrBytes
ToUint64(column) == column % Base^CorrBytes

\* SaveMessage that stores the correlation id as it is, up to the largest
\* signed number.
RowOf_Clamped(m) ==
  [m EXCEPT !.corr = IF ToInt64(@) >= 0 THEN @ ELSE 0,
            !.sender = CString(@), !.dest = CString(@)]

\* SaveMessage.
RowOf(m) ==
  [m EXCEPT !.corr = ToInt64(@), !.sender = CString(@), !.dest = CString(@)]

\* The loops that load rows; a payload that is NULL is left empty.
Loaded(row) == [row EXCEPT !.corr = ToUint64(@)]

-----------------------------------------------------------------------------
(* The way of a message *)

VARIABLES
  stage,   \* how far it has come
  msg,     \* what the sending client wrote
  wire,    \* the bytes on their way to the broker, or to the receiver
  held,    \* the broker's Message
  owner,   \* the name a reply was redirected to
  stored,  \* has it been stored?
  got      \* what the receiving client read

vars == <<stage, msg, wire, held, owner, stored, got>>

Init ==
  /\ stage = "compose"
  /\ msg \in [type: Kinds, flags: FlagBytes, corr: Corrs, sender: {<<>>},
              dest: {<<>>}, payload: {<<>>}]
  /\ wire = <<>>
  /\ held = Blank
  /\ owner = <<>>
  /\ stored = FALSE
  /\ got = Blank

\* A client writes a message, up to one byte longer than a name may be.
Compose ==
  /\ stage = "compose"
  /\ \/ \E byte \in SenderBytes :
          /\ Len(msg.sender) < Base
          /\ msg' = [msg EXCEPT !.sender = Append(@, byte)]
     \/ \E byte \in DestBytes :
          /\ Len(msg.dest) < Base
          /\ msg' = [msg EXCEPT !.dest = Append(@, byte)]
     \/ \E byte \in PayloadBytes :
          /\ Len(msg.payload) < MaxPayload
          /\ msg' = [msg EXCEPT !.payload = Append(@, byte)]
  /\ UNCHANGED <<stage, wire, held, owner, stored, got>>

ClientSend ==
  /\ stage = "compose"
  /\ ClientSerializable(msg)
  /\ wire' = Serialize(msg)
  /\ stage' = "toBroker"
  /\ UNCHANGED <<msg, held, owner, stored, got>>

\* Another program sends bytes, and no client is waiting for its message.
ForeignByte ==
  /\ stage \in {"compose", "foreign"}
  /\ stage = "compose" => msg = Blank
  /\ Len(wire) < MaxForeign
  /\ \E byte \in ForeignBytes : wire' = Append(wire, byte)
  /\ stage' = "foreign"
  /\ UNCHANGED <<msg, held, owner, stored, got>>

\* OnZmqEvent deserializes; what throws is logged and dropped.
BrokerReceive ==
  /\ stage \in {"toBroker", "foreign"}
  /\ IF Accepted(wire)
     THEN /\ stage' = "held"
          /\ held' = Deserialize(wire)
          /\ msg' = IF stage = "foreign" THEN held' ELSE msg
     ELSE stage' = "dropped" /\ UNCHANGED <<msg, held>>
  /\ UNCHANGED <<wire, owner, stored, got>>

\* The owner of a correlation id: the sender of a message, as a row gives it back.
Owners == UNION {[1..n -> SenderBytes \ {0}] : n \in 1..(Base - 1)}

\* ReplyHandler sends a reply to the owner of its correlation id, if it has one.
Redirect ==
  /\ stage = "held"
  /\ held.type = Reply
  /\ ~stored
  /\ owner = <<>>
  /\ \E name \in Owners :
       held' = [held EXCEPT !.dest = name] /\ owner' = name
  /\ UNCHANGED <<stage, msg, wire, stored, got>>

\* The destination is offline: the message is stored, and loaded later.
Store ==
  /\ stage = "held"
  /\ ~stored
  /\ held' = Loaded(RowOf(held))
  /\ stored' = TRUE
  /\ UNCHANGED <<stage, msg, wire, owner, got>>

\* SendZmqMessage; when Serialize throws it marks the session offline.
BrokerSend ==
  /\ stage = "held"
  /\ IF Serializable(held)
     THEN stage' = "toClient" /\ wire' = Serialize(held)
     ELSE stage' = "failed" /\ UNCHANGED wire
  /\ UNCHANGED <<msg, held, owner, stored, got>>

\* ReceiverLoop: what throws is ignored.
ClientReceive ==
  /\ stage = "toClient"
  /\ IF Accepted(wire)
     THEN stage' = "received" /\ got' = Deserialize(wire)
     ELSE stage' = "unread" /\ UNCHANGED got
  /\ UNCHANGED <<msg, wire, held, owner, stored>>

Next ==
  \/ Compose
  \/ ClientSend
  \/ ForeignByte
  \/ BrokerReceive
  \/ Redirect
  \/ Store
  \/ BrokerSend
  \/ ClientReceive

Spec == Init /\ [][Next]_vars

-----------------------------------------------------------------------------
(* Properties *)

\* Every variable keeps its type; what is on the wire is bytes.
TypeOK ==
  /\ stage \in {"compose", "foreign", "toBroker", "held", "toClient",
                "dropped", "failed", "received", "unread"}
  /\ msg \in Message
  /\ wire \in Seq(Byte)
  /\ held \in Message
  /\ owner \in Seq(Byte)
  /\ stored \in BOOLEAN
  /\ got \in Message

\* Message m with the destination ReplyHandler gave it.
Routed(m) == IF owner = <<>> THEN m ELSE [m EXCEPT !.dest = owner]

\* The broker reads a client's message as the client wrote it, or drops it: a
\* payload too long for its length field, which the client writes modulo 2^16,
\* is never taken for a shorter one.
ReadAsWritten ==
  /\ (stage = "held" /\ ~stored) => held = Routed(msg)
  /\ (stage = "dropped" /\ msg # Blank) => ~PayloadFits(msg)

\* Nothing the broker takes has bytes that Message does not account for, whoever
\* sent it: written again it is the same bytes, but for the destination of a
\* redirected reply, so SendZmqMessage never throws (which would mark the client
\* offline).
TakenWhole ==
  /\ (stage = "held" /\ ~stored /\ owner = <<>>) => Serialize(held) = wire
  /\ stage # "failed"

\* The receiver reads what the sender wrote, sent at once or by way of the
\* store, but for names with a zero byte, which a row cuts short, and for the
\* destination of a reply, which is the owner of its correlation id.
ReceivedAsSent ==
  /\ stage = "received" =>
       got = IF stored
             THEN [Routed(msg) EXCEPT !.sender = CString(@), !.dest = CString(@)]
             ELSE Routed(msg)
  /\ stage # "unread"
=============================================================================
