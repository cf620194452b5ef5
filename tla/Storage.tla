------------------------------ MODULE Storage ------------------------------
(***************************************************************************)
(* The SQLite store of the broker (class Storage, storage.cpp): the table  *)
(* `messages`, which only grows and whose row id is the position in the    *)
(* sequence, and the table `correlations`, which maps a correlation id and *)
(* the client that owns it to one message row.                             *)
(*                                                                         *)
(* Every method of Storage runs under db_mutex_ as one SQL statement, so   *)
(* each is a function from a table to the table it leaves behind; the      *)
(* threads that call them interleave between calls (module Broker).        *)
(*                                                                         *)
(* Data abstraction: the payload is left out (a message is told apart by   *)
(* its correlation id), created_at is left out (it is monotone in the row  *)
(* id, so "ORDER BY created_at" is the order of ids and "older than" is a  *)
(* prefix of them).                                                        *)
(***************************************************************************)
EXTENDS Naturals, Sequences

CONSTANTS
  Names,     \* the logical names clients register under
  NoName,    \* the empty string: no sender, no destination, nothing found
  Corrs,     \* the correlation ids clients use; 0 is "no correlation"
  DbMayFail  \* may sqlite3_step report an error?

ASSUME StorageAssumption ==
  /\ NoName \notin Names
  /\ Corrs \subseteq Nat \ {0}
  /\ DbMayFail \in BOOLEAN

VARIABLES
  messages,     \* the rows of the table messages, in the order of their ids
  correlations  \* the rows of the table correlations

storeVars == <<messages, correlations>>

Types == {"Register", "Message", "Reply", "Ack", "Unregister"}
Flags == {"NeedsReply", "NeedsAck"}
Status == {"PENDING", "SENT", "DELIVERED"}

\* Class Message without its payload.
Message == [type: Types, flags: SUBSET Flags, corr: Corrs \cup {0},
            sender: Names \cup {NoName}, dest: Names \cup {NoName}]

Row == [msg: Message, status: Status]
Correlation == [mid: Nat, corr: Corrs \cup {0}, owner: Names \cup {NoName}]

NeedsAckFlag(m) == "NeedsAck" \in m.flags

StorageTypeOK ==
  /\ messages \in Seq(Row)
  /\ correlations \subseteq Correlation

StorageInit ==
  /\ messages = <<>>
  /\ correlations = {}

-----------------------------------------------------------------------------
(* Table messages *)

\* Writes: the new row takes the next id, Len(t) + 1.
SaveMessage(t, m) == Append(t, [msg |-> m, status |-> "PENDING"])

\* UPDATE messages SET status = to WHERE id = ? AND status IN from.
Update(t, id, from, to) ==
  [i \in DOMAIN t |-> IF i = id /\ t[i].status \in from
                      THEN [msg |-> t[i].msg, status |-> to]
                      ELSE t[i]]

MarkDelivered(t, id) == Update(t, id, Status, "DELIVERED")

MarkSent(t, id) == Update(t, id, {"PENDING"}, "SENT")

\* A retry that takes back whatever the status is.
MarkPending_AnyStatus(t, id) == Update(t, id, Status, "PENDING")
MarkPending(t, id) == Update(t, id, {"SENT"}, "PENDING")

\* Does row id still wait for an acknowledgement?
NeedsAck(t, id) ==
  /\ id \in DOMAIN t
  /\ NeedsAckFlag(t[id].msg)
  /\ t[id].status = "SENT"

\* The rows a SELECT that stops at an error after some rows can return.
Prefixes(ids) == {ids} \cup
  (IF DbMayFail THEN {{i \in ids : i < k} : k \in ids} ELSE {})

LoadPendingMessagesOnly(t, name) ==
  {i \in DOMAIN t : /\ t[i].msg.dest = name
                    /\ t[i].status = "PENDING"
                    /\ t[i].msg.type # "Reply"}

\* A lookup that does not ask whose the correlation is.
LoadPendingRepliesForSenderOnly_AnyOwner(t, c, name) ==
  {i \in DOMAIN t : /\ t[i].msg.type = "Reply"
                    /\ t[i].status \in {"PENDING", "SENT"}
                    /\ \E r \in c : r.corr = t[i].msg.corr}
LoadPendingRepliesForSenderOnly(t, c, name) ==
  {i \in DOMAIN t : /\ t[i].msg.type = "Reply"
                    /\ t[i].status \in {"PENDING", "SENT"}
                    /\ \E r \in c : r.corr = t[i].msg.corr /\ r.owner = name}

\* The SENT rows among the ids up to `old`, the ones created more than the
\* timeout ago.
LoadExpiredSent(t, old) ==
  {i \in DOMAIN t : t[i].status = "SENT" /\ i <= old}

-----------------------------------------------------------------------------
(* Table correlations *)

\* INSERT OR REPLACE under the unique index on (correlation_id,
\* original_sender): a row with the same pair goes away.
SaveCorrelation(c, id, corr, owner) ==
  {r \in c : r.corr # corr \/ r.owner # owner}
    \cup {[mid |-> id, corr |-> corr, owner |-> owner]}

\* The rows "WHERE correlation_id = ? ORDER BY created_at DESC LIMIT 1" can
\* pick from: two rows of one second tie, so any row of the correlation id.
FindByCorrelation(c, corr) == {r \in c : r.corr = corr}

\* The correlation goes only when its owner itself acknowledged.
MarkAckReceived(c, id, acker) == {r \in c : r.mid # id \/ r.owner # acker}
=============================================================================
