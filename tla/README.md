# Verification of the asynchronous message broker

TLA+ models of the broker in `src/` (a ZeroMQ ROUTER server that stores
messages in SQLite, keeps a session for each client and delivers messages,
replies and acknowledgements), TLC runs that check them on small instances, and
theorems checked by TLAPS. `PROJECT.json` lists components, runs, mutants, the
correspondence between definitions and source lines, findings, hazards and
theorems.

## 1. The system

| component | state | operations | meets the others through |
|---|---|---|---|
| `Storage` (storage.cpp) | tables `messages` (id, message, status PENDING/SENT/DELIVERED) and `correlations` (message id, correlation id, owner) | save, three status updates, lookups by correlation, loads of pending / reply / expired rows | called by handlers and by both timers, each call under `db_mutex_` |
| `Session` (session.cpp) | `is_online_`, `outgoing_queue_`, `last_receive_` | SendMessage, FlushQueue, PersistQueueToDatabase, MarkOffline, destructor | owned by `shared_ptr`s of the registry and of running handlers; hands sends to the server; persists through the router |
| `Router` (router.cpp) | `active_clients_`, `identity_to_name_` under `registry_mutex_` | RouteMessage, UpsertClient, UnregisterClient, FindSession, DeliverOfflineMessages, DeliverPendingReplies, CleanupInactiveSessions, CheckExpiredAcks | called by the server's event callback and timers |
| handlers (message_handler.cpp) | none | Register, Message, Reply, Ack, Unregister | call Storage, Router and Session step by step |
| `Server` (server.cpp) | `pending_sends_`, `sending_in_progress_`, `running_`, timers, socket | OnZmqEvent, SendToClient, ScheduleSendProcessing, ProcessPendingSends, Run, Stop | a pool of threads runs all callbacks |
| `Message` (message.cpp) | the fields of a message | Serialize, Deserialize | everywhere |
| `MetricsManager` (metrics.cpp) | atomic counters, a gauge, the updater's thread | count, publish every two seconds | called under the registry mutex and by the server |
| `main` (main.cpp), `Config` | `g_shutdown_requested` and its mutex, `g_server_ptr` | parse, construct, wait, stop, join, destroy; the signal handler | the handler runs on any thread and calls Stop |
| `universal_client` (examples) | its pending requests | sends messages, acknowledges, replies | the environment of the model |

What is hard about it:

* Handlers run one message at a time, but both timers and the sending of queued
  messages run beside them on other threads, and every call takes and releases
  its own mutex. What a handler read (a session is online, a row is SENT) may be
  stale at its next call.
* A session can be replaced, expire, be erased and be destroyed while a handler
  or the retry timer still holds it.
* A message has three places: its row, a session's queue and the server's send
  queue. Only the row survives a crash.
* Acknowledgements race the retry timer; replies, requests and acknowledgements
  share one correlation table with a uniqueness rule.
* Database writes may fail in the middle of a handler. Exceptions of handlers
  are caught; those of timers and of `~Session` end the process.
* The send queue is drained by whichever thread gets there, with a flag read
  outside the mutex. The same threads share the socket and its descriptor, which
  falls silent when any of them has looked at what came in.
* A signal interrupts any thread at any point and stops the server from there,
  while workers are in their callbacks and main may not yet wait for it.
* Clients choose names and routing ids independently; two maps follow them.

What makes each component correct:

* Storage and handlers: the status of a row never says more than happened
  (`AckedBeforeDelivered`, `DeliveredWasReceived`), never goes back from DELIVERED
  (`DeliveredIsFinal`), and every step, faults included, is one the abstract broker
  may take (`ImplementsDelivery`); replies go to who asked (`RepliesToRequester`);
  an acknowledgement finds its row (`AwaitedAckCanArrive`). What is DELIVERED is not
  lost (`NoSilentLoss`, which the code does not keep), or at least by nothing but
  the socket (`SocketAloneLoses`).
* Sessions: a queue holds only what came after the session went offline and stays
  small (`OnlineQueueEmpty`, `QueueBounded`); no message but copies waits for a
  client that is online (`NoBacklogWhileOnline`).
* Router: the two maps agree (`OwnSession`), a client that talks does not expire
  (`NeverStaler`), dead sessions go (`DeadSessionsGo`), the counters add up
  (`CountersBalance`), no handler waits forever (`EventLoopResponsive`).
* Send queue: every send is taken once and its callback is called (`InOneHand`,
  `NoLostWakeup`, `FlagMeansBatch`, `ImplementsOutbound`); what comes in is noticed
  (`OnlySendsSilence`).
* Life of the process: one Stop (`StopsOnce`), no use after destruction
  (`ServerOutlivesUsers`), a signal ends it (`ShutdownCompletes`, with two
  exceptions), one thread at a time at what is shared (`SharedStateGuarded`).
* Encoding: what arrives is what was sent (`ReadAsWritten`, `TakenWhole`,
  `ReceivedAsSent`).

## 2. The modules

| module | models | extends |
|---|---|---|
| `Storage` | the two tables; each SQL statement is a function on a table | |
| `Sessions` | Session objects, the registry, the send queue as a sequence | `Storage` |
| `Broker` | the event callback with its five handlers, the retry timer, the cleanup timer, the socket, crashes | `Sessions` |
| `Delivery` | abstract: a log of messages, those done with, who got and who acknowledged what | |
| `BrokerDelivery` | `Broker` with the refinement mapping to `Delivery` | `Broker` |
| `SendQueue` | the threads around `pending_sends_` and the socket, by critical section | |
| `Outbound` | abstract: the promise of `IMessageSender`, with fairness; instanced by `SendQueue` | |
| `Registry` | both maps of the router, routing ids apart from names, ages, counters | |
| `Lifecycle` | main, the signal handler, Server's construction, Run, Stop and destruction, the workers' callbacks, the updater | |
| `Codec` | a message through client, wire, broker, row and wire again | |
| `MCBroker`, `MCSendQueue`, `MCRegistry`, `MCLifecycle` | instances for TLC | the module of their name |
| `BrokerProofs`, `SendQueueProofs`, `DeliveryProofs`, `RegistryProofs`, `LifecycleProofs` | theorems | the module of their name |
| `BrokerQueueProofs` | theorems about the queues of `Broker` | `BrokerProofs` |
| `BrokerDeliveryProofs` | theorems about the ways of a message, the refinement | `BrokerDelivery`, `BrokerProofs` |
| `BrokerLossProofs` | theorems about messages that are lost or left waiting | `BrokerDeliveryProofs` |

**Storage.** A row id is a position in `messages`, since rows are never deleted.
`MarkSent` and `MarkPending` keep the `AND status = ?` of their statements;
`SaveCorrelation` is INSERT OR REPLACE under the unique index on correlation id
and owner. Payloads are left out; a message is told apart by its correlation
id, which clients draw from 64 bits. `created_at` is monotone in the row id, so
"ORDER BY created_at" is the order of ids and "older than" a prefix of them.

**Sessions.** `is_online_` and the life of the object are one status. A failed
send calls `MarkOffline` on the captured session. The exceptions that
`SendZmqMessage` catches (session.cpp:83-89) do the same at once and drop the
message: that is a push which the socket refuses in the next step, and has no
branch of its own (`Serialize` does not throw for what the broker has read or
loaded, as `TakenWhole` shows). No source file calls `MarkOnline`: an offline
session never returns. Clients use their name as
routing id, as `universal_client` does, so `identity_to_name_` adds nothing here;
clients that do not are the subject of `Registry`.

**Broker.** `ev`, `ak` and `cl` are the program counters and locals of the
event callback, the retry timer and the cleanup timer. A step is one call into
Storage, Session or the registry; calls that only read, or whose reads nobody
else changes before the next call, are merged with it. `ev.refs` are the
`shared_ptr`s in the frames of the callback: they decide when `~Session` runs.
`registry` is "cleanup" while `CleanupInactiveSessions` holds the mutex over
several steps; everyone else needs it "free". With `DbMayFail` a write may throw
and a SELECT may stop early. `Restart` is what remains when the process ends:
the store. Four auxiliary variables record history for the properties and feed
`ClientMaySend`: what clients sent, what they received, what the socket was
given, whatever came of it (`offered`), and which acknowledgements came in. A
message that leaves the send queue is received, dropped by the ROUTER without a
word, or refused, which runs the session's callback: only the first makes it
`Accounted`.

Branches that cannot happen have no action: `SendMessage` always returns true,
so the branches for false (router.cpp:192-195, 243-245, 350-353;
message_handler.cpp:103-118, 190-205, 275-277) are dead, and so is the exception
path of MessageHandler's send (120-135), as an enqueue that throws would need a
queue over its threshold, which `QueueBounded` excludes.

**Delivery and BrokerDelivery.** `Delivery` has a log that only grows, a set of
positions that are done, and what clients got and acknowledged. The mapping takes
the log to be the rows without their status, and done to be those that are
DELIVERED. A crash is a step that changes nothing there, which is the point: what
`Delivery` knows is what the store and the clients know. Replies are asked no
acknowledgement of, since `DeliverPendingReplies` marks them DELIVERED as soon as
they are queued (router.cpp:241).

**SendQueue and Outbound.** One event callback (it re-arms its descriptor last),
any number of workers, and items that are pushed once. `RunTask` is the posted
lambda that tests the flag outside the mutex; `OnZmqEvent` does not test it. The
descriptor follows ZeroMQ's rule that it is an edge: it is readable when
something came in that no call on the socket has looked at. `Events` and a `recv`
that finds nothing look at everything, and any send may (ZeroMQ checks at most
once in a while). Asio's wait is level-triggered on it. When the wait ends with an
error OnZmqEvent waits again and does nothing else (server.cpp:108-124): that
changes nothing here, and `Lifecycle` has it as a case of `Dispatch`. `Outbound` is
mapped by `fate <- outcome` and `up <- running`.

**Registry.** A message is received under `registry_mutex_` (the session of its
routing id is refreshed) and handled in later steps, between which cleanup,
failing sends, the clock and the updater may act. The age of a session stands
for `now - last_receive_`. `stuck` is the mutex that cleanup locks twice when
there are metrics; both kinds of server are initial states. `Publish` takes the
counters and adds them to the published ones in one step: the updater is the only
one to write the latter and no thread of the broker reads them. `quiet` and `used`
are auxiliary: how long an id was silent and which names it registered.

**Lifecycle.** `pc` is where a thread is, `handler` where a signal handler is that
interrupts it, `stopAt` where it is in Stop, which it may have entered from the
handler, from main or from the destructor. A thread in its handler does not go
on. One session stands for all, the two timers are one, and a timer is replaced
in a step after the look at `running_`. `aborted` is an exception that leaves a
thread. A worker that is interrupted between the lock and the unlock of
`pending_sends_mutex_`, and main inside its critical section, are the states from
which the handler never returns (`SelfLocked`). A cleanup that removes a session
stays in the lock of the mutex it holds (`Relocked`), since Server always has
metrics (server.cpp:19, 39; router.cpp:313, 360); from then on no other callback
gets the registry, and the joins of Run and main wait for that worker.

**Codec.** A byte is a number below `Base` and the widths of the length fields are
those of the code, so that with a small base the messages that just fit and just
do not fit are a few bytes long. `Serialize` and `Deserialize` follow message.cpp;
the client differs in that it does not check the payload's length. `CString` and
`ToInt64` are what a row does to names and correlation ids. `Redirect` is the new
destination that ReplyHandler gives a reply before it saves and sends it, kept in
`owner` so that the properties can tell it from a change on the way.

## 3. The runs

| run | scenario | states | shows |
|---|---|---|---|
| `retry` | a message with NEEDS_ACK, ACKs at any time and repeated, retry and cleanup timers, two sessions, failing writes and crashes | 1.2 M | types, ACK before DELIVERED, DELIVERED was received and is final, queues empty while online and at most two; implements `Delivery` |
| `replacement` | a request, its reply and a plain message; register, unregister, expiry, ignored messages; fairness; no metrics | 0.34 M | nothing but the socket loses what is DELIVERED; no backlog; the event callback always gets through |
| `replies` | request and replies with NEEDS_ACK, failing writes, rollback, crashes | 1.1 M | replies reach the requester only; implements `Delivery` |
| `send_queue` | two workers and the callback, three sends, two messages waiting, Stop, fairness | 0.95 M | flag, wakeups, one hand; only a task's send silences the descriptor; implements `Outbound` |
| `lifecycle` | one signal on any thread at any time, two workers, one send, a cleanup that removes a session, fairness | 0.20 M | one Stop, no use after destruction, the process ends, with two exceptions |
| `registry` | two names, two ids, one second of timeout, counted registrations, fairness | 0.53 M | maps agree, no early expiry, counters, dead sessions go |
| `codec` | base 4, names up to 4 and payloads up to 17 bytes, 12 foreign bytes, messages and redirected replies | 0.31 M | read as written, taken whole, received as sent |

Five runs expect a violation; each is a finding with the line it contradicts:

| run | what TLC finds |
|---|---|
| `crash_loss` | a crash after MarkDelivered and before the send loses the message: the socket was never given it |
| `socket_loss` | without a crash or a failing write: a message stored for an offline client is sent when the client registers and marked DELIVERED, then the socket drops it because the client has gone |
| `ack_orphaned` | a dropped late ACK, then a reply that replaces the correlation: the retried request can never be acknowledged |
| `metrics_relock` | cleanup locks a mutex it holds; handlers wait forever |
| `shared_state` | Stop cancels a timer that another thread is replacing; its other conjuncts (two threads at the socket, the socket used after its close, sessions with queued messages destroyed after the store) fail too when each is checked alone |

`AwaitedAckCanArrive` fails along a second path too (the requests `AckOnly` with
two sessions): a queued message that is persisted becomes a second row without a
correlation, and once that row is SENT no ACK can find it.

`ShutdownCompletes` has two exceptions. The handler may wait for a mutex of the
thread it interrupted; and once cleanup has removed a session, its worker is stuck
in a lock of its own, so that a signal stops the server (its timers, its io_context,
its socket) and the process stays. The second is what `metrics_relock` finds, seen
from main.

`NoBacklogWhileOnline` is checked by TLC without retries, where no write fails; that
it holds with retries and with crashes is the theorem `NothingLeftWaiting`. In
`retry` cleanup removes the sessions that are offline; with sessions that also
expire while they are online the instance has twice the states (2.4 M) and passes as
well, and each of its properties is a theorem that allows expiry.

`OnlySendsSilence` says what can go wrong as much as what cannot: when a posted
task sends while the callback waits, a message that has just come in can lose its
announcement and waits until something else happens to the socket. The callback's
own sends are harmless, because it reads the events after them.

**Bounds.** Two clients: one sender and one receiver are what each property
relates, and a client that is both is covered by requests with replies. Two
sessions let one be replaced while it is in use. `MaxOutbox` (one or two) bounds
how far the socket lags; a full outbox only delays a sender. A message is sent
once; the store holds more rows by copies, notifications and replies. `Threshold`
keeps its source value of 100. Session ids are symmetric in the runs without
liveness. In `send_queue` two workers and the callback give the three threads
that the flag race needs, and two waiting messages tell a loop that reads all
from one that reads once (`MaxInbox`). In `registry` two names and two ids give
every way to share and to swap; `MaxRegs` bounds what is counted, and without
metrics registrations are unbounded. In `lifecycle` a second signal would find
the request made (`MaxSignals`), and one send (`MaxSends`; two in `shared_state`)
puts a worker behind each mutex. In `codec` the names reach one byte more than
their length field holds and the payload two more (`MaxPayload`), correlation ids
lie on both sides of the sign bit, and `MaxForeign` is a header and three bytes.

**Fairness.** A thread in the middle of a callback goes on, and the pool runs
posted tasks (weak fairness). The handlers and the retry timer get strong
fairness, because they wait for a mutex that cleanup holds for a moment every
ten seconds and that is free otherwise. Nothing is assumed of clients, of the
timers' firing, or of the socket's success. In `lifecycle` each thread goes on
with what it is doing, and main leaves its wait when it is notified; signals,
messages and timers need never come. In `registry` the cleanup timer fires time
and again, as it sets itself anew every ten seconds. `Outbound` asks for the
callback of every send while the server is up, and `SendQueue` has that from weak
fairness of threads and pool alone.

Deadlock is checked except in `send_queue`, where a stopped server stops, in
`codec`, where a message ends its way, and in `metrics_relock`, whose point it is.
`lifecycle` names the states in which nothing more need happen (`Halted`).

## 4. The proofs

Assumptions are those of the modules: names, correlation ids and sessions differ
from the "none" values, `Threshold >= 2`, the switches are Booleans, requests are
messages; in `Lifecycle` main, server_thread and the updater differ from each
other and from the workers. Only the names of `Registry` are assumed finite,
because its counters count them. Failing writes, crashes, retries, expiry and
metrics are all allowed, unless a theorem says otherwise: those of BrokerLossProofs
do. `BrokerDelivery` adds `ClientAssumption`, of which only the theorems of
BrokerDeliveryProofs and BrokerLossProofs make use: a message that wants an
acknowledgement shares its correlation id with no other message that wants an
answer (`universal_client` draws ids from 64 random bits), and a reply names the
client that asked or nobody (`universal_client` answers the sender of what it
received). Without the first, an acknowledgement of one message would mark the
other DELIVERED.

The store and the sessions:

* `BrokerTypes` (BrokerProofs). The inductive invariant `WellFormed` adds to
  `TypeOK` that each activity, at each of its steps, holds what it is about to
  use: a session when it sends, a row when it updates (`EvRefsOK`, `AkRefsOK`,
  `ClRefsOK`). That rows are never deleted makes this stable under the steps of
  the others, and that cleanup holds the registry makes `ClRefsOK` stable.
* `DeliveredStays` (BrokerProofs). `DeliveredIsFinal`: each statement moves a row
  only forward (`Later`), and the two that could take it back, MarkSent and
  MarkPending, test the status they find.
* `OnlineQueuesEmpty`, `QueuesBounded` (BrokerQueueProofs). `QueueBounded` is not
  inductive: it says nothing of who is about to send. `CommittedBound` counts
  with the queue of a session the activities that have decided to send to it;
  the sum is at most two, since an activity decides only for a session that it
  finds online, whose queue is then empty (`OnlineQueueEmpty`), and each of the
  two activities decides once at a time.

The way of a message (BrokerDeliveryProofs):

* The inductive invariant `DeliveryInv` says of every place a message passes
  through what may be there. Rows hold what a client sent (`RowsStorable`);
  what waits in a session's queue or in the send queue is in the store and is for
  the client of that session (`CarriedSendable`), and so is what was received
  (`ReceivedSendable`); a correlation leads to a row with its id and to a client
  that asked (`CorrelationsLead`); a callback between two of its calls still works
  on the row, the message and the session it looked up (`EvKnows`, `AkKnows`); and
  clients acknowledge only what they received, and reply after they acknowledged
  (`ClientsHonest`). None of these parts can be left out: a message moves from
  the row through the callback's locals into two queues and to the client, its
  acknowledgement comes back through the correlation, and a crash can fall between
  any two of these.
* `AcknowledgedFirst` (`AckedBeforeDelivered`), `RepliesFindRequester`
  (`RepliesToRequester`) and `DeliveredReached` (`DeliveredWasReceived`) follow
  from it.
* `BrokerDelivers` (`ImplementsDelivery`). The refinement, action by action: the
  initial store is empty, a saved row is a log entry, MarkDelivered is a step of
  `Delivery` that needs the acknowledgement `DeliveryInv` provides, a successful
  send is a reception, and everything else, `Restart` included, is a stutter.
* `DeliveredReceived` (DeliveryProofs). Of the abstract broker: done messages are
  acknowledged and acknowledgements are of what was got. Through `BrokerDelivers`
  it holds of the broker.

No message lost, none left behind (BrokerLossProofs):

* `NothingLost` (`SocketAloneLoses`, without failing writes and crashes). A message
  is in several places at once, and for a moment only in a callback's hands. `LossInv`
  says that the message of a row that is DELIVERED is handed over (`Handed`): it
  was given to the socket, is in the send queue or in a session's queue, or waits
  in a later row; for a row that is SENT the event callback may still be about to
  send it. The invariant has to speak of SENT rows, because an acknowledgement or a
  retry takes a SENT row further without looking at the message; of the rows the
  callbacks have in hand, which they mark later (`EvHanded`, `AkHanded`); and of the
  names in the queues (`Addressed`), because ~Session and PersistQueueToDatabase
  write the session's name into the row they save. `Handed` points to later rows
  only, so that a copy that is delivered in its turn hands on its duty. That a step
  drops nothing from a queue without sending or saving it (`NothingDropped`) is
  proved for each operation of Sessions.
* `CleanEndsLoseNothing` (`SocketAloneLoses`, with everything that may fail). If the
  process ends only while nothing is in memory alone, that is the queues are empty
  and no handler is between its mark and its send (`NothingInMemory`), nothing but
  the socket loses a message. A failing write alone loses nothing.
* `TwoWaysToLose` (`NoSilentLoss`). If in addition everything the socket is given
  reaches a client (`EverySendArrives`), nothing that is DELIVERED is lost at all.
  Both hypotheses are needed: `socket_loss` and `crash_loss` are the behaviours
  without the one and without the other. Neither hypothesis is one that the code
  ensures; the theorem says that nothing else in the broker (replacement, expiry,
  destruction of sessions, rollbacks, retries, failing writes) loses a message.
* `NothingLeftWaiting` (`NoBacklogWhileOnline`, without failing writes, crashes
  included). `BacklogInv` says who is about to deal with a row that is PENDING while
  its client is online: the handler that saved it, the delivery of the backlog that
  has loaded it or is about to load it (`EvCares`), or the retry that took it back
  (`AkCares`). It needs that what the event callback found out about the registry
  stays so (`EvFound`): only RegisterHandler brings a client online, and that runs
  on the event callback itself. A write that fails leaves a message PENDING after
  it was sent, which is why the hypothesis is there.

Looking for these invariants corrected what the two properties say. A stored reply
that names nobody is saved again under the name of its session, so the copy of a
reply is the same message but for its destination (`SameMessage`). And a session
that cleanup took from the registry while AckHandler held it can be destroyed, and
its queued notice of an acknowledgement saved, after its client registered again
and its backlog was loaded: the notice then waits until the client's next
registration. `NoBacklogWhileOnline` is about messages, therefore.

The other components:

* `SendQueueTypes`, `WakeupsKept`, `FlagHeld` (SendQueueProofs). `NoLostWakeup`
  alone is not inductive: a task gives way when it sees the flag. With
  `FlagMeansBatch` it gives way only to a thread that holds a batch, and that
  thread looks at the queue again, under the mutex, when it clears the flag.
* `SilencedBySends` (SendQueueProofs). `OnlySendsSilence` follows from the types,
  action by action: the callback's sends are followed by a look at the events, and
  its loop ends when recv finds nothing.
* `SendsInOneHand`, `SendsResolveOnce` (SendQueueProofs). An unresolved send is in
  `pending_sends_` or in one thread's batch, once (`InOneHand`); with it each step
  is one of `Outbound` or a stutter, so a callback is called at most once and never
  changes its answer. That is the safety part of `ImplementsOutbound`. It needs
  that Stop is under way only when `running_` is cleared.
* `RegistryTypes`, `OwnSessions`, `TalkersStay`, `SessionsCounted`
  (RegistryProofs). `OwnSession` is needed for `NeverStaler`, which is not inductive
  alone: a message must refresh the session of its id, and `SoleOwner` says that an
  id on which one name alone was registered still leads to that session. The
  counters balance because each action that changes the set of active names adds
  one to the matching counter, and the updater only moves what is counted.
* `LifecycleTypes`, `StopHasOnePerformer`, `ServerOutlives` (LifecycleProofs). The
  inductive invariant `LifeInv` adds to the types in which order threads begin and
  end (`Phases`), who can be in Stop or in a handler (`Interruptions`), and that the
  thread that cleared `running_` is the only one past the exchange
  (`OnePerformer`). `ServerOutlivesUsers` needs all three: main destroys the server
  after it joined, when nobody who could use it is left. It holds for any number of
  signals, which the run bounds by one.

Only model-checked, by what stands in the way:

* The invariants of `Codec`, its types included: which number `NetworkToHost`, a
  fold over bytes, makes of a correlation id of any width takes induction over
  data.
* Liveness: `EventLoopResponsive`, `ShutdownCompletes`, `DeadSessionsGo`, and the
  fairness of `Outbound` in `ImplementsOutbound`.

## 5. Not modelled

* Text: the command line's options, help, banner, log lines and their levels,
  `ToString`, the console of the client.
* The exposer's HTTP threads, the histograms and the names of the metrics. The
  message counters are like those of the registry: incremented, exchanged.
* The mutexes inside spdlog, which the signal handler takes too, and a signal that
  interrupts a signal handler on the same thread.
* Multipart frames: a send is one step, and a recv returns a whole message. In
  ZeroMQ a ROUTER decides about a message at its first frame.
* Memory: a late callback writes to a session that is destroyed (session.cpp:74),
  the persist callback keeps a reference to the identity of a message that is gone
  (message_handler.cpp:31, never used). The effect on live state is none, and that
  is how they are modelled. The descriptor, which both Asio
  and ZeroMQ close (server.hpp:76).
* A server without workers (`--threads` below zero).

## 6. Plan

Done: all modules above, their runs, two refinements, the theorems of section 4.

Every safety property of a passing run but those of `Codec` is now also a theorem.
What could follow:

1. For notices of acknowledgements, what `NoBacklogWhileOnline` says of messages:
   that one which is left PENDING reaches its client after its next registration.
2. The hypotheses of `NothingLeftWaiting` row by row: which writes may fail without
   leaving a message behind.
3. A model of multipart frames in `SendQueue`, when the server is to send more than
   one frame at a time.
