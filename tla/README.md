# TLA+ models of chariott's registry and car-bridge messaging

This directory holds TLA+ specifications of the three source files under
`src/`, the TLC configurations that check them, and `PROJECT.json`, which
maps each definition to the lines it models and lists the runs, the mutants
and the hazards.

## 1. Inventory

### Components

| Component | Source | State | Operations |
|---|---|---|---|
| Catalog entities | `src/src/registry.rs` 199-288 | none (immutable values) | constructors, accessors, `IntentKind` display |
| Registry | `src/src/registry.rs` 41-197 | `external_services_by_intent: HashMap<IntentConfiguration, HashSet<ServiceConfiguration>>`, `known_services: HashSet<ServiceConfiguration>`, the observer | `new`, `has_service`, `upsert` |
| Change tracking | `src/src/registry.rs` 83-132 | `TransactionalRegistryUpdate(HashMap<IntentConfiguration, ChangeKind>)`, alive for one `upsert` | `transition` (merge table, `panic!` on any other pair), `observe` |
| Observer / Composite | `src/src/registry.rs` 13-39 | the observers it wraps | `on_change`: clone of the batch to the left observer, then the batch to the right one |
| MqttMessaging (car-bridge) | `src/car-bridge/src/messaging.rs` | a paho `AsyncClient`, the `async_channel::Receiver<Option<Message>>` from `get_stream(200)` | `connect`, `subscribe` (returns a stream filtering one topic), `publish`, `Drop` |
| Ess gRPC integration | `src/common/src/ess.rs` | an `Arc<EventSubSystem>` (external crate) | `open` (new channel id, `read_events`), `serve_subscriptions` (register, spawn one serving task per subscription) |

### How they interact

* A request layer outside `src/` calls `Registry::upsert` under a lock
  (`&mut self`), so upserts never interleave; one upsert runs to completion
  and then calls the observer once, synchronously, with the whole batch.
* `upsert` drives the change tracking: the retain over the index records a
  `Remove` or `Modify` for each intent the service left, the binding loop
  records an `Add` or `Modify` per requested intent, and `observe` turns the
  tracked map into `Change`s read from the index after all mutations.
* `Composite` fans one batch out to two observers; an observer only sees the
  index through these batches.
* In car-bridge, paho's callbacks (message arrived, connection lost) feed
  one bounded `async_channel`; every stream `subscribe` returns reads a clone
  of its receiver, and `async_channel` hands each message to exactly one
  receiver.  connect opens an MQTT v5 connection without a Session Expiry
  Interval, so the broker ends the session, subscriptions included, when
  the connection closes; automatic reconnect starts a new, empty one.
* `Ess` shares no state with the registry.

### What is hard

* The transition table is closed only because of the order inside `upsert`
  (prune before bind); any other order or a missing row is a `panic!`.
* `observe` indexes the index after the mutation; a tracked intent that is
  no longer there panics.
* Pruning matches on `ServiceId`, storage on full equality: re-registration
  under a new url, and two versions of one name.
* The batch is a `HashMap` iteration in no order; observers are only right
  if each batch holds one net change per intent.
* The reserved-namespace check is byte-wise, case-insensitive, with a
  prefix boundary.
* car-bridge: competing receivers, a full channel, connection loss in the
  middle of a stream, a subscribe racing a disconnect, a process restart.

### Properties that make each component correct

* Registry: no panic; no empty entry; every bound configuration is the known
  one for its id and there is one known configuration per id; no reserved
  namespace is ever bound; the notified
  batch is the net effect of the transaction (refinement of
  `RegistryCatalog`).
* Observer / Composite: every observer, rebuilding the index from batches
  alone, holds the registry's index after each upsert.
* MqttMessaging: every message that entered the channel is eventually
  yielded, across connection losses.  What the code's comments expect,
  checked as violations: no message on a subscribed topic is dropped by a
  stream's filter; an active stream stays subscribed across reconnects;
  no message is lost to a restart while fewer than the buffer holds are
  outstanding.
* Registry under a panicking observer: the registry stays consistent and
  still implements the catalog.
* Ess: every publication on a subscribed source reaches a connected
  subscriber.
* Change tracking: for every event sequence `upsert` records for an
  intent, the tracked kind is the net effect on its entry.

## 2. Modules

| Module | Models | Role |
|---|---|---|
| `RegistryCatalog` | the promise of `upsert`, stated declaratively | abstract specification |
| `ChangeTracking` | `TransactionalRegistryUpdate::transition` and `ChangeKind` | pure definitions, extended by `Registry` |
| `Registry` | `Registry`, `TransactionalRegistryUpdate`, `Composite`, the entities | detailed specification, refines `RegistryCatalog` |
| `TransitionCheck` | the events one `upsert` records for an intent, folded by `transition` | pure check against a reference definition |
| `MCRegistry` | constants for TLC | model-checking instance of `Registry` |
| `MqttMessaging` | `MqttMessaging::connect`, `Subscriber::subscribe` and its stream against paho and `async_channel` | component specification with fairness |
| `MCMqtt` | topics and broker filters for TLC | model-checking instance of `MqttMessaging` |
| `Ess` | `Ess::serve_subscriptions`, `ChannelService::open` and the spawned serving tasks, over the `EventSubSystem` boundary | component specification with fairness |

### Registry

State: `external_services_by_intent` (a function whose domain is the set of
intents with an entry), `known_services`, `views` (the index each of the two
observers behind a `Composite` rebuilt from the batches it got),
`lastBatch` (the batch of the last upsert, `{}` when the observer was not
called), `lastResult` (`Ok`, `Err`, or `ObserverPanic` when an observer
panicked and the panic unwound out of `upsert`), `panicked`.

`upsert` takes `&mut self` and never awaits, so it is one action:

* `UpsertRejected`: the early `return Err` of lines 74-81.
* `Upsert`: `PruneBindings`/`PruneChanges` (the retain of lines 143-157),
  `PruneKnown` (line 161), the binding loop as a `FoldLeft` of `BindIntent`
  over the request's list (lines 166-180, duplicates included), the insert
  into `known_services`, and `Observe` plus `CompositeOnChange` (lines
  188, 117-131, 34-39).  `Transition` uses `TransitionTable`; a pair outside
  it yields `Bug`, which sets `panicked` (the `panic!`), as does indexing an
  intent the index no longer holds.  Its third argument `stop` is the sink
  whose `on_change` panics (`"none"` for no panic, drawn from the constant
  `PanickingSinks`): `Reached(stop)` is the set of sinks that applied the
  batch, none if the left one panics (the right one is never called), the
  left one if the right one panics.  The mutation is committed either way.

A configuration is `[id, endpoint]`: url and locality only ever take part in
equality, so one model value stands for the pair.  Namespaces are character
sequences and `AsciiLower` folds their case, so `IsProtected` computes what
`eq_ignore_ascii_case` and `starts_with_ignore_ascii_case` compute.

`RegistryCatalog` says what one upsert does without change tracking: the new
index is the old one with the service's id pruned and the configuration
added to the requested intents; the notification is, for each touched
intent, `Add` if it had no entry, `Remove` if it has none now, `Modify`
otherwise.  `Registry` maps onto it with `bindings <- external_services_by_intent`,
`known <- known_services`, `notified <- lastBatch`.

### TransitionCheck

A state machine whose states are every sequence of up to `MaxEvents`
`ChangeKind`s for one intent, with the entry existing or not before the
upsert.  `Tracked` folds `Transition` over the sequence from an empty
`TransactionalRegistryUpdate`; the reference is `NetEffect`, computed from
whether the entry exists before and after, over sequences the entry allows
(`Possible`, a RECURSIVE walk of the entry's existence).  `UpsertEvents`
is the subset `upsert` records: at most one event from the retain
(`Remove` or `Modify`), first, then one `Add` or `Modify` per occurrence of
the intent in the request.

### MqttMessaging

State: the process memory (`clientPc`, connect's progress; per stream `pc`
and `topicOf`; the shared `channel` of message ids and `None`;
`publishResult`), the broker side (`connected`, `brokerSubs`, the filters
of the session), per message its `fate`, and the counters `disconnects`
and `restarts`.
Actions: `GetStream`, `Connect`, `ConnectFailed` (`AsyncClient::new` or
`connect` failing); `Subscribe`, `SubscribeGranted`, `SubscribeFailed`,
`SubscribeReturns` (the QoS 2 subscribe round trip and the receiver clone;
a subscribe issued while disconnected, or in flight when the connection
drops, is `orphaned`: it is never granted, and paho may fail its token,
which `SubscribeFailed` models without fairness); `Receive` (one turn of
the `stream!` loop: `Keeps` is the topic comparison of line 108,
`LoopAfter` the loop going on after `None`); `Publish` (`Err` while
disconnected).  The environment: `BrokerSend(t)` (the broker sending a
QoS 2 message on topic `t` because a filter of the session matches it;
paho's message callback `try_send`s it, dropping it on a full channel),
`ConnectionLost` (the session ends with the connection: `connect` asks for
MQTT v5 and sets no Session Expiry Interval, which MQTT 5 reads as 0; the
connection-lost callback sends `None`), `Reconnect` (automatic reconnect
into a new, empty session), and `Restart` (the car-bridge process ends, by
`Drop`'s best-effort disconnect or a crash, and starts again: the process
memory is reset, the messages in the channel are `lost`, the session is
gone).

`subscribe`'s argument is a broker topic filter: the constant `Matches` maps
each filter to the topics it matches.  `MCMqtt` defines `ExactFilters` (each
filter is one topic) and `WildcardFilter` (one filter matching both topics).

Fairness: weak fairness on `Receive` of each stream (the caller that got the
stream keeps polling it; car-bridge's main loop consumes it), on
`SubscribeReturns` (the awaiting task is resumed by the runtime) and on
`Reconnect` (automatic reconnect retries every 1-60 s).  No fairness on the
broker or on subscribe calls: they may never happen.

### Ess

`KnownSubscriber`, `NewTask` and `EventOf` are the unknown-client check,
the spawned task and the `Event` closure of `serve_subscriptions`.

State: `opened` (channel ids `read_events` registered), `closed` (clients
that dropped their response stream), `stream` (per channel, the `Event`s
sent to it, without timestamp and value payload, each tagged with the
serving task that sent it), `tasks` (per spawned task: channel, source, the
publication count at registration, how many it has forwarded, its seq,
whether it ended), `published` (per source, publications so far), `result`.
Actions: `Open` (a fresh Uuid is registered), `ServeSubscriptions(id,
sources)` (a list of up to two sources, duplicates included; an unknown id
gives `FailedPrecondition` and spawns nothing, otherwise one task per
source), `Serve(k)` (one turn of a spawned task: forward the next
publication with seq + 1, or end when the send to a dropped client fails,
`SendFails`).
Environment: `Publish(e)` (`EventSubSystem::publish`, modelled from the
crate's boundary as ess.rs and its tests use it) and `Disconnect`.

Fairness: weak fairness on each `Serve(k)`, since tasks are handed to
`tokio::spawn` and the runtime polls them.  None on opens, subscriptions,
publications or disconnects.

## 3. Runs

| Run | Config | Expect | What it shows |
|---|---|---|---|
| `registry` | `MCRegistry.cfg` | pass | see below |
| `mqtt_single` | `MCMqttSingle.cfg` | pass | one subscription yields every queued message across a disconnect and a full channel, unless a restart loses it |
| `mqtt_shared_receiver` | `MCMqttShared.cfg` | violation | two subscriptions: a stream takes the other topic's message off the shared receiver and drops it |
| `mqtt_session_lost` | `MCMqttSessionLost.cfg` | violation | every connection loss ends the session; after the reconnect an active stream is no longer subscribed and nothing resubscribes |
| `mqtt_wildcard_filter` | `MCMqttWildcard.cfg` | violation | a stream subscribed with a wildcard filter drops the messages the filter matches |
| `registry_observer_panic` | `MCRegistryPanic.cfg` | pass | either observer may panic; the registry stays consistent and refines the catalog |
| `transition` | `TransitionCheck.cfg` | pass | the kind `transition` tracks is the net effect on the entry for every event sequence of up to 4 `upsert` records |
| `mqtt_restart_loses_queued` | `MCMqttRestartLoss.cfg` | violation | a restart with one message in the channel loses it |
| `ess` | `MCEss.cfg` | pass | every publication on a subscribed source eventually reaches a connected subscriber |

`registry` checks `TypeOK`, `NoPanic`, `NoEmptyEntry`, `BindingsMatchKnown`,
`NoReservedBinding`, `SinksInSync` and `RefinesCatalog` over every sequence of upserts.  Bounds: two service
ids and two endpoints (so re-registration with a new url and two versions
of one name both occur), five intents: `n`, `systemx` (as long as the
prefix, accepted), `System.r`, `sYstem.` (exactly the prefix) and `SYSTEM`
(reserved), and lists of up to two intents (duplicates, and a reserved
intent next to an ordinary one).  Every row of the transition table is
reached: Remove then Add (a service re-registering on its only intent),
Modify then Modify, Add then Modify (a duplicated new intent).  The state
space is finite without a counter: 438 distinct states, depth 5.

`mqtt_single`: one stream, two topics, a channel of 2 slots, 3 messages, one
connection loss and one restart: enough for a `None` to sit in the channel
before the stream subscribes (the next connection's messages queue behind
it), for a message to overflow, for a subscribe to be orphaned, and for a
restart to lose what waits in the channel (5,115 distinct states).  It
checks `TypeOK` and `QueuedEventuallyYielded`.  It stops once the messages
are consumed, so deadlock is not checked.
`mqtt_shared_receiver`: two streams on two topics, 2 messages.
`mqtt_session_lost`: one stream, one message, one connection loss.  `mqtt_wildcard_filter`: one stream, the filter
`WildcardFilter`, one message.

`registry_observer_panic`: the `registry` bounds with `PanickingSinks =
{"left", "right"}`; upserts go on after a panic.  It checks
`BindingsMatchKnown` and `RefinesCatalog`; the mutant notifies before the
insert into `known_services` (a swap of lines 184 and 188).  After a panic
the two views drift apart for good, which multiplies states without
affecting the registry; the run uses `VIEW RegistryView` (the registry's
own variables), sound because no action reads `views` and neither checked
property does: 762 distinct states.  `SinksInSync` is not checked there: a
panicking observer misses its batch, and the other one too if it is the
right one, by design of `Composite`.

`transition`: `MaxEvents = 4`, 242 distinct states: a prune event and three
bindings (`Remove, Add, Modify, Modify` needs the intent three times in one
request, beyond the `registry` bounds), or four bindings.  It checks
`TransitionIsNetEffect`.  The enumeration ends at the longest sequences, so
deadlock is not checked.

`mqtt_restart_loses_queued`: one message, one restart.

`ess`: two channel ids, two sources, at most two spawned tasks (so two
subscriptions of one channel, or one each on two channels, and a duplicated
source) and two publications per source (enough for a second event to
follow the first, and for a task to outlive its client).  It checks
`TypeOK` and `EventuallyServed`: 25,530 distinct states.  Publications are bounded, so
the system stops and deadlock is not checked.

Every property of a passing run has a mutant in `PROJECT.json` (a dropped
table row, a kept empty entry, a skipped retain, a missing prefix test, a
batch forwarded to the left observer only, a stream that ends on `None`, events numbered
from 0, serve futures never spawned, notification before registration)
that TLC finds violating it.

## 4. Findings

* `mqtt_shared_receiver`: `subscribe` clones one multi-consumer receiver
  for every stream (`messaging.rs:103`), and a stream drops messages of
  other topics, so with two subscriptions messages are lost, against the
  QoS 2 intent stated at line 95.
* `mqtt_session_lost`: the comment at `messaging.rs:51-54` expects session
  persistence to re-establish subscriptions on disconnect, but `connect`
  (lines 75-80) asks for MQTT v5 with no Session Expiry Interval, so the
  session ends with every connection; nothing subscribes again, so after
  any reconnect active streams stay open and receive nothing.
* `mqtt_wildcard_filter`: `subscribe` sends its argument to the broker as a
  filter but keeps a message only if `topic == message.topic()`
  (`messaging.rs:108`); with a wildcard filter every delivered message is
  dropped.
* `mqtt_restart_loses_queued`: the comment before `get_stream`
  (`messaging.rs:68-71`) bounds loss at a restart to more outstanding
  messages than the buffer holds; but messages paho has put into the
  in-memory channel are already acknowledged under QoS 2, so any restart
  loses those waiting there, one included.

## 5. Not modelled, and why

* `IntentKind` display, logging, url parsing, environment variables:
  formatting and configuration only.
* `publish` is modelled only by its result: what the broker does with a
  response is outside car-bridge.  `Drop` is part of `Restart`.
* The request layer and its lock, startup: not in `src/`.  The `ess` crate
  is modelled only at its boundary (`Publish`, a subscription seeing the
  publications after it registered, a task ending on a failed send).
* A buffer overflow in car-bridge is reached (`fate = "overflow"`) but not
  asserted against: the comment at `messaging.rs:69` accepts it.
* Retrying a failed `subscribe` is the caller's job, outside `src/`; the
  model stops the failed stream there.  Whether paho fails or keeps
  pending the token of an orphaned subscribe is not visible in `src/`, so
  neither is assumed.
* A task of a gone client with no further publication on its source
  lingers for good (`ess.rs:56`); when such a task ends is decided in the
  `ess` crate, and the code states no bound to check.
* Order, absence of gaps and numbering of a subscription's events are
  produced by the `ess` crate's serve loop (`Serve`); `ess.rs` only passes
  `seq` through, so no property restates them.  Likewise a subscription
  is accepted only for an opened channel by the single guard
  `KnownSubscriber`, which no property restates.

## 6. Plan

1. (done) `Registry` + `RegistryCatalog` + `MCRegistry`: the upsert
   transaction, change tracking, Composite, refinement.
2. (done) `MqttMessaging`: connect, subscribe, the stream loop; the shared
   receiver violation.
3. (done) `MqttMessaging`: the session ending with the connection, topic
   filters, `publish`, a restart of car-bridge (`Drop`), and the buffer
   comment.
   (done) `Registry`: observers that panic.
4. (done) `Ess`: `open`, `serve_subscriptions` and the spawned serving
   tasks over the `EventSubSystem` boundary.
5. (done) `TransitionCheck`: `transition` folded over the event sequences
   `upsert` records, against the net effect.
6. Not taken: a registry run with three service ids and lists of three
   intents under symmetry of ids and endpoints (439 states up to symmetry,
   about 30 s; NoPanic, SinksInSync and RefinesCatalog held there).
   Sequences of three bindings of one intent are covered by `transition`.
