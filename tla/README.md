# A TLA+ model of the DIDComm mediator

The mediator keeps mobile and edge agents reachable. An agent connects over a
websocket, establishes a pairwise connection, and gets an *endpoint*. Other
agents post messages to that endpoint over HTTP; the mediator passes them to the
websocket, long-polling or pickup sessions of the agent, and turns to Firebase
when none of them answers. This directory holds TLA+ modules of the parts of
this program that are hard to test, the TLC configurations that check them on
small instances, and proofs, checked by TLAPS, that the main results hold for
every instance.

Line numbers are those of `src/app`. `PROJECT.json` maps every definition to the
lines it models and lists the runs, the mutants, the hazards and the theorems.

## The system

Four worker processes (uvicorn) run the same application. Within a worker
everything is a coroutine of one asyncio event loop, so a step is what one
coroutine does between two suspension points. The workers share PostgreSQL,
memcached and one or more Redis servers, and nothing else.

| component | state | operations | hard behaviour | what makes it correct |
|---|---|---|---|---|
| `rfc/pickup.py` `PickUpStateMachine` | ordered dictionary of messages, a counter, two events | `put`, `process` (status, batch, list, noop), cancellation of a `put` | two events and a counter kept in step by hand, waits that are not rechecked, delays | no lost wakeup, order of delivery, no lost message, a bounded queue, an event loop that is never captured |
| `core/redis.py` streams, `RedisPush`, `RedisPull` | a stream and consumer groups per endpoint, a reverse pub/sub channel per push, all of them on one name | push, wait for the ACK, time out; listen, ACK, close | ACKs of other pushes, ACKs that come before their handler waits or after it gave up, connections that break between fetch and ACK | 202 only for a message that was handed over, once per group, in order |
| `routers/mediator.py` `post_to_device` | the endpoint as it was loaded | load, push, choose another Redis server, Firebase | timeout against late ACK, partial failure of a send, write back of a stale row | one answer for each post |
| `routers/mediator_scenarios.py` `endpoint_processor`, `endpoint_long_polling` | the message in flight | fetch, hand over, ACK, end | disconnects at every point | nothing handed over twice |
| `routers/mediator_scenarios.py` `onboard`, `rfc/bus.py`, `core/bus.py` | main loop, inbound listener, bus listeners with their subscriptions, pickup requests in tasks of their own | connection request, subscribe, unsubscribe, pickup, events of Redis, end | cancellation of tasks that hold a message, a `put` in the main loop, a listener that fails before it reports | nothing enters the queue for a stream that is off, an answered subscription is one, the main loop goes on, the session ends |
| `core/repo.py`, `db/crud.py` | tables in PostgreSQL, copies in memcached | load by uid, verkey or routing key, ensure, routing keys, agents, settings | delete-before-write of the cache, copies nobody invalidates, write skew | cached rows are genuine and go away, one endpoint per verkey |
| `routers/utils.py`, `routers/mediator.py` (the addresses) | the row a request has loaded, the server it has chosen | `build_did_doc_extra`, `post_create_pairwise`, the choice of another server | decisions from rows of before, two who give an endpoint a server | registrations stand, a session listens where posts go, an unreachable endpoint is moved |
| `core/pairwise.py`, `core/did.py`, `routers/utils.py` (the tables) | tables agents, endpoints, pairwises, a cache of agents, metadata that each worker remembers | registration of a device, static connection | select-then-insert, a worker that dies between two writes, a post that puts an old row back, a cache per worker | a registered device can be reached, its pairwise is what it registered |
| `core/management.py`, `internal/admin.py`, `core/storages.py` | settings, the configuration of nginx in each container, markers of broadcasts, backups and key-value items | set, reload, broadcast, listen, reset, account, store, remove | a setting that is read around a change, copies of a broadcast from several Redis servers, select-then-insert | nginx serves what the settings say, a load returns what was stored last |

They interact through calls (a handler of `mediator.py` calls `Repo` and
`RedisPush`), through shared storage (the tables, memcached, the streams),
through events (the pickup queue between the listeners and the requests of a
session) and through tasks that cancel each other (the main loop of a session
and its listeners).

## Modules

| module | models | proofs |
|---|---|---|
| `Pickup` | the queue of a session and the tasks around it | `Pickup_proofs` |
| `Session` | an onboarding session; implements `Pickup` | `Session_proofs` |
| `MessageFate` | what an endpoint promises for a message, abstractly | |
| `Delivery` | posts, streams, consumer groups, ACKs, sessions, Firebase; implements `MessageFate` | `Delivery_proofs` |
| `Repo` | endpoints and routing keys: tables, cache, requests, statement by statement | `Repo_proofs` |
| `Failover` | the Redis server of an endpoint while servers break | `Failover_proofs` |
| `Registration` | agent, endpoint and pairwise of a device that connects | `Registration_proofs` |
| `Management` | settings, nginx, broadcasts of a reload; backups and items | `Management_proofs`, `Reload_proofs` |
| `MCPickup`, `MCDelivery`, `MCSession`, `MCFailover`, `MCRegistration`, `MCManagement` | requests, offers and plans for TLC | |

### Pickup

A message is the ordinal of the put that stored it, so the ordinals order the
dictionary. `count` is `__message_count` and is kept apart from the dictionary,
because the code changes the two in different places. `filled` and `ready` are
the flags of the two events; a task waits in `putWait` or `takeWait` and is
moved to `putWoken` or `takeWoken` when its event is set. `PutCall`, `PutResume`
and `PutCancel` are `put` up to its wait, after it, and cancelled in it;
`TakeCall`, `TakeResume` and `TakeExpire` are `process` for the requests that
remove messages: called, woken, and at the end of the delay; `Peek` is `process`
for all other requests. Each includes the `__prepare_response` that ends it.
`hung` says that a coroutine awaits an event that is set, over and over: asyncio
never gets control back, and no action is possible any more.

### Delivery

The handler of a post is `Bind` (make the channels, subscribe the reverse channel)
or `NoAddress`, `Write` (XADD), `Await`, `ReadAck` or `AckTimeout`, and `Fallback`
(Firebase and the HTTP answers). Every push has a reverse channel of its own.
`singletons.py` keeps a cache of channels and `post_to_device` hands it over, but an
empty `ExpiringDict` is false, so `channels_cache or ExpiringDict(...)`
(`redis.py`, line 389) drops it and nothing is ever put into it. All reverse channels
of an endpoint are on one pub/sub name: `acks` is what each has buffered of the ACKs
published while it was subscribed, and `ReadAck` drops an ACK of another message as
the code does. A session is `Connect` (the group is created at the end of the stream if it is
new), `Fetch` (XREADGROUP), `HandOver` (the socket, or the pickup queue when it
has room), `Ack`, `Poll` and, at any point, `Disconnect`, which loses what the
session holds. The pickup queue of `HandOver` and `Poll` is the one that `Pickup`
models in detail.

`MessageFate` says what all this is for: a message goes to each group at most
once, its sender gets one answer, and `accepted` only after a listener had the
message. `ImplementsFate` maps the phase of a handler to the outcome and the
messages a session has handed over to its group.

### Repo

A request is a task; every call of memcached and every SQL statement is a step.
`Load`, `Query`, `QueryRoute`, `Look`, `Fill`, `Alias` are the three
`load_endpoint` methods; `Onboard` and `Register` are `build_did_doc_extra`,
`Complete` is the endpoint part of `post_create_pairwise`, `Failover` the write
of `post_to_device` after a connection error; they all go through `Ensure`
(delete from the cache), `Steal`, `Lookup` and `Write` (the transaction), or
`Rollback`. `ChangeKey`, `AddKey`, `RemoveKey`, `SelectKeys`, `StoreKeys` are the
routing keys, `Expire` and `ExpireList` memcached. The database runs at READ
COMMITTED, which is PostgreSQL's default: a statement sees what was committed
when it started, deletes wait for the deletes of other transactions on the same
row, and the primary key refuses a second insert. `stored`, `bound` and `rivals`
are history: rows that were in the table, keys that were bound to a uid, verkeys
for which two transactions overlapped.

### Session

`onboard` reads one request of the device at a time; `main` says where its loop
is. `ConnRequest` is the connection protocol with the start and the
cancellation of `inbound_listener`. A subscription is a loop over its threads:
`Subscribe` computes them, `Bind` starts the listener of the next one, the main
loop waits for its event (`awaiting`) until `BusUp` sets it, and `Subscribed`
answers and stops the inbound stream. `BusRefused` is a listener that ends with
an exception before it sets the event, `BusLost` a connection that breaks later,
without the listener noticing (`deaf`). `Unsubscribe` cancels listeners, the ones
that wait for room in the queue included; `AbortAnswer` is the `put` with which
the main loop answers an aborted unsubscription. `Pickup` serves a request in
the main loop when the queue counts a message, and else in a task (`spawned`,
then `Delayed`) that nobody keeps or cancels. Such a task reads the variable
`request` of the main loop when it runs, which may name a later request by then
(`latest`). `Fetched` and `BusEvent` are events
of Redis, `Disconnect` and `End` the end of the session.

The queue is an `INSTANCE` of `Pickup` whose putters are the listeners and the
main loop; each step uses its actions, and `ImplementsQueue` says that the session
does nothing else with it. So what is proved of the queue holds in a session.

### Failover

A client is a post (`Post`, `Push`, `Reselect`, `WriteBack`) or the session of a
device, which registers (`Register`, `Write`, `Confirm`, `Rewrite`) and then
listens (`Listen`, `Close`). All load the endpoint through memcached (`LoadHit`,
`LoadRead`, `Fill`). Servers break and are repaired; the listeners of a broken
one end. A transaction is one step: what can happen between its statements is
what `Repo` shows. `contested` and `undone` are history, and the copies carry what
has happened to their endpoint since they were read (`aged`, `moved`).

### Registration

A session runs in a worker and goes through `pc`: the store of the DID, the
question whether the pairwise exists, its insert or update with the worker's
remembered metadata (`known`), the agent loaded through memcached, compared and
written, loaded again, and the endpoint. A static connection ends after the
pairwise. `Crash` kills a worker with its requests and what it remembers, `Fail` is a
query that fails, which ends its request. `Load` and `PutBack` are a post whose Redis
server is unreachable: it writes back all of the endpoint row that it has loaded,
agent and device id included, with another server. `raced`, `torn`, `restored`,
`hidden` and `outdated` are history: they name the endings in which the code makes no
promise, see below. Three things are simpler than in the code, and allow more: a post
may put back a row that had no Redis address yet; what it gets from memcached is a row
that a post has loaded earlier; and one that ends, dies or finds no server writes
nothing, at any time. A query that fails is not committed.

### Management

A process is a request or a listener (one per container and Redis server) with
the program of steps that it still has to take; `Program` is the translation of
each handler into steps. Steps with two queries are two actions: `Delete` and
`Write` of a setting, `GetRead` and `Fill` of a read, `Select` and `StoreRow` of a
backup or an item. `LoadAccount` is the look of `register_acme` at the account that
is stored, and certbot, which may refuse a new one. `Apply` configures nginx;
`Announce` publishes to the Redis servers one after the other; `Receive` and `Remember` are `listen_broadcast`, which
skips the copy of a broadcast that it remembers. `Break`, `Repair` and `Relisten`
are Redis, and the process of the listeners that is started again when all have
ended; a listener that lost its connection in a reload connects again at its next
read (`Remember`). Plans say what is asked for, in order; the answers of a mail server and
failures are free.

## What is checked

### Properties of the runs that pass

* `pickup_session` (24 thousand states): no coroutine waits for what is there
  (`NoLostWakeup`), messages leave in the order of their puts (`FifoOrder`),
  none is lost between two requests (`NothingLost`), the queue outgrows
  `max_queue_size` by less than the number of tasks that put
  (`BoundedOvershoot`; the limit itself does not hold, because `put` does not
  recheck its event), only an untimed batch for more messages than are queued
  captures the event loop (`LoopCapturedByBatch`), a request without a delay that
  had to wait is answered in full (`UntimedBatchIsFull`), a request with a delay
  is answered (`TimedRequestAnswered`) and a waiting task is let in as long as the
  agent asks (`PutterServed`).
* `session` (176 thousand states): no listener puts a message after it was
  cancelled (`NoStrayPut`), an answered subscription was subscribed at its Redis
  server (`AnsweredIsSubscribed`), inbound messages and bus messages stay apart
  (`StreamsApart`), a session that has ended is quiet (`EndedIsQuiet`), and all of
  it is the queue of `Pickup` (`ImplementsQueue`). The main loop comes back from
  every pickup request (`MainServes`), is released by a pending one when it waits
  for room itself (`AbortReleasedByPending`), and ends when the device has gone
  (`SessionEnds`). The exceptions in these three are what can go wrong: a captured
  event loop, a queue that is full while nobody takes, a server that refuses a
  subscription, for whose event the main loop then waits for ever.
* `delivery_groups` (352 thousand states): what 202 means
  (`AcceptedWasHandedOver`), at most once for a group (`HandedOverOnce`), in the
  order of the stream (`HandedOverInOrder`), no ACK is missed, however early it comes
  and whatever others come with it (`AckKept`), and the refinement
  (`ImplementsFate`).
* `delivery_liveness` (51 thousand states): `EveryPostIsAnswered`,
  `ConnectedGroupIsServed`.
* `repo_tables` (392 thousand states): a cached row was true of its key once
  (`CachedIsGenuine`), a verkey is there twice only after two overlapping
  transactions (`UniqueUnlessRivals`), and after the last change the cache comes
  to agree with the tables and stays so (`CacheConverges`).
* `failover` (618 thousand states): the last registration of an endpoint stands
  (`RegistrationsStand`) unless a post that had loaded the endpoint before it wrote
  it back (`undone`); a post that loaded it later may change the server only. A
  session listens where the posts go (`ListensWherePostsGo`) unless the endpoint was
  moved since its row was read, or is `contested`: two registrations gave it a
  server, or it was stored without one. An endpoint on a server that is down is
  moved as long as posts come (`FailoverMovesAddress`).
* `registration` (2.4 million states, up to symmetry): a device that registered a
  device id can be reached through Firebase (`ReachableAsRegistered`), and its
  pairwise is what it registered (`PairwiseAsRegistered`). Not if requests for it
  overlapped (`raced`: the select before the insert fails the slower one, and
  metadata and rows mix), if a worker died or a query failed between agent and endpoint
  (`torn`: the next registration finds the agent as it should be and goes no further),
  if a post put back the endpoint as it was loaded before (`restored`, with the same
  consequence), if memcached told an agent that is not the stored one (`hidden`), or if another
  worker has stored what this one does not remember (`outdated`). Each of these is
  reached; the properties say that the model has no other way.
* `management` (1.3 million states, up to symmetry): a container that a broadcast
  has reached after the last change serves what the settings say
  (`AppliedAsSet`), although markers are remembered late and messages come once per
  Redis server. Not if its last reload overlapped another one of the container,
  failed, or was told a copy that was refilled around a change. A backup or an item
  loads what was stored last (`LoadsLastStored`) from any of its rows, even when it
  was inserted twice once, unless stores of it overlapped since it was last unique.

Each of these properties has a mutant of the model in the module, a plausible
mistake in the code, under which TLC finds it violated.

### Disagreements with the documentation

* `pickup_duplicates`: a message with the `@id` of one that is still queued
  replaces it and is counted twice. The queue is then full for ever and no
  listener of the session gets another message in.
* `delivery_firebase`: a session with queue transport has room for one message. Its
  listener holds the next one, without an ACK, until the agent polls; if that takes
  longer than `DEVICE_ACK_TIMEOUT` the message goes to Firebase although the agent is
  connected, and is put into the queue later as well.
* `delivery_queue`: with queue transport a message is acknowledged when it is in
  the memory of the session; it is gone with the connection.
* `repo_registration`: a row that was deleted but is still cached makes the next
  registration of that DID store an endpoint without a Redis address.

### Bounds

| bound | value | why it is enough |
|---|---|---|
| `Putters`, `Takers`, `MaxPuts` (`Pickup`) | 2, 2, 5 | one task waits while the other is let in; two requests compete for one put; more puts than the queue, the waiting tasks and the requests can hold |
| `Ids` (`Pickup`) | 4 (1 for duplicates) | as many as the messages queued and carried at a time |
| `Requests` (`Pickup`) | noop; batches of one and two, with a delay and without | a batch smaller than, equal to and larger than what is queued |
| `Unsubscriptions` (`Session`) | 2 | one that names the parent of the threads, with an answer that may find the queue full, and one that names nothing, without; one that names some of the threads is covered by the theorems only |
| `Threads`, `Parents`, `Takers`, `Ids`, `MaxPuts` (`Session`) | 2, 1, 1, 2, 2 | a subscription with two threads, of which one fails; a queue that is full while another listener or the main loop waits; one request in progress, and others that take nothing beside it (two that overlap are in `pickup_session` and in the theorems) |
| `Msgs` | 2 | two handlers, each of which gets the ACK of the other; a message in the queue and one that waits for room |
| `Sessions`, `Groups`, `MaxConnects` | 2, 1, 2 | a second session of the group, and a reconnect, after every possible loss |
| `QueueSize` | 1 | the value of `onboard` (line 89) |
| `Tasks`, `Uids`, `Verkeys` | 2, 2, 2 | two requests on one endpoint or on two, one verkey taken over by the other |
| `Addrs`, `Keys` | 1, 1 | an address is only compared with its absence and with the selected one |
| `MaxUpdates` | 2 | a registration and its take-over by the other request, and a change of keys between any two of their statements |
| `Servers`, `Uids`, `Verkeys`, `Clients` (`Failover`) | 2 each | a move from one server to the other, a verkey that moves to another DID, a post against a registration |
| `MaxBreaks`, `MaxConnects` | 1, 2 | one server breaks (any set of servers may be down at the start) and is repaired; two registrations or listeners |
| `Workers`, `Sessions`, `Dids`, `Devices`, `Verkeys` (`Registration`) | 2, 2, 2, 2, 1 | two requests overlap, in one worker or in two, for one DID or for two that share a verkey; a DID that changes its verkey is covered by the theorems only |
| `MaxOffers`, `Posts`, `MaxFaults` | 3, 1, 1 | a registration, another one that it overlaps or changes, and a third that comes to what these left; a worker that dies, a query that fails or a post that puts a row back |
| `Instances`, `Redis`, `Tasks` (`Management`) | 1, 2, 2 | containers share the settings only; two copies of a broadcast; two requests overlap, beside two listeners |
| `Plans`, `MaxRequests`, `MaxBreaks` (`Management`) | 6 plans, 4, 2 | a change before, between and after broadcasts; stores that overlap and one that follows; a failure of Redis and one of nginx |

The theorems do without these values: sets may be of any size, and the bounds on
puts, connects, updates, breaks, offers, faults and requests are arbitrary
numbers. In `Management` even the plans are arbitrary.

### Fairness

`Pickup`: the event loop runs every coroutine that is ready and timers expire
(`LoopFairness`); `PollingSpec` adds that the agent goes on asking, which the
pickup protocol expects of it. `Delivery`: a handler that has bound its channels
goes on (a timeout of `DEVICE_ACK_TIMEOUT` ends its wait), a connected listener
goes on, an agent with queue transport polls; nobody has to post, to connect or
to stay connected. The run `delivery_firebase` takes `PatientSpec`, a safety
specification in which that timeout, 15 seconds, ends a wait only when there is no ACK
to read and no listener can go on, so that a slow step is not to blame. `Repo`: a request that has started comes to its end and
entries of memcached expire (`MEMCACHED_TIMEOUT`); nobody has to start a request.
`Session`: the event loop runs what is ready, timers expire, and an attempt to
connect to Redis ends, by success or refusal; the device need not send anything,
stay or go, and Redis need not deliver. `Failover`: a request that has begun goes
on, and sessions end one day. These are weak fairness: each of the steps stays
possible until it is taken. That there is always another post to an endpoint
(`Posted`) is strong fairness, since a post needs a free client and the clients are
bounded: it is the premise under which the code moves an endpoint at all.
`Registration` and `Management` state no liveness: a worker may die, and a
broadcast that finds a server down is given up.

Deadlock is checked in `repo_tables` and `repo_registration`, where requests can
always be made and entries expire. The other systems may stop: a captured event
loop, puts and connects that are used up, a plan that is done.

## What is proved

Each proof module states an inductive invariant `IInv`, proves that `Init`
implies it and that every step preserves it, one lemma per action, and derives
the properties of the runs.

* `Pickup_proofs`: beyond the properties, `IInv` ties the flags of the events to
  the counter (`filled` is up while something is counted, `ready` while there is
  room), the waiting tasks to what they carry, and the woken tasks to the room
  they were promised. `NoLostWakeup`, `FifoOrder`, `NothingLost`,
  `BoundedOvershoot`, `LoopCapturedByBatch` and `CountCoversQueue` hold for any
  finite set of putters, any takers, ids, limit and requests. `FifoOrder` alone
  is not inductive: it needs that all ordinals are at most `puts` and that
  distinct ids have distinct ordinals. `UntimedBatchIsFull` is proved for distinct
  ids: the ranks of the queued messages are then the numbers below their count, so
  that the first k of them are k.
* `Delivery_proofs`: `IInv` says where a message can be. Positions in the stream
  are distinct; what a session holds or has handed over lies at or before the
  cursor of its group; a buffered ACK is of a message that was handed over; the
  channel of a handler is subscribed before its message can be fetched, and an ACK
  stays in it until the handler has read it. From it follow
  `AcceptedWasHandedOver`, `HandedOverOnce`, `HandedOverInOrder`, `AckKept`, and the step simulation of `MessageFate`, which gives
  `Spec => ImplementsFate`.
* `Repo_proofs`: `IInv` says of each task that the row it carries is genuine for
  the key it asked for, also after the key was resolved through a routing key,
  so that whatever it stores in the cache is genuine; and of each transaction
  that another row with its verkey is one it has deleted, or a rival wrote it.
  `CachedIsGenuine` and `UniqueUnlessRivals` follow for any number of tasks,
  endpoints, verkeys and keys. `LockInv` says what the row locks are for: a row
  that a transaction has deleted keeps its verkey until the commit, so that an
  endpoint goes only for another one that takes its verkey (`DeletedForItsVerkey`).
* `Session_proofs`: `IInv` says that a putter carries a message just when it is
  suspended, that one listener at most is starting and the main loop waits for it,
  that the threads which the loop of a subscription has passed are subscribed, and
  that an ended session has no listener. `NoStrayPut`, `AnsweredIsSubscribed`,
  `StreamsApart`, `EndedIsQuiet` follow, and the step simulation of `Pickup`, which
  gives `Spec => ImplementsQueue`. The theorems of `Pickup_proofs` are about its
  own putters, so the module takes an instance of it with the listeners and the
  main loop as putters, shows that a step of the session is a step of that queue,
  and gets the promises of the queue for whole sessions (`QueueInvariance`,
  `SessionKeepsQueuePromises`, `SessionAnswersInFull`).
* `Failover_proofs`: `IInv` says of every copy, in memcached or in a request, that
  it tells the registered verkey unless it is `aged`, and the server of the row
  unless it is `moved`; that verkeys are unique and endpoints have servers; and that
  a registration which gives a server has found no endpoint.
  `RegistrationsStand` and `ListensWherePostsGo` follow. The copies are what makes it
  inductive: a row is only ever overwritten from one of them. While transactions do
  not overlap, a verkey has one endpoint (`VerkeyHasOneEndpoint`).
* `Registration_proofs`: `IInv` says that two overlapping requests for a DID or a
  verkey are noted, that a worker remembers what is stored unless it is outdated or
  about to be remembered, that agents in memcached and in requests tell the stored
  one, and that endpoint and agent agree once the agent has a device id. For
  `WholeIfUndisturbed` two more are needed: what a request still has to write when its
  agent and its endpoint differ, and that a post holds a row that is the present one.
  `ReachableAsRegistered` and `PairwiseAsRegistered` follow.
* `Management_proofs`: two processes between the queries of a store of the same key
  know of each other (`crossed`), one that is alone knows the row that is there, and
  an item whose stores never overlapped has one row. `LoadsLastStored` follows.
* `Reload_proofs`: `ServeInv` says where the broadcasts that began after the last
  change are in each container: on their way to a listener; in a reload, and then
  every clean reload of the container still has to read the settings or has read the
  present ones; or over, and then the container serves these. It rests on the shape
  of programs (a reload before its messages, the first server first), on markers
  that nobody knows before they are published, and on copies in memcached that tell
  the row unless they are noted as raced. `AppliedAsSet` follows.

### What the exceptions come down to

Several properties hold but for exceptions, and some statements of the
documentation do not hold of the code. These theorems show that nothing else is
behind the exceptions: each names the one thing that must not happen, as a
hypothesis over the whole behaviour, and proves the property without exceptions.

| Theorem | As long as | holds without exception |
|---|---|---|
| `Delivery_proofs!FirebaseByFullQueue` | timers are slower than what can go on (`PatientSpec`) | a handler gives up only on a message that is with nobody, or with sessions whose queue is full: `FirebaseOnlyIfUnreachable` but for what `delivery_firebase` finds |
| `Delivery_proofs!LossNeedsDisconnect` | no session ends with messages in its pickup queue | `AcceptedStaysAvailable`, violated in `delivery_queue` |
| `Repo_proofs!UniqueOneAtATime` | transactions for a verkey do not overlap | no two endpoints share a verkey |
| `Failover_proofs!UndoneByAgedWriteBack` | no post writes back a copy older than the last registration | every endpoint has the verkey registered last |
| `Registration_proofs!OneWorkerStoresPairwises` | requests of a DID or a verkey do not overlap, and there is one worker | every pairwise is what was registered last |
| `Registration_proofs!WholeIfUndisturbed` | requests of a DID or a verkey do not overlap, no worker dies, no query fails, and no registration runs while a post holds a row of its DID | a device is reachable by its device id, unless memcached or another DID with its verkey hides its agent |
| `Management_proofs!TwoRowsByOverlapOnly` | stores and removals of a key do not overlap | a key has one row at most, with what was stored last |

The hypotheses are not assumptions about the program: it has behaviours with and
without them. They are temporal (`Spec /\ []H => []P`, or `[][H]_vars` where a step
is excluded), so that each proof has an invariant of its own that uses `H` and `H'`
next to `IInv`.

### The safe half of liveness

Liveness rests on fairness, which the prover does not reach. What it needs of the
states and steps can be proved:

* `Session_proofs!MainIsNotForgotten`: whenever the main loop of a session waits
  for something, that can still come: a timer or a put for the request that it
  serves, room, a listener that connects. `MainServes` and `SessionEnds` add that
  it does come.
* `Delivery_proofs!NothingSlips` and `NoReaderIsStuck`: a message that is ahead of a
  group stays there until a session of the group takes it, is lost to it only with a
  session that disconnects in between, and a cursor behind the end of the stream has
  a message in front of it. `ConnectedGroupIsServed` adds that somebody reads it.
* `Repo_proofs!StaleOnlyByCommit` and `AgreementLasts`: no request makes the cache
  disagree with the tables unless it commits, and once they agree they do so until
  the next commit. `CacheConverges` adds that they come to agree.

The assumptions are those named in the modules: constants have their types, the
absent value is none of the others, putters are finitely many, tasks are no
listeners, `settings.REDIS` names no server twice (`Management`), and the kinds of
cache keys are disjoint.

Only model-checked: the liveness properties (`TimedRequestAnswered`,
`PutterServed`, `MainServes`, `AbortReleasedByPending`, `SessionEnds`,
`EveryPostIsAnswered`, `ConnectedGroupIsServed`, `CacheConverges`,
`FailoverMovesAddress`), which rest on fairness and `ENABLED` and are out of the prover's reach.

## What is not modelled

* A Redis server that fails between the XADD of a push and its ACK: `Delivery` has
  the one without failures, `Failover` has failures and no messages.
* In a session, which response answers which request: `Delayed` processes the
  request that was read last, as the code does, and the response is data.
* Of an endpoint row only the verkey and the Redis address; two identical rows of
  `routing_keys` are one. The lookup under `agents_verkeys` in
  `Repo.ensure_endpoint_exists` (lines 75-78) asks a namespace that is keyed by
  DID for a uid, and never hits.
* A transaction that waits for a deleted row takes its snapshot after the wait.
* "Received" in `Delivery` means written to the socket of a device or polled.
* The bus beyond the listeners of a session: a publish keeps a pool of connections
  and changes nothing in a session; which server a topic is on is data.
* Of the management: users and login; the certificate that certbot issues, which
  is never stored (the context of its backup holds a time that JSON has no form
  for), so that the SSL option "acme" does not come about; `clear_memcached` only as
  it is called, without a port; restoring files from a backup. A configuration of
  nginx is its root and its SSL option.
* Start-up is the initial state, the environment a constant. Migrations run once,
  off line. Cryptography, co-protocols, templates, the sending of e-mail and the
  health checks are I/O or data.
* Pages of key lists (`keys[offset:limit]`, line 246 of `mediator_scenarios.py`) are
  slices of one list, without state.
