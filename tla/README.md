# Verification of mgl-communication

TLA+ models of the realtime and push server (`mgl-realtime-server`, Go) of this
repository, the TLC runs that check them on small instances, and TLAPS proofs
that carry the most important results to every instance.  `PROJECT.json` lists
components, runs, mutants, hazards and theorems, and maps each definition to the
source lines it models.

## 1. The system

A client places a call over a WebSocket; the server keeps the call, rings the
callees over their WebSockets and, if they are offline, through a push provider;
media flows through an SFU.  Business messages take the push path alone.

| Component | State | Operations | Interacts with |
|---|---|---|---|
| Call runtime (`internal/call/service.go`, `orchestrator.go`) | calls: mode, state, participants; one timer goroutine per ringing call | Create, Accept, Reject, Cancel, Join, MarkConnected, Leave, Hangup, Fail, Resume, ring timeout | store (atomic Update), event bus, SFU, incoming call bridge (timeout handler) |
| Call stores (`memory_store.go`, `store.go`) | calls by id, index of calls by user | Put, Get, Update(closure), ActiveCallIDsForUser | Redis (WATCH/MULTI, pipelines, TTL) |
| Push pipeline (`service/message.go`, `repository/`, `queue/worker.go`, `retry/`) | messages, deliveries, idempotency keys in PostgreSQL; the batch of each worker | Send, claim, provider call, record outcome, complete, stop | devices, providers |
| Device registry (`service/device.go`, `repository/device.go`) | one row per installation and provider: app, user, token, status | Register, UpdateToken with its fallback, SetUser, ClearUser, Unregister, MarkInvalid | push pipeline, HTTP API |
| Providers (`provider/*`) | cached credentials | ValidateToken, fetch of a credential, Send, classification of answers | external HTTP services, worker |
| Signaling hub (`signaling/websocket`, `signaling/connection`) | connections by id and by user, one bus subscription per user, a bounded send queue per connection | register, unregister, auth, the call commands, relay, resume, dispatch | call runtime, presence, Redis bus, operation log |
| Operation log (`oplog/`) | a bounded list per call in Redis | Append, GetRecent | hub |
| Presence (`presence/`) | a key per device and a set per user in Redis, with TTL | SetOnline, SetOffline, SetStatus, GetUser (merge) | hub, HTTP API |
| Event bus (`events/`) | subscriptions, bounded channels | Publish, SubscribeUserTopic | hub, call runtime |
| Incoming call bridge (`incomingcall/`) | none | ring, cancel and stop-ringing pushes | hub, HTTP API, ring timer, push pipeline |
| HTTP API (`api/`) | none of its own | handlers of calls, devices, messages, presence | everything above |
| Rate limiter (`ratelimit/`) | a counter per key and window | Allow, Cleanup | hub |
| Call client (`mgl-call`), push client (`mgl-push-client`) | call state; event buffer, deduper, pending store | see section 5 | the server |
| Authentication, configuration, Phoenix and SFU clients | none of their own | | |

### What is hard, and what correctness means

* **Call runtime.**  The operations of several users, the expiry of the timer
  and a late Resume interleave; each is one atomic Update of the store but what
  follows it (publishing, the timeout handler) is not part of it.  Correct: an
  ended call stays ended, its end is announced once, nobody rings after a
  cancel, a direct call stays between its two users, the list of active calls is
  exact, ringing ends.
* **Redis store.**  Several nodes read, compute and write the same key; Put is
  not a transaction; the index is cleaned up asynchronously on stale
  information; EXEC can succeed without its reply arriving.  Correct: it behaves
  as if closures were applied one at a time.
* **Push pipeline.**  Several processes work on the same tables with statements
  that look at nothing but an id; a worker can stop between claim and outcome; a
  provider can take a push whose answer is lost; Send can fail half way.
  Correct: one owner per delivery, a bounded number of pushes, final outcomes,
  one message per idempotency key, every delivery finishes.
* **Hub, presence, bus.**  Registration, authentication and disconnection of
  several connections of one user race with events and with each other, partly
  outside the lock; a connection may authenticate again as somebody else; full
  queues drop messages; a peer may stop reading.  Correct: the subscriptions fit
  the connections, nothing leaks, an event in the channel is offered to everyone
  while peers read, presence follows the connections.
* **Bridge.**  After its operation a command tells the participants and requests
  pushes in goroutines that overtake each other, on the snapshot that the
  operation returned; rooms are slow or fail, pushes are refused.  Correct: every
  callee with a device is rung, a ring that is not answered is withdrawn and the
  withdrawal is the last that the phone gets, who is in a call hears that it is over,
  an accept stops the user's other devices.
* **Relay and log.**  A participant reconnects and reads the log while others
  append to it and publish.  Correct: what was routed to him he has or will get,
  or its loss has one of a few known causes; no log stays for ever.
* **Providers.**  Six vendors, with codes of their own and credentials that expire or
  are refused.  Correct: a credential is fresh when it arrives, and one that was
  refused is not used again.
* **Device registry.**  Login, logout, token rotation, refresh and sends of one
  installation with several rows interleave.  Correct: rows follow the login, a
  reachable row is not given up, a cancel goes where the ring went although rows come
  and go in between.
* **Presence.**  Pipelines that are no transactions, lazy removals by goroutines,
  two TTLs.  Correct: a live device is findable, an update reads what it wrote,
  ghosts end.

The full list, at source lines, is `hazards` in `PROJECT.json`.

## 2. Modules

| Module | What it is |
|---|---|
| `CallRuntime` | call service, atomic store, room step, timer, events |
| `CallLifecycle` | what a call promises: none, ringing, live, over, and one announcement |
| `CallOutcome` | what the rest of the server relies on of a call: who is in it, how it stands or ended |
| `CallRuntimeProofs` | type correctness, inductive invariant, safety, both refinements |
| `CallBridge` | commands over sockets and HTTP, broadcasts and push requests, composed with the calls of `CallOutcome` |
| `RedisCallStore` | `store.go`, one Redis command a step |
| `AtomicCallStore` | the store the service is written for |
| `RedisCallStoreProofs` | type correctness, inductive invariant, safety, refinement |
| `PushQueue` | Send, workers, deliveries, devices, one SQL statement a step |
| `PushDelivery` | what a delivery promises: at most `Limit` pushes, then a final outcome |
| `PushQueueProofs` | type correctness, inductive invariant, safety, refinement |
| `Hub` | connections, authentication, subscriptions, routing, write pumps, presence; lock and network steps |
| `HubProofs` | type correctness, inductive invariant, safety of `Hub`; the same for the call commands that the hub runs (`CallBridge`), and their refinement of `CallOutcome` |
| `SignalRelay` | relay of signals, operation log, reconnection and resume |
| `SignalRelayProofs` | type correctness, inductive invariant, both safety properties |
| `ProviderSend` | the six providers: credential caches and verdicts on answers |
| `ProviderSendProofs` | type correctness, inductive invariant, both properties of credentials |
| `DeviceRegistry` | device rows, user binding, choice of targets, invalidation |
| `DeviceRegistryProofs` | type correctness, inductive invariant, the three safety properties |
| `PresenceStore` | presence in Redis, one command a step, with expiry |
| `PresenceStoreProofs` | type correctness, inductive invariant, both safety properties |
| `MC...` | instances for TLC with their symmetry sets |

How they fit: `CallRuntime` implements `CallOutcome`, and `CallBridge` EXTENDS
`CallOutcome`; a push that `CallBridge` requests is a Send of `PushQueue`; which rows
it goes to is in `DeviceRegistry`, and what a provider makes of one delivery in
`ProviderSend`.  `Hub` has the connections and the routing that `SignalRelay` takes
as one link per user.  `RedisCallStore` justifies the atomic Update of
`CallRuntime`, `PresenceStore` is the detail behind SetOnline and SetOffline of
`Hub`.

Definitions commented as "Mutant" are used by nothing in the models.  Each is a
plausible slip in the code; put in place of the definition that follows it, it
must make the property named in `PROJECT.json` fail.

### CallRuntime

`mode`, `caller`, `state`, `part`, `started` are the fields of `Call` that decide
anything; `byUser` is the index of the store.  Each operation of `service.go` is
one action, because it is one `Update` under the store's lock: its guard is what
the closure checks, its effect what the closure assigns.  `timer` is the goroutine
of `scheduleTimeout`: `RingTimeout` is its Update (which does nothing when the
call has been answered), `RingTimeoutNotify` what comes after it.  `Resume`
reads first and updates later: `ResumeCheck` and `ResumeUpdate`.  `out` and
`seen` are the end events before and after the hub's `onEvent`.  `RoomReady`,
`Fail` and `FailAfterDisconnect` are the three ways `Orchestrator.Create` ends;
the request that creates a room can be cut off, and then nobody fails the call.
`Crash` forgets everything that is not in the store.  `MediaReports` and
`RoomMayFail` say whether MarkConnected is called and whether CreateRoom can
fail: the shipped handlers and providers do neither, the interfaces allow both,
and the safety run allows both.

### RedisCallStore

Of the call's value the model keeps whether it is over, its participants, and
`done`, the set of requests whose change is in it.  That set is what makes a lost
update visible.  `dirty` is Redis' own mark that a watched key has changed.  The
closures of `service.go` come in three kinds, told apart by what they refuse and
what they change: `join`, `end` and `touch` (Resume, which does not refuse a
call that is over).  `Exec_Error` is a connection that breaks at EXEC: the
transaction may have been carried out or not.  go-redis' own reconnects are
external and covered by that choice.  The index key's own expiry is left out: it
is renewed with every write of the call, so it outlives the call.

`CallRuntime` treats an Update as one step.  `ImplementsAtomicStore` is what
justifies that for the Redis store; for the memory store a mutex does.

### PushQueue

Rows are functions of message and device: `dstatus`, `attempts`.  A Send request
has a position `req[m]` and each statement is an action (`SendBegin`,
`SendCommit`, one `CreateDelivery` per row, `MarkQueued`), any of which can be
the last (`SendError`).  A worker has a position `pc[w]`, the rows it has claimed
(`held`) and the one it is at (`cur`).  `Attempt` chooses the provider's verdict:
accepted, temporary error, permanent error, invalid token.  The first two come with
or without a push that the vendor really took: an answer can be lost, and four
providers count an answer without a code as accepted (`ProviderSend`).  The statements of `maybeCompleteMessage` are three actions.
Failures of statements are actions of their own, because the code ignores most
of them and goes on.  Retry delays are abstracted: a row in `retrying` may be due
at any claim.

### Hub

`pc[c]` is the position of the readPump goroutine of connection `c`: through
`handleAuth` (`Authenticate`, `BindUser`, `Reserve`, `Subscribe`, `Fill`,
`SetOnline`, `Announce`, `SendReply`), and after a read error through
`unregister` (`Unbind`, `CloseSub`, `SetOffline`, `Announce`, `Close`).  A step is
what happens under one lock, or one call to Redis.  A subscription is named by
the connection that made it and its user: `userSubs` holds the connection, `sub` is
its state at Redis, `filled` says that its controllers are installed and its
dispatcher started.  `Unbind` keeps in `closing` what it must close after the unlock.

A connection may authenticate again at any time, as another device or another user.
`SetIdentity` overwrites what it was, and nothing is undone: `left` keeps the earlier
identities, under whose users the connection stays in `byUser`.  `Again` bounds the
connections that do so.

Two locks can be held for long.  `deliverLocal` holds `h.mu` for reading while it
sends to one connection after the other: `job[x]` is what goroutine `x` still has
to send, `at[x]` the connection it has come to and waits for (the order of a Go map is
any), and `Lockable` says when others may lock for writing.  `WriteMessage`
holds the mutex of a connection during a socket write: `writer[c] = "writing"`,
and `Unlocked` says when others may take it.

Events come from the call commands (`SendToUser`, at any time) and from presence
(`Announce`).  The contents are left out, as is the order in a channel.  Redis commands
of the presence store succeed.  `deliverLocal` compares `c.DeviceID` without `c.mu`,
under which `SetIdentity` writes it: a data race, in which `SendTo` reads the identity
before or after.

### CallBridge

A command of `hub.go` or `api/calls.go` is an operation of `CallOutcome` conjoined
with what it starts: a *handler*, a record of the steps still to take (`broadcast`,
`ring`, `stop`, `cancel`) and of the participants in the snapshot that the operation
returned.  A handler is the rest of the command or a goroutine; handlers of one call
interleave in any order.  `CreateReturns` starts the ring pushes only after the
room; the ring timer's `TimeoutHandler` requests the cancel pushes.  `heard` is what
sockets were sent, `pushes` what MessageService took, for users who have a device
(`Reachable`); `ReplyLost`, a failing statement and a crash are the faults.  `pushes`
is a set, so two history variables keep the order that matters: `overtook` has the
callees for whom the cancel was requested while the create had still to ring them
(`StillToRing`), `late` those whose ring was requested after the cancel.  Commands that tell nothing of a ring or an end have no handler.

### SignalRelay

One call, its participants, and one link per user: `off`, `pending` (SUBSCRIBE sent)
or `live`.  `pc[u]` is the handler in the readPump of `u`: `relaySignaling` appends
(`push`, `trim`, `expire`: three commands of one pipeline) and then routes;
`handleResume` routes a notice, reads the log and replays it.  `chan[u]` is the
channel of the subscription and `queue[u]` the connection's send channel, both
bounded and lossy.  `gaps[u]` records what was lost for `u` and why: that a loss is
*named* is what `NoSilentGap` asks.

### ProviderSend

An answer is a class of status and a class of body.  `Huawei`, `Oppo`, `Vivo`,
`Xiaomi`, `Apns` and `Fcm` are the classifications of the six providers, and the
worker turns the verdict into a status.  The classes of bodies are the lists of codes
and phrases in each provider's own code (`nocode` is a body in which it finds none);
the vendors are external and answer with any status and any body.  Credentials are numbers in the order of
issue, with the time until which the vendor takes them; `cache` is the one that is
kept and its local expiry.  Time is in units of the HTTP timeout: `Tick` does not
pass a request's timeout.

### DeviceRegistry

`rows[i][p]` is the row of an installation for a provider, `gen` the generation of the
token that the vendor has given out.  Handlers of one statement are one action; the
fallback of the token update is three (`UpdateTokenMisses`, `FindExisting`,
`RegisterMissing`).  `SendToUser` and `SendToInstall` choose targets with
`filterDevicesForMessage` and `selectProviderForMessage`; the worker reads a token at
`Pick` and learns the answer at `Answer`.  `rung` remembers whom the latest call is for
and the rows that it rang, while rows are registered, given up and rebound, until the
cancel.  `unsure` and `replaced` mark the installations and rows for which the code
gives no guarantee.

### PresenceStore

`update` is `Set`, `SAdd`, `ExpireIndex` and then GetUser (`SMembers`, `MGet`,
`Return`); removals of members without a key go to `sweeps` and are sent later
(`SRem`).  `Tick` ages all keys.  `unlisted` marks devices that their set has lost by
a late removal, a cut-off pipeline or the set's own end in the middle of one.  The
memory store is the same under one mutex without expiry.  `Merged`, the loop over
MergeStatus in GetUser, is the found status that MergeStatus keeps against every other:
MergeStatus takes the greater rank and ranks differ, so the order of the loop does not
matter.

## 3. Runs

| Run | Checks | Bounds | States |
|---|---|---|---|
| `call_safety` | invariants and both refinements of the runtime; ringing ends, ends are counted | 3 users, 1 call, 1 fault | 292 k |
| `store` | no lost update, index, refinement | 3 requests, 2 users, 1 call, 1 reader, 2 rounds, 1 lost connection | 761 k |
| `push_safety` | ownership, attempt limit, keys, completion, refinement | 2 messages, 1 key, 1 device, 2 workers, 2 attempts, 1 fault, 1 stop | 622 k |
| `push_live` | deliveries finish | 1 message, 2 devices, 1 worker | 105 k |
| `push_retry` | expected violation: see findings | 2 messages, 1 worker | |
| `hub` | subscriptions, leaks, presence; events arrive | 2 connections, one of which may authenticate again as a second device and user, 1 node, 1 event, buffers of 1 | 439 k |
| `hub_stuck` | expected violation: see findings | 2 connections, 1 node, 1 event | |
| `bridge` | who is rung, withdrawn, told, answered elsewhere; nobody is told what is not so | 3 users of whom 2 have a device, 1 call, 2 handlers when a command starts, 1 fault | 194 k |
| `relay` | no silent gap, no orphaned log | 2 users, 1 of them roams, 2 signals, log of 1, channel of 1, send queue of 2, 1 fault | 2.1 M |
| `providers` | credentials: fresh, and not reused when refused | 2 deliveries (one malformed token), 6 vendors, 3 attempts, 3 credentials, 5 units of time | 251 k |
| `devices` | cancel follows ring, only dead rows given up, rows follow the login | 1 iPhone with 2 rows, 2 users, 1 rotation of a token | 983 k |
| `presence` | findable, reads own write, ghosts end | 2 devices, 2 users, 2 calls at a time, 2 updates, TTL of 2 ticks, 1 fault | 960 k |

*Why the bounds are enough.*  Calls do not interact, so one is enough; three
users are the smallest group in which one leaves and two remain, and in which an
outsider exists for a direct call.  Two workers and one row are the smallest
race for a claim, and with two messages the second is claimed in the same batch
or by the other worker; two Sends with one key are the race for it; two attempts
reach the retry and its limit.  In the store, one Put and two Updates race for a
key, and expiry adds the second conflict that exhausts the retries.  Two
connections of one device are the race of a reconnect with the removal of the old
connection, and one that becomes a second user leaves behind everything that a second
authentication can; buffers of one are full at once.  Three restrictions keep that
small (`MCIdentities`, `MCEvents`): a connection is the first user's first and
authenticates again at most once, as the second; the write pump of that connection
does not fail by itself; calls are the first user's and except the second device, and
presence expires for the second.  (`Inv` was also checked without them on 12 million
states.)  In the bridge,
three users are a caller, a callee with a device and one without, or a newcomer;
two handlers in progress, to which the one of a new command and the timer's are
added, are the overtaking of ring and cancel.  A log of one entry is trimmed by the
second signal, and a channel of one is full at once.  Three attempts of a delivery
use, lose and renew a credential; five units of time outlive one.  An iPhone is the
only installation with two rows of which a message takes one; one of its tokens is
rotated, and calls are for users, as all of the server's own are (`MCNext`).  Two updates of two
calls, of the same or of different devices and users, are the race for a key, for a
set and for both; a TTL of two lets one key end and the other live on.  What is
proved below does not depend on these bounds.

*Symmetry* is used in safety runs only (users, clients, messages and workers are
interchangeable where the cfg says so).

*Fairness.*  `CallRuntime`: timers expire and a runnable goroutine runs
(`RingTimeout`, `RingTimeoutNotify`, `OnEvent`), nothing is assumed of users or
of the room request.  `PushQueue`: a request that has begun goes on, the
worker's ticker ticks, a worker goes on with its batch; nothing of devices and
clients.  `Hub`: goroutines that can run do; peers need not read, and a write without a
deadline need not end.  That no peer stops reading for ever (`PeersRead`) is a
hypothesis inside `EventsArrive`, where the reader sees it, and not fairness.  `CallBridge`:
goroutines that are ready run (`HandlerStep`, `TimeoutHandler`); users need not act,
rooms need not come.  `PresenceStore`: the clock of Redis runs (`Tick`), nothing else.
The rest is what the Go scheduler and the tickers give.

Deadlock is not checked: after a bounded number of calls, requests and faults
the system rests.

### Findings

* `push_retry`.  The idempotency key is committed before the deliveries are
  written; when Send fails in between, every retry is told it is a duplicate of
  a message that is never delivered.
* `hub_stuck`.  A socket write has no deadline and holds the connection's mutex; a
  delivery waiting for that mutex holds the lock of the hub.  One peer that does not
  read stops authentication and removal for everyone on the node, where hub.go:214
  says that the hub does not stall on network I/O.

### Seen while modelling

Behaviour that the models have and that a reader of the documentation would not
expect; no property denies it, and where an exception was needed the property
names it.

Calls
* The caller is a participant, and his own Join or Accept takes the call out of state
  `ringing`; the timer then leaves it alone, although REALTIME.md:205 promises a
  timeout.
* A crash leaves a ringing call ringing, as nothing arms its timer again
  (`RingingEnds` and `RingingHasTimer` therefore speak of runs without a fault).
* Accept after Join takes a call from `connecting` back to `accepted`.
* Over HTTP no command tells the sockets anything: `call.stop_ringing` of an accept
  (TROUBLESHOOTING.md:55) is sent by the hub only (`quiet`, `Untold`).
* The ring pushes of a create run in their own goroutine and do not look at the call
  again, so a cancel can overtake them: the phone is told that the call is cancelled
  and then that it rings, and nothing follows (`overtook`, `late`).

Messages and deliveries
* A worker that stops between claim and outcome leaves rows in `sending`, which no
  claim selects again.
* `MarkQueued` comes after the deliveries are visible to workers and overwrites
  `completed` (SERVER.md:61).  A message of several devices can be completed while
  `CreateMany` is still inserting; one without deliveries stays queued, as does one
  whose last delivery fails its look-up.
* A worker sends to a row that became invalid or disabled after Send
  (TROUBLESHOOTING.md:67).

Devices
* `MarkInvalid` looks at the id alone, so a token refreshed during the push is given
  up with the old one (`replaced`).
* UpdateToken without a provider writes one token into every row of an installation,
  although its comment speaks of the primary one; the VoIP row then holds an APNs
  token.  UpdateToken also reactivates an unregistered device (API.md:34).
* The fallback of UpdateToken reads the user in one statement and writes it in
  another; a logout in between is undone (`unsure`, API.md:33).
* A row of an iOS installation for a provider that is not Apple's is sent to APNs.

Providers
* A body that is no JSON leaves the code 0, which is success for OPPO, vivo and
  Xiaomi whatever the status, 401, 403, 429 and 5xx aside, and for Huawei with a 2xx
  (`nocode`; ARCHITECTURE.md:122).  For Xiaomi so is a result "error" without a code.
* The lists of token errors of Huawei (80200001, 80200003) and OPPO (11) have codes
  that read like errors of the server's own credential; a device that is answered with
  one is given up.  No property can tell: the vendors' meanings are not in this code.
* An authentication error in the body of a 200 keeps the cached credential, and APNs
  keeps its JWT in any case.

Hub, relay, presence
* A connection that authenticates again keeps its entry under the first user, for good:
  `unregister` removes it under the last one only.  The first user's subscription is
  then never closed, and the first device stays online until its TTL ends (`left`,
  `LeftUsers`; the exceptions in `NoSubscriptionLeak` and `NoGhostOnline`).
* A device that has reconnected is set offline by the removal of its old connection
  (REALTIME.md:212).
* While a subscription is handed over two are live and an event is delivered twice.
* A connection reads the log without waiting for its SUBSCRIBE; the log has up to 200
  entries and the send channel 128 places (`gaps`).
* The presence pipeline is commented as atomic and is not; a late SREM hides a device
  that has come back (`unlisted`).  The key of a device is shared by all who log in on
  it, so the set of a former user reports the status of the new one.  Presence is not
  renewed, so a device connected for longer than the TTL becomes offline.
* The buckets of the rate limiter are never removed.

## 4. Proofs

`tlapm` on a module `...Proofs.tla` checks every leaf of its proofs; there is one for
each model, and `HubProofs` is also that of `CallBridge`.  The theorems hold for any sets and bounds that satisfy
the modules' assumptions: null values outside the sets they stand beside, bounds that
are naturals (attempts and batches not zero), and for `ProviderSend` how the constants
of the code lie to each other: two timeouts fit into the margin by which a credential
is renewed early, or into the time between its local expiry and its end.

Each proof has the same outline: one lemma per action for `Inv /\ action => Inv'`, in
it one step per conjunct that the action can disturb, before it lemmas about the
operators of the model, and after it the properties.  Each `Inv` was checked by TLC on
the instance of its run first.

**CallRuntime.**  The inductive invariant `Inv` adds two facts to the types and
the safety properties.  `Fresh`: nothing refers to a call that was not created;
without it a stray Resume or room failure could touch one.  `IndexExact`: the
index lists exactly the participants; `IndexComplete`, which is about live calls
only, is not inductive, as it says nothing of a call whose participants change
while it is ended.  `EndedOnce` counts an end that the timer still owes, which is
what makes it inductive.  From `Inv` follow the invariants; `StateSteps` (what a
step may do to states) gives `TerminalAbsorbing` and the refinement of
`CallLifecycle`, `ParticipantSteps` the two properties of participants.
`OutcomeStep` refines `CallOutcome`, action by action: `OutcomeOfStore` says what an
Update is for the abstract call, `OutcomeOfEntry` and `SilencedKeeps` that it keeps
the participants, and `UserOutcome` and `CallOutcomes` name the abstract step of each
operation.  `StartedStaysConnected` is needed there for MarkConnected, `EndedOnce` for
Create (a new call has no timer that has fired).  The invariants and action
properties that only this module states (`StartedStaysConnected`, `IndexComplete`,
`TerminalAbsorbing`, `EndedParticipantsFinal`, `DirectStaysPrivate`) are proved and in
no run, like `FailedUpdatesLeaveNoTrace` and `OverIsFinal` of the store and
`Placeholders` of the hub.

**RedisCallStore.**  The heart is `FreshSnapshot`: a transaction whose key is not
dirty has read the current value, so that EXEC applies its closure to that value
(`CommitEffect`).  `PutsAlone` (until its SET nobody else knows a call) and
`IndexOfStored` (an entry that is to be removed is of a call that is over or gone)
make the index property inductive: the cleanup can be as late as it likes,
because over and gone are final.  `StoreStep` shows that each command is a step
of `AtomicCallStore` or a stutter; `OverStaysOver` then follows from the abstract
store.

**Hub.**  `NoSubscriptionLeak` needs to know who will close a subscription, and a
connection that authenticates again would close it no more.  `RoutingTable` says
exactly whom `byUser` has: the connections that are the user now, and those that have
been (`left`).  `Once` says that a connection makes at most one subscription for a user,
so that pairs can name them, `Accounted` that what Redis serves is current or is being
closed; the two holders that the property names follow with `SubscribedWhileConnected`
(`Closers`).  `Entries` ties each entry of `userSubs` to the connection that made it;
`Placeholders` says that an entry stays while it is being filled, because its
connection is bound and so nobody else is the user's last.  That makes the
rollback branch of `ensureUserSubscription` unreachable.  `Closings` says that
what was taken out of the table has its controllers, is open, and is one
connection's task; it is what keeps a late `CloseSub` from closing a new
subscription.  `OnlineHeld` strengthens `NoGhostOnline` to the positions in which
SetOffline is still to come, with the devices that a second authentication left
behind.  There is one lemma per action (`BindUserStep`,
`UnbindStep` ...), `MoveStep` for the actions that change only a position, `Frame`
for those that change nothing of this.

**CallBridge** (in `HubProofs`; its specification is `BridgeSpec`, its inductive
invariant `BridgeInv`, and it assumes that callers and users with a device are users).
A command's goroutine works on the snapshot that its operation returned, any number of
other commands later.  `Snapshots` says why that is safe: a call that is over stays over
in the way it ended and nobody enters it, so the participants of the snapshot of an end,
a cancel or a timeout are still exactly those of the call; an accept is never taken back,
and those a create has still to ring are callees.  From it follows `NoFalseNotice`
(`Truthful`), with faults and crashes.  That nobody is forgotten needs the other
direction: `Rung`, `Withdrawn` and `Told` name, for everything that is owed to somebody,
who still has to do it (a room to wait for, the fired timer, a handler with that step in
its plan), so that nothing is owed once the call is at rest.  `RungAtRest`,
`WithdrawnAtRest` and `ToldAtRest` say that for every call; they are what safety can say
of `CalleesAreRung`, `RingIsWithdrawn` and `EndIsTold`, whose rest, that a call comes to
rest, is fairness.  `Withdrawn` speaks of all participants with a device and not of those
that were rung, since the ring may still be to come.  `Overtaken` is what makes the order
of the pushes provable: a ring that is late, or is still to come where the cancel has
been requested, is of a callee in `overtook`.  So at rest the cancel push exists, and is
the last one, for everyone the create did not lag behind on (`NobodyToRing`,
`AdvanceRings`, `OvertakenStep`).
`AnsweredElsewhere` is in the invariant as it stands, because Accept is the only step that
adds a user and its handler leaves with the push.  One lemma per command and per step of
a handler; `Advances` and `PlanValues` say what a step leaves of a plan.
`OutcomeKept` shows that the composition does to a call only what `CallOutcome` allows:
with `OutcomeRefinement` above, `CallBridge` assumes nothing of calls that the runtime
does not give.

**PushQueue.**  `SingleOwner` and `PushesBounded` need `Spare`: the counter of a
delivery runs ahead of the pushes while it is held and not yet tried, so that a worker
that stops, or an outcome whose statement fails, can never make a push that was not
paid for.  `Positions` says what a worker knows of its delivery at each statement
(it holds the row until the outcome is written, and after that the row is done),
`Rows` that a claimable row has an attempt left, `Requests` and `Bindings` that the
two directions of an idempotency key agree; `OneMessagePerKey` follows from them.
`ClaimStep` is the lemma that matters for ownership, since a claim takes only rows
that nobody holds.  `DeliveryStep` maps every statement to a step of `PushDelivery` or
a stutter: the abstract limit holds because of `Spare`, and an outcome stays because
`Rows` and `Positions` leave no statement that could reopen it.

**DeviceRegistry.**  `InvalidIsDead` is about an answer that comes after the row may
have changed.  `Held` says that the token the worker sends is that of the row unless
`replaced` says otherwise, `TokensGiven` that no row is ahead of its vendor, and
`Queued` and `Routed` that each target is served once and by its own provider, with
the one exception that the property names.  `BindingFollowsLogin` needs `Bindings`:
what a refresh has read of the user still holds, or the installation is `unsure`; and
an installation without rows has no user, since otherwise its first row would be born
with the wrong one.  `CancelFollowsRing` compares the rows that rang with the choice
that `filterDevicesForMessage` makes of the rows as they are now.  It needs `Rings`: if
a VoIP row rang, it rang alone (`VoipAlone`), so that a cancel that prefers it again
loses nobody; `RecallStep` keeps that over new calls and cancels.

**ProviderSend.**  `FreshToken` is arithmetic over two requests in a row.  `Deadlines`
keeps the times: a request ends within its timeout, a credential lives from the
beginning of its fetch, and one that is sent outlives the request or was issued for no
longer than the margin.  `Credentials` says that the local expiry of what is cached
lies a timeout before its end, and that a rejected credential is not cached (APNs
excepted).  Of the verdicts the proofs need their range only (`VerdictValue`).

**PresenceStore.**  `IndexCoversLive` looks away while an update is running, so it is
not inductive.  `Covered` names, for every live device, who sees to it: its set has it
and ends no earlier than the key (`Listed`), an update of its own user is between SET
and EXPIRE, or it is `unlisted`.  "Of its own user" matters: the key of a device is
shared by all who log in on it, and another user's update adds it to another set.
`ReadsOwnWrite` needs `Owned`, what is still true of a call's own write at each of its
commands.

**SignalRelay.**  A participant may read the log between any two commands of another's
append.  `Unlogged` says that a signal which the log does not have yet is in the hands
of its handler, `Handling` that this handler still has everybody else to route to.  So
whoever reads the log finds the signal there, or has it coming, or it was lost in a way
that `gaps` records; `NoSilentGap` follows for every user that has caught up.
`Connected` rules out that a user without a connection counts as caught up.

What the proofs changed in the models: several CASE expressions had arms that overlap.
TLC takes the first that applies, TLA+ leaves the choice open, and the theorems fail
for the other choice; these are IF chains now, in the order of the code.  The proofs of
`ProviderSend` need `MaxAttempt > 0`, as those of `PushQueue` do; the default of
`MGL_PUSH_MAX_ATTEMPTS` is 5.

**Model-checked only.**  Liveness under fairness (`RingingEnds`, `DeliveriesFinish`,
`EventsArrive`, `EndIsTold`, `GhostsEnd` ...), in all modules: the prover has no rules for
it.  Every invariant that a run checks is proved, and so is every refinement.  (Type
invariants and parts of inductive invariants that take part in no run were checked by TLC
on the same instances.)

## 5. Not modelled

Contents and formats (payloads, JSON, request bodies), the memory model of Go
(`memory_store.go:35` stores the caller's pointer, which Create reads again without
the lock), the delays of the backoff, a send to a provider and token without a device
row, and pings.  Whether a provider's list of codes is what its vendor means cannot be
stated from this code.  The rate limiter is a counter under one lock; `SignalRelay`
lets it refuse any message.  The Phoenix client, authentication and configuration have
no state.  The clients (`mgl-call`, ClojureDart, and `mgl-push-client`, Dart) are
programs of their own: `mgl-call` shows a copy of the call that the server sends, the
push client keeps two bounded collections on one isolate; what they rely on of the
server (at-least-once delivery, deduplication by event id, resume) is on the server's
side of the models.

## 6. Plan

1. `PresenceStore` composed with `Hub`, command by command, where `Hub` now has SetOnline
   and SetOffline as one step each.
2. Models of the two clients against `CallOutcome` and `PushDelivery`.
